----------------------------- MODULE Connection -----------------------------
(***************************************************************************)
(* Clients of packages/protocol/src/client.ts on the sockets of            *)
(* packages/server/src/ws-server.ts, with as much of the session host as   *)
(* decides who is subscribed to what.                                      *)
(*                                                                         *)
(* A call is numbered when it is made; the number is its request id, 0 is  *)
(* the handshake's.  A socket keeps each direction in order.  What the     *)
(* server has written and the client not yet read is its bufferedAmount.   *)
(* The host is reduced to which sessions exist, are being opened, are live *)
(* and are running (SessionHost models it); its awaits are kept.           *)
(*                                                                         *)
(* Left out: what requests and events say, validation of their shapes, the *)
(* heartbeat (it ends a connection like any other loss) and stop().        *)
(***************************************************************************)
EXTENDS Integers, Sequences, FiniteSets, SequencesExt

CONSTANTS
  Clients,        \* each one client on one socket
  Sessions,       \* sessions that are stored when the server starts
  MaxConnections, \* bound: the largest #maxConnections
  Threshold,      \* #backpressureThresholdBytes, in frames
  Sustained,      \* #backpressureSustainedMs, in ticks
  Secured,        \* the server has a token
  Holders,        \* clients that were given that token
  MaxCalls,       \* bound: calls of all clients
  MaxEvents,      \* bound: events of all runs
  MaxTicks        \* bound: ticks of the clock

ASSUME NumbersAssumption == /\ MaxConnections \in Nat \ {0} /\ Threshold \in Nat
                            /\ Sustained \in Nat
ASSUME SecuredAssumption == Secured \in BOOLEAN /\ Holders \subseteq Clients
ASSUME BoundsAssumption  == MaxCalls \in Nat /\ MaxEvents \in Nat /\ MaxTicks \in Nat

VARIABLES
  cap,        \* #maxConnections
  creds,      \* the client's token: "none", "right" or "wrong"
  link,       \* the socket, see Links
  closed,     \* #closed of the client
  handshake,  \* #handshake: its promise, or how it failed
  outbox,     \* #outbox, frames waiting for the socket to open
  pending,    \* #pending: ids with a promise to settle
  calls,      \* every call made, and how far it is
  up,         \* frames on the way to the server
  down,       \* frames on the way to the client
  attached,   \* connections in #connections
  authed,     \* state.authenticated
  observed,   \* state.observedSessions
  since,      \* state.backpressureSince
  work,       \* per call, how far the server is with it
  stored,     \* host: sessions with a file
  live,       \* host: #sessions
  opening,    \* host: #opening, and at which await each is
  running,    \* host: the prompt a session is running
  observers,  \* host: observers of each live session
  clock,      \* ticks so far
  events,     \* events so far
  clear,      \* ghost: when the client's buffer was last at or below the threshold
  cut         \* ghost: connections terminated as stuck

client == <<creds, closed, handshake, outbox, pending, calls>>
wire   == <<link, down, since, clear, cut>>
host   == <<stored, live, opening, running, observers>>
server == <<cap, attached, authed, observed, work>>
vars   == <<cap, creds, link, closed, handshake, outbox, pending, calls, up, down, attached, authed,
            observed, since, work, stored, live, opening, running, observers, clock, events,
            clear, cut>>

-----------------------------------------------------------------------------
(* "closing": the client said goodbye, what it sent before still arrives.
   "draining": the server did.  "broken": nothing arrives any more. *)
Links   == {"connecting", "open", "closing", "draining", "broken"}
Methods == {"open", "prompt", "delete"}
Never   == -1

Answer(i, ok) == [kind |-> "answer", id |-> i, ok |-> ok]
Event         == [kind |-> "event", id |-> 0, ok |-> TRUE]

Waiting(i)  == calls[i].at = "waiting"
Settled(i)  == calls[i].at = "settled"
SettleAll(ids, how) ==
  [i \in DOMAIN calls |-> IF i \in ids THEN [calls[i] EXCEPT !.at = "settled", !.how = how]
                          ELSE calls[i]]

\* Mutant: only an answer settles the handshake.
HandshakeAfterAnswer(c, ids, how) ==
  [handshake EXCEPT ![c] = IF 0 \in ids /\ how \in {"ok", "refused"} THEN how ELSE @]

\* The handshake settles; the calls that wait for it notice in their own time.
HandshakeAfter(c, ids, how) ==
  [handshake EXCEPT ![c] = IF 0 \in ids /\ @ = "pending" THEN how ELSE @]

-----------------------------------------------------------------------------
(* The client: calls, deadlines, close. *)

\* #call, up to its await of authenticate().
Call(c, method, s) ==
  /\ Len(calls) < MaxCalls
  /\ calls' = Append(calls, [by |-> c, method |-> method, on |-> s, at |-> "waiting", how |-> "none"])
  /\ work' = Append(work, "no")
  /\ UNCHANGED <<cap, creds, closed, handshake, outbox, pending, up, attached, authed, observed,
                 wire, host, clock, events>>

\* Mutant: requests do not wait for the handshake.
NeedNotWait(c) == handshake[c] \in {"none", "pending", "ok"}

HandshakeDone(c) == handshake[c] \in {"none", "ok"}

\* #dispatch and #send, once the handshake has succeeded.
Dispatch(i) ==
  LET c == calls[i].by IN
  /\ Waiting(i) /\ HandshakeDone(c)
  /\ IF closed[c]
     THEN /\ calls' = SettleAll({i}, "closed")
          /\ UNCHANGED <<pending, outbox, up>>
     ELSE /\ calls' = [calls EXCEPT ![i].at = "pending"]
          /\ pending' = [pending EXCEPT ![c] = @ \cup {i}]
          /\ IF link[c] = "connecting"
             THEN outbox' = [outbox EXCEPT ![c] = Append(@, i)] /\ UNCHANGED up
             ELSE /\ up' = IF link[c] = "open" THEN [up EXCEPT ![c] = Append(@, i)] ELSE up
                  /\ UNCHANGED outbox
  /\ UNCHANGED <<creds, closed, handshake, server, wire, host, clock, events>>

\* A call that waited for a handshake that failed, fails with it.
FailWaiting(i) ==
  LET c == calls[i].by IN
  /\ Waiting(i)
  /\ handshake[c] \in {"timeout", "closed", "refused"}
  /\ calls' = SettleAll({i}, handshake[c])
  /\ UNCHANGED <<creds, closed, handshake, outbox, pending, up, server, wire, host, clock, events>>

\* The timer of #dispatch, on the entry of a call or of the handshake.
DropEntry(c, i) == [pending EXCEPT ![c] = @ \ {i}]

Deadline(c, i) ==
  /\ i \in pending[c]
  /\ pending' = DropEntry(c, i)
  /\ calls' = SettleAll({i}, "timeout")
  /\ handshake' = HandshakeAfter(c, {i}, "timeout")
  /\ UNCHANGED <<creds, closed, outbox, up, server, wire, host, clock, events>>

\* #rejectAllPending
RejectAll(c) == pending[c]

Rejected(c) ==
  /\ pending' = [pending EXCEPT ![c] = @ \ RejectAll(c)]
  /\ calls' = SettleAll(RejectAll(c), "closed")
  /\ handshake' = HandshakeAfter(c, RejectAll(c), "closed")

\* close()
Close(c) ==
  /\ ~closed[c]
  /\ closed' = [closed EXCEPT ![c] = TRUE]
  /\ Rejected(c)
  /\ link' = [link EXCEPT ![c] = CASE @ = "open" -> "closing" [] @ = "connecting" -> "broken"
                                   [] OTHER -> @]
  /\ UNCHANGED <<creds, outbox, up, server, down, since, clear, cut, host, clock, events>>

\* #handleClose and #handleError.
SeeClose(c) ==
  /\ link[c] = "broken" \/ (link[c] = "draining" /\ down[c] = <<>>)
  /\ ~closed[c] \/ outbox[c] # <<>> \/ link[c] = "draining"
  /\ closed' = [closed EXCEPT ![c] = TRUE]
  /\ outbox' = [outbox EXCEPT ![c] = <<>>]
  /\ link' = [link EXCEPT ![c] = "broken"]
  /\ Rejected(c)
  /\ UNCHANGED <<creds, up, server, down, since, clear, cut, host, clock, events>>

\* Mutant: an answer settles the oldest call that waits.
OldestPending(c, frame) == {i \in pending[c] : \A j \in pending[c] : i <= j}

\* #pending.get(message.id)
Addressed(c, frame) == {i \in pending[c] : i = frame.id}

ClearedBy(c) == [clear EXCEPT ![c] = IF Len(down[c]) - 1 <= Threshold THEN clock ELSE @]

\* #handleMessage: an answer settles its call, one for nobody is reported; an
\* event goes to the listeners.
Receive(c) ==
  /\ link[c] \in {"open", "closing", "draining"}
  /\ down[c] # <<>>
  /\ LET frame == Head(down[c])
         whose == IF frame.kind = "answer" THEN Addressed(c, frame) ELSE {}
     IN  /\ pending' = [pending EXCEPT ![c] = @ \ whose]
         /\ calls' = SettleAll(whose, IF frame.ok THEN "resolved" ELSE "refused")
         /\ handshake' = HandshakeAfter(c, whose, IF frame.ok THEN "ok" ELSE "refused")
  /\ down' = [down EXCEPT ![c] = Tail(@)]
  /\ clear' = ClearedBy(c)
  /\ UNCHANGED <<creds, closed, outbox, up, server, link, since, cut, host, clock, events>>

-----------------------------------------------------------------------------
(* The socket. *)

Flushed(c) == [outbox EXCEPT ![c] = <<>>]

\* The upgrade is done on both ends; the client flushes what it held back.
SocketOpens(c) ==
  /\ link[c] = "connecting"
  /\ Cardinality(attached) < cap
  /\ link' = [link EXCEPT ![c] = "open"]
  /\ up' = [up EXCEPT ![c] = outbox[c]]
  /\ outbox' = Flushed(c)
  /\ attached' = attached \cup {c}
  /\ authed' = [authed EXCEPT ![c] = ~Secured]
  /\ UNCHANGED <<cap, creds, closed, handshake, pending, calls, observed, work, down, since, clear, cut,
                 host, clock, events>>

\* Accepted and closed at once; #connections never hears of it.
SocketRefused(c) ==
  /\ link[c] = "connecting"
  /\ Cardinality(attached) >= cap
  /\ link' = [link EXCEPT ![c] = "broken"]
  /\ UNCHANGED <<client, up, server, down, since, clear, cut, host, clock, events>>

\* The network, the heartbeat or the peer's end of the process.
Lose(c) ==
  /\ link[c] \in {"connecting", "open"}
  /\ link' = [link EXCEPT ![c] = "broken"]
  /\ UNCHANGED <<client, up, server, down, since, clear, cut, host, clock, events>>

Tick ==
  /\ clock < MaxTicks
  /\ clock' = clock + 1
  /\ clear' = [c \in Clients |-> IF Len(down[c]) <= Threshold THEN clock + 1 ELSE clear[c]]
  /\ UNCHANGED <<client, up, server, link, down, since, cut, host, events>>

-----------------------------------------------------------------------------
(* The server's #send. *)

Writable(c) == c \in attached /\ link[c] \in {"open", "closing"}
Over(c)     == Len(down[c]) > Threshold
Stuck(c)    == Over(c) /\ since[c] # Never /\ clock - since[c] > Sustained

\* Mutant: a send below the threshold does not forget the earlier excess.
SinceUnforgiving(c) == IF Over(c) /\ since[c] = Never THEN clock ELSE since[c]

SinceAfter(c) == IF ~Over(c) THEN Never ELSE IF since[c] = Never THEN clock ELSE since[c]

\* Mutant: above the threshold nothing goes out.
OnlyWhenClear(c, essential) == ~Over(c)

GoesOut(c, essential) == essential \/ ~Over(c)

\* One message to each of these connections, which have not closed.
Send(to, frame, essential) ==
  LET open == {c \in to : Writable(c)}
      dead == {c \in open : Stuck(c)}
  IN  /\ since' = [c \in Clients |-> IF c \in open THEN SinceAfter(c) ELSE since[c]]
      /\ link' = [c \in Clients |-> IF c \in dead THEN "broken" ELSE link[c]]
      /\ cut' = cut \cup dead
      /\ down' = [c \in Clients |-> IF c \in open \ dead /\ GoesOut(c, essential)
                                    THEN Append(down[c], frame) ELSE down[c]]
      /\ clear' = clear

Reply(i, ok) ==
  /\ Send({calls[i].by}, Answer(i, ok), TRUE)
  /\ work' = [work EXCEPT ![i] = IF ok THEN "done" ELSE "failed"]

-----------------------------------------------------------------------------
(* #handleMessage: the frames of one connection in order, each up to its
   first await. *)

Arrived(c) == /\ c \in attached /\ link[c] \in {"open", "closing"}
              /\ up[c] # <<>>
              /\ up' = [up EXCEPT ![c] = Tail(@)]

\* #handleAuthFrame: the right token lets the connection in, anything else is
\* answered and closed.
Authenticate(c) ==
  /\ Arrived(c)
  /\ ~authed[c]
  /\ IF Head(up[c]) = 0 /\ creds[c] = "right"
     THEN /\ authed' = [authed EXCEPT ![c] = TRUE]
          /\ Send({c}, Answer(0, TRUE), TRUE)
     ELSE /\ down' = [down EXCEPT ![c] = Append(@, Answer(Head(up[c]), FALSE))]
          /\ link' = [link EXCEPT ![c] = "draining"]
          /\ UNCHANGED <<authed, since, clear, cut>>
  /\ UNCHANGED <<cap, client, attached, observed, work, host, clock, events>>

Served(c, method) == Arrived(c) /\ authed[c] /\ Head(up[c]) # 0 /\ calls[Head(up[c])].method = method

\* openSession: live, or joined to the opening under way, or begun.
ServeOpen(c) ==
  /\ Served(c, "open")
  /\ LET i == Head(up[c])
         s == calls[i].on
     IN  /\ work' = [work EXCEPT ![i] = IF s \in live THEN "attach" ELSE "joined"]
         /\ opening' = [opening EXCEPT ![s] = IF s \in live \/ @ # "no" THEN @ ELSE "reading"]
  /\ UNCHANGED <<cap, client, wire, attached, authed, observed, stored, live, running, observers,
                 clock, events>>

Busy(s) == running[s] # 0

\* prompt: refused unless the session is live and idle.
ServePrompt(c) ==
  /\ Served(c, "prompt")
  /\ LET i == Head(up[c])
         s == calls[i].on
     IN  IF s \in live /\ ~Busy(s)
         THEN /\ running' = [running EXCEPT ![s] = i]
              /\ work' = [work EXCEPT ![i] = "running"]
              /\ UNCHANGED wire
         ELSE Reply(i, FALSE) /\ UNCHANGED running
  /\ UNCHANGED <<cap, client, attached, authed, observed, stored, live, opening, observers, clock, events>>

\* deleteSession: remembers whether the session was live, and awaits the store.
ServeDelete(c) ==
  /\ Served(c, "delete")
  /\ LET i == Head(up[c])
         s == calls[i].on
     IN  IF Busy(s) THEN Reply(i, FALSE)
         ELSE /\ work' = [work EXCEPT ![i] = IF s \in live THEN "evicting" ELSE "deleting"]
              /\ UNCHANGED wire
  /\ UNCHANGED <<cap, client, attached, authed, observed, host, clock, events>>

\* The close handler: subscriptions and the connection go.
ServerSeesClose(c) ==
  /\ c \in attached
  /\ link[c] = "broken" \/ (link[c] = "closing" /\ up[c] = <<>>)
  /\ link' = [link EXCEPT ![c] = IF @ = "closing" THEN "draining" ELSE @]
  /\ attached' = attached \ {c}
  /\ observers' = [s \in Sessions |-> IF s \in observed[c] THEN observers[s] \ {c} ELSE observers[s]]
  /\ observed' = [observed EXCEPT ![c] = {}]
  /\ UNCHANGED <<cap, client, up, authed, work, down, since, clear, cut, stored, live, opening, running,
                 clock, events>>

-----------------------------------------------------------------------------
(* What the server's awaits come back to. *)

OpeningReads(s) ==
  /\ opening[s] = "reading"
  /\ opening' = [opening EXCEPT ![s] = IF s \in stored THEN "building" ELSE "no"]
  /\ work' = [i \in DOMAIN work |->
                IF work[i] = "joined" /\ calls[i].on = s /\ s \notin stored THEN "missing" ELSE work[i]]
  /\ UNCHANGED <<cap, client, up, wire, attached, authed, observed, stored, live, running, observers,
                 clock, events>>

OpeningRegisters(s) ==
  /\ opening[s] = "building"
  /\ opening' = [opening EXCEPT ![s] = "no"]
  /\ live' = live \cup {s}
  /\ work' = [i \in DOMAIN work |->
                IF work[i] = "joined" /\ calls[i].on = s THEN "attach" ELSE work[i]]
  /\ UNCHANGED <<cap, client, up, wire, attached, authed, observed, stored, running, observers,
                 clock, events>>

\* #attachObserver, whatever became of the connection meanwhile; a session
\* that is gone again is an error.
Attach(i) ==
  LET c == calls[i].by
      s == calls[i].on IN
  /\ work[i] = "attach"
  /\ IF s \in live
     THEN /\ observers' = [observers EXCEPT ![s] = IF s \in observed[c] THEN @ ELSE @ \cup {c}]
          /\ observed' = [observed EXCEPT ![c] = @ \cup {s}]
     ELSE UNCHANGED <<observers, observed>>
  /\ Reply(i, s \in live)
  /\ UNCHANGED <<cap, client, up, attached, authed, stored, live, opening, running, clock, events>>

ReportMissing(i) ==
  /\ work[i] = "missing"
  /\ Reply(i, FALSE)
  /\ UNCHANGED <<cap, client, up, attached, authed, observed, host, clock, events>>

\* A running session says something to whoever observes it.
Emit(s) ==
  /\ Busy(s)
  /\ events < MaxEvents
  /\ events' = events + 1
  /\ Send(observers[s], Event, FALSE)
  /\ UNCHANGED <<client, up, server, host, clock>>

RunEnds(s) ==
  /\ Busy(s)
  /\ running' = [running EXCEPT ![s] = 0]
  /\ Reply(running[s], TRUE)
  /\ UNCHANGED <<cap, client, up, attached, authed, observed, stored, live, opening, observers,
                 clock, events>>

\* The store has deleted, or has nothing to delete; a session that was live is
\* evicted: a last notice, then its observers are dropped.
DeleteReaches(i) ==
  LET s == calls[i].on IN
  /\ work[i] \in {"deleting", "evicting"}
  /\ stored' = stored \ {s}
  /\ IF work[i] = "evicting"
     THEN /\ Send(observers[s], Event, FALSE)
          /\ live' = live \ {s}
          /\ observers' = [observers EXCEPT ![s] = {}]
     ELSE UNCHANGED <<wire, live, observers>>
  /\ work' = [work EXCEPT ![i] = IF @ = "deleting" /\ s \notin stored THEN "missing" ELSE "detach"]
  /\ UNCHANGED <<cap, client, up, attached, authed, observed, opening, running, clock, events>>

\* Mutant: only the connection that asked forgets the session.
DetachCaller(i) == {calls[i].by}

\* #detachEveryone
DetachFrom(i) == attached

Detach(i) ==
  LET s    == calls[i].on
      from == {c \in DetachFrom(i) : s \in observed[c]} IN
  /\ work[i] = "detach"
  /\ observed' = [c \in Clients |-> IF c \in from THEN observed[c] \ {s} ELSE observed[c]]
  /\ observers' = [observers EXCEPT ![s] = @ \ from]
  /\ Reply(i, TRUE)
  /\ UNCHANGED <<cap, client, up, attached, authed, stored, live, opening, running, clock, events>>

-----------------------------------------------------------------------------
\* A client with a token starts its handshake at once, into the outbox.
Init ==
  /\ cap \in 1..MaxConnections
  /\ creds \in [Clients -> {"none", "right", "wrong"}]
  /\ \A c \in Clients : IF Secured THEN c \in Holders => creds[c] = "right" ELSE creds[c] = "none"
  /\ link = [c \in Clients |-> "connecting"]
  /\ closed = [c \in Clients |-> FALSE]
  /\ handshake = [c \in Clients |-> IF creds[c] = "none" THEN "none" ELSE "pending"]
  /\ outbox = [c \in Clients |-> IF creds[c] = "none" THEN <<>> ELSE <<0>>]
  /\ pending = [c \in Clients |-> IF creds[c] = "none" THEN {} ELSE {0}]
  /\ calls = <<>> /\ work = <<>>
  /\ up = [c \in Clients |-> <<>>] /\ down = [c \in Clients |-> <<>>]
  /\ attached = {} /\ authed = [c \in Clients |-> FALSE] /\ observed = [c \in Clients |-> {}]
  /\ since = [c \in Clients |-> Never]
  /\ stored = Sessions /\ live = {} /\ opening = [s \in Sessions |-> "no"]
  /\ running = [s \in Sessions |-> 0] /\ observers = [s \in Sessions |-> {}]
  /\ clock = 0 /\ events = 0 /\ clear = [c \in Clients |-> 0] /\ cut = {}

ClientStep(c) ==
  \/ \E method \in Methods, s \in Sessions : Call(c, method, s)
  \/ \E i \in {0} \cup DOMAIN calls : Deadline(c, i)
  \/ Close(c) \/ SeeClose(c) \/ Receive(c)

SocketStep(c) == SocketOpens(c) \/ SocketRefused(c) \/ Lose(c) \/ ServerSeesClose(c)

ServerStep(c) == Authenticate(c) \/ ServeOpen(c) \/ ServePrompt(c) \/ ServeDelete(c)

CallStep(i) ==
  \/ Dispatch(i) \/ FailWaiting(i)
  \/ Attach(i) \/ ReportMissing(i) \/ DeleteReaches(i) \/ Detach(i)

HostStep(s) == OpeningReads(s) \/ OpeningRegisters(s) \/ Emit(s) \/ RunEnds(s)

Next ==
  \/ \E c \in Clients : ClientStep(c) \/ SocketStep(c) \/ ServerStep(c)
  \/ \E i \in DOMAIN calls : CallStep(i)
  \/ \E s \in Sessions : HostStep(s)
  \/ Tick

Spec == Init /\ [][Next]_vars

\* Deadlines fire and the client's own promise chains go on.  Nothing is
\* assumed of the socket or of the server.
FairSpec ==
  /\ Spec
  /\ \A c \in Clients, i \in 0..MaxCalls : WF_vars(Deadline(c, i))
  /\ \A i \in 1..MaxCalls : WF_vars(i \in DOMAIN calls /\ (Dispatch(i) \/ FailWaiting(i)))

-----------------------------------------------------------------------------
(* Properties. *)

Ids == 1..MaxCalls
Frames == {Event} \cup [kind : {"answer"}, id : 0..MaxCalls, ok : BOOLEAN]

\* The type of every variable; the server never counts more connections than
\* its cap, and no frame stays behind when the outbox is flushed.
TypeOK ==
  /\ creds \in [Clients -> {"none", "right", "wrong"}] /\ link \in [Clients -> Links]
  /\ closed \in [Clients -> BOOLEAN] /\ authed \in [Clients -> BOOLEAN]
  /\ handshake \in [Clients -> {"none", "pending", "ok", "timeout", "closed", "refused"}]
  /\ \A c \in Clients : link[c] = "open" => outbox[c] = <<>>
  /\ outbox \in [Clients -> Seq(0..MaxCalls)] /\ up \in [Clients -> Seq(0..MaxCalls)]
  /\ pending \in [Clients -> SUBSET (0..MaxCalls)] /\ down \in [Clients -> Seq(Frames)]
  /\ calls \in Seq([by : Clients, method : Methods, on : Sessions,
                    at : {"waiting", "pending", "settled"},
                    how : {"none", "resolved", "refused", "timeout", "closed"}])
  /\ work \in Seq({"no", "joined", "attach", "missing", "running", "deleting", "evicting", "detach",
                   "done", "failed"})
  /\ Len(work) = Len(calls)
  /\ attached \subseteq Clients /\ Cardinality(attached) <= cap /\ cap \in 1..MaxConnections
  /\ observed \in [Clients -> SUBSET Sessions] /\ observers \in [Sessions -> SUBSET Clients]
  /\ since \in [Clients -> {Never} \cup 0..MaxTicks] /\ clear \in [Clients -> 0..MaxTicks]
  /\ stored \subseteq Sessions /\ live \subseteq Sessions /\ cut \subseteq Clients
  /\ opening \in [Sessions -> {"no", "reading", "building"}]
  /\ running \in [Sessions -> 0..MaxCalls]
  /\ clock \in 0..MaxTicks /\ events \in 0..MaxEvents

\* A caller hears the server's verdict on its own request, whichever order the
\* answers come in and whatever timed out before.
OwnAnswer ==
  \A i \in DOMAIN calls :
    /\ calls[i].how = "resolved" => work[i] = "done"
    /\ calls[i].how = "refused" /\ handshake[calls[i].by] # "refused"
         => work[i] = "failed" \/ ~authed[calls[i].by]

\* A client that was given a token sends no request before the server has let
\* it in: none waits in the outbox behind a handshake that may fail, none
\* follows a handshake that did.
HandshakeFirst ==
  \A c \in Clients : creds[c] # "none" /\ (\E i \in Ids : i \in ToSet(outbox[c] \o up[c])) => authed[c]

\* Backpressure drops events, never answers: on a socket that is still open an
\* answered call is settled or its answer is on the way.
AnswersKept ==
  \A i \in DOMAIN calls :
    work[i] \in {"done", "failed"} /\ link[calls[i].by] = "open"
      => Settled(i) \/ \E n \in DOMAIN down[calls[i].by] : down[calls[i].by][n].id = i

\* A connection is terminated as stuck only if its buffer stayed above the
\* threshold for the whole window, however often it filled and drained before.
OnlyTheStuckAreCut ==
  [][\A c \in cut' \ cut : clock - clear[c] > Sustained]_vars

\* A connection keeps a record of a session that is gone only while a delete
\* still has to tell it so: whoever deleted it, and whatever opened it meanwhile.
NoStaleRecord ==
  \A c \in attached : \A s \in observed[c] \ live :
    \E i \in DOMAIN calls : calls[i].on = s /\ work[i] = "detach"

\* ws-server.ts:25-29: the close of a dead peer "also cleans up its SessionHost
\* observer subscriptions".
NoDeadObserver == \A s \in Sessions : observers[s] \subseteq attached

\* Every call settles, whether or not the socket opens, the server answers or
\* anybody closes.
EveryCallSettles == \A i \in Ids : i \in DOMAIN calls ~> (i \in DOMAIN calls /\ Settled(i))
=============================================================================
