-------------------------- MODULE ConnectionProofs --------------------------
(***************************************************************************)
(* What Connection keeps for every number of clients, sessions and calls,  *)
(* every threshold and every loss of a socket: requests follow the         *)
(* handshake, answers are not dropped, and only a socket that stayed over  *)
(* the threshold is cut.                                                   *)
(***************************************************************************)
EXTENDS Connection, FiniteSetTheorems, SequenceTheorems, TLAPS

-----------------------------------------------------------------------------
(* The inductive invariant. *)

CallRecords == [by : Clients, method : Methods, on : Sessions,
                at : {"waiting", "pending", "settled"},
                how : {"none", "resolved", "refused", "timeout", "closed"}]

ClientTypes ==
  /\ creds \in [Clients -> {"none", "right", "wrong"}]
  /\ closed \in [Clients -> BOOLEAN]
  /\ handshake \in [Clients -> {"none", "pending", "ok", "timeout", "closed", "refused"}]
  /\ outbox \in [Clients -> Seq(0..MaxCalls)] /\ up \in [Clients -> Seq(0..MaxCalls)]
  /\ pending \in [Clients -> SUBSET (0..MaxCalls)]
  /\ calls \in Seq(CallRecords)
  /\ Len(calls) <= MaxCalls

WorkStates == {"no", "joined", "attach", "missing", "running", "deleting", "evicting", "detach",
               "done", "failed"}

ServerTypes ==
  /\ work \in Seq(WorkStates)
  /\ Len(work) = Len(calls)
  /\ authed \in [Clients -> BOOLEAN] /\ attached \subseteq Clients
  /\ observed \in [Clients -> SUBSET Sessions] /\ observers \in [Sessions -> SUBSET Clients]
  /\ stored \subseteq Sessions /\ live \subseteq Sessions
  /\ opening \in [Sessions -> {"no", "reading", "building"}]
  /\ running \in [Sessions -> 0..MaxCalls] /\ events \in 0..MaxEvents

WireTypes ==
  /\ link \in [Clients -> Links] /\ down \in [Clients -> Seq(Frames)]
  /\ since \in [Clients -> {Never} \cup 0..MaxTicks] /\ clear \in [Clients -> 0..MaxTicks]
  /\ clock \in 0..MaxTicks /\ cut \subseteq Clients

\* #connections: a connection is counted while its socket is open, and the
\* outbox is empty by then.
SocketsInv ==
  /\ cap \in 1..MaxConnections
  /\ IsFiniteSet(attached) /\ Cardinality(attached) <= cap
  /\ \A c \in Clients : link[c] = "open" => c \in attached /\ outbox[c] = <<>>

\* What is known of the buffer of a connection the server still writes to: it
\* has been over the threshold at least since backpressureSince.
BufferInv ==
  \A c \in Clients :
    /\ clear[c] <= clock
    /\ link[c] = "connecting" => down[c] = <<>> /\ since[c] = Never
    /\ link[c] \in {"open", "closing"} /\ Over(c) /\ since[c] # Never => clear[c] <= since[c]

Granted(frame) == frame.kind = "answer" /\ frame.id = 0 /\ frame.ok

\* A client with a token that believes its handshake succeeded, or is about to
\* hear so, is let in.
HandshakeOf(c) ==
  creds[c] # "none" =>
    /\ handshake[c] # "none"
    /\ handshake[c] = "ok" \/ (\E n \in DOMAIN down[c] : Granted(down[c][n]))
         => authed[c] /\ link[c] # "connecting"
    /\ \A n \in DOMAIN outbox[c] : outbox[c][n] # 0 => authed[c] /\ link[c] # "connecting"
    /\ \A n \in DOMAIN up[c] : up[c][n] # 0 => authed[c] /\ link[c] # "connecting"

HandshakeInv == \A c \in Clients : HandshakeOf(c)

\* The server cannot have heard of the call yet.
Unserved(i) == i \notin DOMAIN calls \/ Waiting(i) \/ link[calls[i].by] = "connecting"

\* What a client holds back are calls of its own.
OutboxInv ==
  \A c \in Clients : \A n \in DOMAIN outbox[c] : outbox[c][n] # 0 =>
    /\ outbox[c][n] \in DOMAIN calls
    /\ ~Waiting(outbox[c][n])
    /\ calls[outbox[c][n]].by = c

Nowhere(i) ==
  /\ \A c \in Clients : \A n \in DOMAIN up[c] : up[c][n] # i
  /\ \A s \in Sessions : running[s] # i
  /\ i \in DOMAIN calls => work[i] = "no"

ServedInv == \A i \in Ids : Unserved(i) => Nowhere(i)

\* #pending has an entry for every call that waits for an answer.
PendingInv == \A i \in DOMAIN calls : calls[i].at = "pending" => i \in pending[calls[i].by]

\* No frame of a request is there twice.
Once(s) == \A m, n \in DOMAIN s : m # n /\ s[m] # 0 => s[m] # s[n]

\* A request on its way to the server is on its way once, from its maker, and
\* the server has not turned to it.
FramesOf(c) ==
  /\ Once(up[c]) /\ Once(outbox[c])
  /\ \A n \in DOMAIN up[c] : up[c][n] # 0 =>
       up[c][n] \in DOMAIN calls /\ calls[up[c][n]].by = c /\ work[up[c][n]] = "no"

FramesInv == \A c \in Clients : FramesOf(c)

\* #running of a session is a prompt on that session, and that prompt runs.
RunningInv ==
  \A s \in Sessions : running[s] # 0 =>
    running[s] \in DOMAIN calls /\ calls[running[s]].on = s /\ work[running[s]] = "running"

\* The server closed this connection without letting it in.
TurnedAway(c) == ~authed[c] /\ link[c] \in {"draining", "broken"}

\* What the server says of a call is what became of it.
Verdict(i, ok, c) == IF ok THEN work[i] = "done" ELSE work[i] = "failed" \/ TurnedAway(c)

VerdictsInv ==
  \A c \in Clients : \A n \in DOMAIN down[c] :
    down[c][n].id # 0 => down[c][n].id \in DOMAIN calls /\ Verdict(down[c][n].id, down[c][n].ok, c)

\* #pending of a client has entries for its own calls only.
EntriesInv == \A c \in Clients : \A i \in pending[c] \ {0} : i \in DOMAIN calls /\ calls[i].by = c

\* What a caller was told is what became of its call.
HeardInv ==
  \A i \in DOMAIN calls :
    /\ calls[i].how = "resolved" => Verdict(i, TRUE, calls[i].by)
    /\ calls[i].how = "refused" /\ handshake[calls[i].by] # "refused" => Verdict(i, FALSE, calls[i].by)

\* No connection has a record of anything before its socket is open.
RecordsInv == NoStaleRecord /\ \A c \in Clients : link[c] = "connecting" => observed[c] = {}

Types == ClientTypes /\ ServerTypes /\ WireTypes

IInv == Types /\ SocketsInv /\ BufferInv /\ HandshakeInv /\ OutboxInv /\ ServedInv /\ PendingInv
        /\ AnswersKept /\ FramesInv /\ RunningInv /\ VerdictsInv /\ EntriesInv /\ HeardInv /\ RecordsInv

-----------------------------------------------------------------------------
(* Types. *)

LEMMA MessagesTyped ==
  /\ Event \in Frames
  /\ \A i \in 0..MaxCalls, ok \in BOOLEAN : Answer(i, ok) \in Frames
  /\ Answer(0, TRUE) \in Frames
BY BoundsAssumption DEF Event, Answer, Frames

LEMMA CallTyped ==
  ASSUME ClientTypes, NEW i \in DOMAIN calls
  PROVE  /\ i \in Ids /\ i \in 0..MaxCalls
         /\ calls[i].by \in Clients /\ calls[i].on \in Sessions /\ calls[i].method \in Methods
         /\ calls[i].at \in {"waiting", "pending", "settled"}
<1>1. i \in 1..Len(calls) /\ Len(calls) \in Nat /\ Len(calls) <= MaxCalls
  BY DEF ClientTypes
<1>2. calls[i] \in CallRecords
  BY <1>1 DEF ClientTypes
<1>3. QED
  BY <1>1, <1>2, BoundsAssumption DEF Ids, CallRecords

\* Calls that settle are still the calls they were.
LEMMA SettleAllTyped ==
  ASSUME ClientTypes, NEW ids, NEW how \in {"resolved", "refused", "timeout", "closed"}
  PROVE  /\ SettleAll(ids, how) \in Seq(CallRecords)
         /\ Len(SettleAll(ids, how)) = Len(calls)
         /\ DOMAIN SettleAll(ids, how) = DOMAIN calls
         /\ \A i \in DOMAIN calls :
              /\ SettleAll(ids, how)[i].by = calls[i].by
              /\ SettleAll(ids, how)[i].on = calls[i].on
              /\ i \in ids => SettleAll(ids, how)[i].at = "settled" /\ SettleAll(ids, how)[i].how = how
              /\ i \notin ids => SettleAll(ids, how)[i] = calls[i]
<1>1. calls \in Seq(CallRecords) /\ DOMAIN calls = 1..Len(calls) /\ Len(calls) \in Nat
  BY DEF ClientTypes
<1>2. \A i \in DOMAIN calls : calls[i] \in CallRecords
  BY <1>1
<1>3. \A r \in CallRecords :
        /\ [r EXCEPT !.at = "settled", !.how = how] \in CallRecords
        /\ [r EXCEPT !.at = "settled", !.how = how].by = r.by
        /\ [r EXCEPT !.at = "settled", !.how = how].on = r.on
        /\ [r EXCEPT !.at = "settled", !.how = how].at = "settled"
        /\ [r EXCEPT !.at = "settled", !.how = how].how = how
  BY DEF CallRecords
<1>4. SettleAll(ids, how) \in [1..Len(calls) -> CallRecords]
  BY <1>1, <1>2, <1>3 DEF SettleAll
<1>5. SettleAll(ids, how) \in Seq(CallRecords) /\ Len(SettleAll(ids, how)) = Len(calls)
  BY <1>1, <1>4
<1>6. QED
  BY <1>1, <1>2, <1>3, <1>5 DEF SettleAll

\* What a send leaves behind is typed, whatever it sends to whom.
LEMMA SendTyped ==
  ASSUME WireTypes, attached \subseteq Clients, NEW to, NEW frame \in Frames,
         NEW essential \in BOOLEAN, Send(to, frame, essential), UNCHANGED clock
  PROVE  WireTypes'
<1>1. \A c \in Clients : SinceAfter(c) \in {Never} \cup 0..MaxTicks
  BY DEF SinceAfter, WireTypes
<1>2. \A c \in Clients : Append(down[c], frame) \in Seq(Frames)
  BY DEF WireTypes
<1>3. QED
  BY <1>1, <1>2 DEF Send, WireTypes, Writable, Links

\* What the client does, and what the server does not touch.
LEMMA ClientTyped ==
  ASSUME ClientTypes, WireTypes, [Next]_vars
  PROVE  ClientTypes'
<1> USE BoundsAssumption DEF ClientTypes
<1>1. ASSUME NEW c \in Clients, NEW method \in Methods, NEW s \in Sessions, Call(c, method, s)
      PROVE  ClientTypes'
  <2> DEFINE new == [by |-> c, method |-> method, on |-> s, at |-> "waiting", how |-> "none"]
  <2>1. new \in CallRecords
    BY DEF CallRecords
  <2>2. calls' = Append(calls, new) /\ Len(calls) < MaxCalls
        /\ UNCHANGED <<creds, closed, handshake, outbox, pending, up>>
    BY <1>1 DEF Call
  <2> HIDE DEF new
  <2>3. QED
    BY <2>1, <2>2
<1>2. ASSUME NEW i \in DOMAIN calls, Dispatch(i)
      PROVE  ClientTypes'
  <2>1. i \in 0..MaxCalls /\ calls[i].by \in Clients
    BY CallTyped
  <2>2. CASE closed[calls[i].by]
    <3>1. calls' = SettleAll({i}, "closed") /\ UNCHANGED <<creds, closed, handshake, outbox, pending, up>>
      BY <1>2, <2>2 DEF Dispatch
    <3>2. QED
      BY <3>1, SettleAllTyped
  <2>3. CASE ~closed[calls[i].by]
    <3>1. /\ calls' = [calls EXCEPT ![i].at = "pending"]
          /\ pending' = [pending EXCEPT ![calls[i].by] = @ \cup {i}]
          /\ UNCHANGED <<creds, closed, handshake>>
      BY <1>2, <2>3 DEF Dispatch
    <3>2. \/ outbox' = [outbox EXCEPT ![calls[i].by] = Append(@, i)] /\ UNCHANGED up
          \/ up' = [up EXCEPT ![calls[i].by] = Append(@, i)] /\ UNCHANGED outbox
          \/ UNCHANGED <<outbox, up>>
      BY <1>2, <2>3 DEF Dispatch
    <3>3. outbox' \in [Clients -> Seq(0..MaxCalls)] /\ up' \in [Clients -> Seq(0..MaxCalls)]
      <4>1. Append(outbox[calls[i].by], i) \in Seq(0..MaxCalls)
        BY <2>1
      <4>2. Append(up[calls[i].by], i) \in Seq(0..MaxCalls)
        BY <2>1
      <4>3. CASE outbox' = [outbox EXCEPT ![calls[i].by] = Append(@, i)] /\ UNCHANGED up
        BY <2>1, <4>1, <4>3
      <4>4. CASE up' = [up EXCEPT ![calls[i].by] = Append(@, i)] /\ UNCHANGED outbox
        BY <2>1, <4>2, <4>4
      <4>5. QED
        BY <3>2, <4>3, <4>4
    <3>4. [calls[i] EXCEPT !.at = "pending"] \in CallRecords
      <4>1. calls[i] \in CallRecords
        OBVIOUS
      <4>2. QED
        BY <4>1 DEF CallRecords
    <3>5. calls' \in Seq(CallRecords) /\ Len(calls') = Len(calls)
      BY <3>1, <3>4
    <3>6. QED
      BY <2>1, <3>1, <3>3, <3>5
  <2>4. QED
    BY <2>2, <2>3
<1>3. ASSUME NEW i \in DOMAIN calls, FailWaiting(i)
      PROVE  ClientTypes'
  <2>1. PICK how \in {"timeout", "closed", "refused"} : calls' = SettleAll({i}, how)
    BY <1>3 DEF FailWaiting
  <2>2. UNCHANGED <<creds, closed, handshake, outbox, pending, up>>
    BY <1>3 DEF FailWaiting
  <2>3. QED
    BY <2>1, <2>2, SettleAllTyped
<1>4. ASSUME NEW c \in Clients, NEW i, Deadline(c, i)
      PROVE  ClientTypes'
  BY <1>4, SettleAllTyped DEF Deadline, DropEntry, HandshakeAfter
<1>5. ASSUME NEW c \in Clients, Rejected(c), UNCHANGED <<creds, up>>,
             closed' \in [Clients -> BOOLEAN], outbox' \in [Clients -> Seq(0..MaxCalls)]
      PROVE  ClientTypes'
  BY <1>5, SettleAllTyped DEF Rejected, RejectAll, HandshakeAfter
<1>6. ASSUME NEW c \in Clients, Close(c) \/ SeeClose(c)
      PROVE  ClientTypes'
  <2>1. /\ Rejected(c) /\ UNCHANGED <<creds, up>>
        /\ closed' = [closed EXCEPT ![c] = TRUE]
        /\ outbox' = [outbox EXCEPT ![c] = <<>>] \/ UNCHANGED outbox
    BY <1>6 DEF Close, SeeClose
  <2>2. outbox' \in [Clients -> Seq(0..MaxCalls)]
    BY <2>1, EmptySeq
  <2>3. QED
    BY <1>5, <2>1, <2>2
<1>7. ASSUME NEW c \in Clients, Receive(c)
      PROVE  ClientTypes'
  <2> DEFINE frame == Head(down[c])
             whose == IF frame.kind = "answer" THEN Addressed(c, frame) ELSE {}
             how   == IF frame.ok THEN "resolved" ELSE "refused"
             then  == IF frame.ok THEN "ok" ELSE "refused"
  <2>1. /\ pending' = [pending EXCEPT ![c] = @ \ whose]
        /\ calls' = SettleAll(whose, how)
        /\ handshake' = HandshakeAfter(c, whose, then)
        /\ UNCHANGED <<creds, closed, outbox, up>>
    BY <1>7 DEF Receive
  <2>2. how \in {"resolved", "refused"} /\ then \in {"ok", "refused"}
    OBVIOUS
  <2> HIDE DEF whose, how, then
  <2>3. QED
    BY <2>1, <2>2, SettleAllTyped DEF HandshakeAfter
<1>8. ASSUME NEW c \in Clients, SocketOpens(c)
      PROVE  ClientTypes'
  BY <1>8 DEF SocketOpens, Flushed
<1>9. ASSUME NEW c \in Clients, ServerStep(c)
      PROVE  ClientTypes'
  <2>1. up[c] # <<>> /\ up' = [up EXCEPT ![c] = Tail(@)] /\ UNCHANGED client
    BY <1>9 DEF ServerStep, Authenticate, ServeOpen, ServePrompt, ServeDelete, Served, Arrived, client
  <2>2. QED
    BY <2>1 DEF client
<1>10. CASE UNCHANGED <<client, up>>
  BY <1>10 DEF client
<1>11. CASE \/ Tick \/ UNCHANGED vars
            \/ \E c \in Clients : SocketRefused(c) \/ Lose(c) \/ ServerSeesClose(c)
            \/ \E i \in DOMAIN calls : Attach(i) \/ ReportMissing(i) \/ DeleteReaches(i) \/ Detach(i)
            \/ \E s \in Sessions : HostStep(s)
  BY <1>10, <1>11 DEF Tick, vars, client, SocketRefused, Lose, ServerSeesClose, Attach, ReportMissing,
     DeleteReaches, Detach, HostStep, OpeningReads, OpeningRegisters, Emit, RunEnds
<1>12. QED
  BY <1>1, <1>2, <1>3, <1>4, <1>6, <1>7, <1>8, <1>9, <1>11 DEF Next, ClientStep, SocketStep,
     CallStep

\* A step of the client that makes no call settles some, or none.
LEMMA ClientSettles ==
  ASSUME ClientTypes, NEW c \in Clients, ClientStep(c),
         ~\E method \in Methods, s \in Sessions : Call(c, method, s)
  PROVE  /\ UNCHANGED <<creds, server, host, events>>
         /\ \E ids : /\ pending' = [pending EXCEPT ![c] = @ \ ids]
                     /\ \E how \in {"resolved", "refused", "timeout", "closed"} : calls' = SettleAll(ids, how)
<1>1. ASSUME NEW i, Deadline(c, i)
      PROVE  /\ UNCHANGED <<creds, server, host, events>>
             /\ pending' = [pending EXCEPT ![c] = @ \ {i}]
             /\ calls' = SettleAll({i}, "timeout")
  BY <1>1 DEF Deadline, DropEntry
<1>2. ASSUME Close(c) \/ SeeClose(c)
      PROVE  /\ UNCHANGED <<creds, server, host, events>>
             /\ pending' = [pending EXCEPT ![c] = @ \ RejectAll(c)]
             /\ calls' = SettleAll(RejectAll(c), "closed")
  BY <1>2 DEF Close, SeeClose, Rejected
<1>3. ASSUME Receive(c)
      PROVE  /\ UNCHANGED <<creds, server, host, events>>
             /\ \E ids : /\ pending' = [pending EXCEPT ![c] = @ \ ids]
                         /\ \/ calls' = SettleAll(ids, "resolved")
                            \/ calls' = SettleAll(ids, "refused")
  BY <1>3 DEF Receive
<1>4. UNCHANGED <<creds, server, host, events>>
  BY <1>1, <1>2, <1>3 DEF ClientStep
<1>5. \E ids : /\ pending' = [pending EXCEPT ![c] = @ \ ids]
               /\ \E how \in {"resolved", "refused", "timeout", "closed"} : calls' = SettleAll(ids, how)
  <2>1. CASE \E i \in {0} \cup DOMAIN calls : Deadline(c, i)
    BY <1>1, <2>1
  <2>2. CASE Close(c) \/ SeeClose(c)
    BY <1>2, <2>2
  <2>3. CASE Receive(c)
    BY <1>3, <2>3
  <2>4. QED
    BY <2>1, <2>2, <2>3 DEF ClientStep
<1>6. QED
  BY <1>4, <1>5

LEMMA WorkTyped ==
  ASSUME work \in Seq(WorkStates), NEW i, NEW state \in WorkStates
  PROVE  [work EXCEPT ![i] = state] \in Seq(WorkStates) /\ Len([work EXCEPT ![i] = state]) = Len(work)
<1>1. /\ Len(work) \in Nat /\ DOMAIN work = 1..Len(work)
      /\ \A j \in 1..Len(work) : work[j] \in WorkStates
  OBVIOUS
<1>2. [work EXCEPT ![i] = state] \in [1..Len(work) -> WorkStates]
  BY <1>1
<1>3. QED
  BY <1>1, <1>2

\* How far the server is with a call stays one of the ways there are.
LEMMA ServerTyped ==
  ASSUME ClientTypes, WireTypes, ServerTypes, [Next]_vars
  PROVE  ServerTypes'
<1> USE BoundsAssumption DEF ServerTypes
<1>1. \A i \in DOMAIN calls : calls[i].by \in Clients /\ calls[i].on \in Sessions
  BY CallTyped
<1>2. \A c \in Clients : up[c] # <<>> => Head(up[c]) \in 0..MaxCalls
  BY DEF ClientTypes
<1>3. \A state \in {"no", "joined", "attach", "missing", "running", "deleting", "evicting", "detach",
                    "done", "failed"} : state \in WorkStates
  BY DEF WorkStates
<1>4. ASSUME NEW i, NEW state \in WorkStates, work' = [work EXCEPT ![i] = state]
      PROVE  work' \in Seq(WorkStates) /\ Len(work') = Len(work)
  BY <1>4, WorkTyped
<1>5. ASSUME UNCHANGED <<server, host, events>>, Len(calls') = Len(calls)
      PROVE  ServerTypes'
  BY <1>5 DEF server, host
<1>6. ASSUME NEW c \in Clients, ClientStep(c)
      PROVE  ServerTypes'
  <2>1. ASSUME NEW method \in Methods, NEW s \in Sessions, Call(c, method, s)
        PROVE  ServerTypes'
    <3>1. Len(calls') = Len(calls) + 1
      BY <2>1 DEF Call, ClientTypes
    <3>2. work' = Append(work, "no") /\ "no" \in WorkStates
      BY <1>3, <2>1 DEF Call
    <3>3. work' \in Seq(WorkStates) /\ Len(work') = Len(calls')
      BY <3>1, <3>2
    <3>4. QED
      BY <2>1, <3>3 DEF Call, host
  <2>2. ASSUME ~\E method \in Methods, s \in Sessions : Call(c, method, s)
        PROVE  ServerTypes'
    <3>1. UNCHANGED <<server, host, events>>
      BY <1>6, <2>2, ClientSettles
    <3>2. PICK ids : \E how \in {"resolved", "refused", "timeout", "closed"} : calls' = SettleAll(ids, how)
      BY <1>6, <2>2, ClientSettles
    <3>3. QED
      BY <1>5, <3>1, <3>2, SettleAllTyped
  <2>3. QED
    BY <2>1, <2>2
<1>7. ASSUME NEW i \in DOMAIN calls, Dispatch(i) \/ FailWaiting(i)
      PROVE  ServerTypes'
  <2>1. UNCHANGED <<server, host, events>>
        /\ \/ calls' = [calls EXCEPT ![i].at = "pending"]
           \/ \E how \in {"timeout", "closed", "refused"} : calls' = SettleAll({i}, how)
    BY <1>7 DEF Dispatch, FailWaiting
  <2>2. Len([calls EXCEPT ![i].at = "pending"]) = Len(calls)
    BY DEF ClientTypes
  <2>3. QED
    BY <1>5, <2>1, <2>2, SettleAllTyped
<1>8. ASSUME NEW c \in Clients, SocketStep(c)
      PROVE  ServerTypes'
  <2>1. CASE SocketOpens(c)
    BY <2>1 DEF SocketOpens, host
  <2>2. CASE SocketRefused(c) \/ Lose(c)
    BY <2>2 DEF SocketRefused, Lose, client, server, host
  <2>3. CASE ServerSeesClose(c)
    BY <2>3 DEF ServerSeesClose, client
  <2>4. QED
    BY <1>8, <2>1, <2>2, <2>3 DEF SocketStep
<1>9. ASSUME NEW c \in Clients, ServerStep(c)
      PROVE  ServerTypes'
  <2>1. /\ UNCHANGED <<calls, attached, observed, stored, live, observers, events>>
        /\ authed' \in [Clients -> BOOLEAN]
    BY <1>9 DEF ServerStep, Authenticate, ServeOpen, ServePrompt, ServeDelete, client, host
  <2>2. work' \in Seq(WorkStates) /\ Len(work') = Len(work)
    <3>1. CASE Authenticate(c)
      BY <3>1 DEF Authenticate
    <3>2. CASE ServeOpen(c)
      BY <1>3, <1>4, <3>2 DEF ServeOpen
    <3>3. CASE ServePrompt(c)
      BY <1>3, <1>4, <3>3 DEF ServePrompt, Reply
    <3>4. CASE ServeDelete(c)
      BY <1>3, <1>4, <3>4 DEF ServeDelete, Reply
    <3>5. QED
      BY <1>9, <3>1, <3>2, <3>3, <3>4 DEF ServerStep
  <2>3. opening' \in [Sessions -> {"no", "reading", "building"}]
    BY <1>9 DEF ServerStep, Authenticate, ServeOpen, ServePrompt, ServeDelete, host
  <2>4. running' \in [Sessions -> 0..MaxCalls]
    BY <1>2, <1>9 DEF ServerStep, Authenticate, ServeOpen, ServePrompt, ServeDelete, Served, Arrived, host
  <2>5. QED
    BY <2>1, <2>2, <2>3, <2>4
<1>10. ASSUME NEW i \in DOMAIN calls, \/ Attach(i) \/ ReportMissing(i) \/ DeleteReaches(i) \/ Detach(i)
       PROVE  ServerTypes'
  <2>1. /\ UNCHANGED <<calls, authed, attached, opening, running, events>>
        /\ work' \in Seq(WorkStates) /\ Len(work') = Len(work)
        /\ stored' \subseteq Sessions /\ live' \subseteq Sessions
    BY <1>3, <1>4, <1>10 DEF Attach, ReportMissing, DeleteReaches, Detach, Reply, client, host
  <2>2. observed' \in [Clients -> SUBSET Sessions] /\ observers' \in [Sessions -> SUBSET Clients]
    <3>1. CASE Attach(i)
      <4>1. calls[i].by \in Clients /\ calls[i].on \in Sessions
        BY <1>1
      <4>2. CASE calls[i].on \in live
        <5>1. observed' = [observed EXCEPT ![calls[i].by] = @ \cup {calls[i].on}]
          BY <3>1, <4>2 DEF Attach
        <5>2. PICK new \in SUBSET Clients : observers' = [observers EXCEPT ![calls[i].on] = new]
          <6>1. observers[calls[i].on] \in SUBSET Clients
            BY <4>1
          <6>2. QED
            BY <3>1, <4>1, <4>2, <6>1 DEF Attach
        <5>3. QED
          BY <4>1, <5>1, <5>2
      <4>3. CASE calls[i].on \notin live
        BY <3>1, <4>3 DEF Attach
      <4>4. QED
        BY <4>2, <4>3
    <3>2. CASE ReportMissing(i)
      BY <3>2 DEF ReportMissing, host
    <3>3. CASE DeleteReaches(i)
      BY <3>3 DEF DeleteReaches
    <3>4. CASE Detach(i)
      BY <3>4 DEF Detach, DetachFrom
    <3>5. QED
      BY <1>10, <3>1, <3>2, <3>3, <3>4
  <2>3. QED
    BY <2>1, <2>2
<1>11. ASSUME NEW s \in Sessions, HostStep(s)
       PROVE  ServerTypes'
  <2>1. CASE OpeningReads(s) \/ OpeningRegisters(s)
    <3>1. /\ UNCHANGED <<calls, authed, attached, observed, observers, running, stored, events>>
          /\ live' \subseteq Sessions /\ opening' \in [Sessions -> {"no", "reading", "building"}]
      BY <2>1 DEF OpeningReads, OpeningRegisters, client
    <3>2. Len(work) \in Nat /\ DOMAIN work = 1..Len(work) /\ \A i \in DOMAIN work : work[i] \in WorkStates
      OBVIOUS
    <3>3. work' \in [1..Len(work) -> WorkStates]
      BY <1>3, <2>1, <3>2 DEF OpeningReads, OpeningRegisters
    <3>4. work' \in Seq(WorkStates) /\ Len(work') = Len(work)
      BY SMTT(30), <3>2, <3>3, IsASeq, LenProperties
    <3>5. QED
      BY <3>1, <3>4
  <2>2. CASE Emit(s)
    BY <2>2 DEF Emit, client, server, host
  <2>3. CASE RunEnds(s)
    <3>1. work' \in Seq(WorkStates) /\ Len(work') = Len(work)
      BY <1>3, <1>4, <2>3 DEF RunEnds, Reply
    <3>2. QED
      BY <2>3, <3>1 DEF RunEnds, client
  <2>4. QED
    BY <1>11, <2>1, <2>2, <2>3 DEF HostStep
<1>12. CASE Tick \/ UNCHANGED vars
  BY <1>12 DEF Tick, vars, client, server, host
<1>13. QED
  BY <1>6, <1>7, <1>8, <1>9, <1>10, <1>11, <1>12 DEF Next, CallStep

-----------------------------------------------------------------------------
(* What a step does to the sockets. *)

\* The server says something, though not that a client may come in.
Says ==
  /\ \E frame \in Frames : ~Granted(frame) /\ \E essential \in BOOLEAN : \E to : Send(to, frame, essential)
  /\ UNCHANGED clock

\* #handleAuthFrame lets a connection in.
Grants ==
  \E c \in attached : /\ authed' = [authed EXCEPT ![c] = TRUE]
                      /\ Send({c}, Answer(0, TRUE), TRUE)
                      /\ UNCHANGED clock

\* #handleAuthFrame turns a connection away.
TurnsAway ==
  \E c \in attached : \E i \in 0..MaxCalls :
    /\ link[c] \in {"open", "closing"}
    /\ link' = [link EXCEPT ![c] = "draining"]
    /\ down' = [down EXCEPT ![c] = Append(@, Answer(i, FALSE))]
    /\ UNCHANGED <<since, clear, cut, clock>>

\* A socket opens or goes.
Relinks ==
  \E c \in Clients : \E l \in Links \ {"connecting"} :
    /\ link' = [link EXCEPT ![c] = l]
    /\ l = "open" => SocketOpens(c)
    /\ l = "closing" => link[c] \in {"open", "closing"}
    /\ UNCHANGED <<down, since, clear, cut, clock>>

LEMMA WireSteps ==
  ASSUME Types, [Next]_vars
  PROVE  \/ UNCHANGED <<wire, clock>>
         \/ Says \/ Grants \/ TurnsAway \/ Relinks \/ Tick
         \/ \E c \in Clients : Receive(c)
<1> USE DEF Types
<1>1. Event \in Frames /\ ~Granted(Event)
  BY MessagesTyped DEF Event, Granted
<1>2. ASSUME NEW i \in 0..MaxCalls, NEW ok \in BOOLEAN, i # 0 \/ ~ok, Reply(i, ok), UNCHANGED clock
      PROVE  Says
  <2>1. Answer(i, ok) \in Frames /\ ~Granted(Answer(i, ok))
    BY <1>2, MessagesTyped DEF Answer, Granted
  <2>2. Send({calls[i].by}, Answer(i, ok), TRUE)
    BY <1>2 DEF Reply
  <2>3. QED
    BY <1>2, <2>1, <2>2 DEF Says
<1>3. \A c \in Clients : up[c] # <<>> => Head(up[c]) \in 0..MaxCalls
  BY BoundsAssumption DEF ClientTypes
<1>4. \A i \in DOMAIN calls : i \in 0..MaxCalls /\ i # 0
  BY CallTyped DEF Ids
<1>5. ASSUME NEW c \in Clients, ClientStep(c), ~Receive(c)
      PROVE  UNCHANGED <<wire, clock>> \/ Relinks
  <2>1. CASE Close(c)
    <3>1. link[c] \in Links
      BY DEF WireTypes
    <3>2. CASE link[c] \in {"open", "connecting"}
      BY <2>1, <3>1, <3>2 DEF Close, Relinks, Links
    <3>3. CASE link[c] \notin {"open", "connecting"}
      <4>1. link' = [link EXCEPT ![c] = link[c]]
        BY <2>1, <3>3 DEF Close
      <4>2. QED
        BY <2>1, <3>1, <3>3, <4>1 DEF Close, Relinks, Links
    <3>4. QED
      BY <3>2, <3>3
  <2>2. CASE SeeClose(c)
    BY <2>2 DEF SeeClose, Relinks, Links
  <2>3. CASE \E i : Deadline(c, i)
    BY <2>3 DEF Deadline
  <2>4. CASE \E method, s : Call(c, method, s)
    BY <2>4 DEF Call
  <2>5. QED
    BY <1>5, <2>1, <2>2, <2>3, <2>4 DEF ClientStep
<1>6. ASSUME NEW c \in Clients, SocketStep(c)
      PROVE  Relinks
  <2>1. CASE SocketOpens(c) \/ SocketRefused(c) \/ Lose(c)
    BY <2>1 DEF SocketOpens, SocketRefused, Lose, Relinks, Links
  <2>2. CASE ServerSeesClose(c)
    BY <2>2 DEF ServerSeesClose, Relinks, Links
  <2>3. QED
    BY <1>6, <2>1, <2>2 DEF SocketStep
<1>7. ASSUME NEW c \in Clients, ServerStep(c)
      PROVE  UNCHANGED <<wire, clock>> \/ Says \/ Grants \/ TurnsAway
  <2>1. CASE Authenticate(c)
    <3>1. c \in attached /\ link[c] \in {"open", "closing"} /\ UNCHANGED clock
          /\ Head(up[c]) \in 0..MaxCalls
      BY <1>3, <2>1 DEF Authenticate, Arrived
    <3>2. CASE Head(up[c]) = 0 /\ creds[c] = "right"
      BY <2>1, <3>1, <3>2 DEF Authenticate, Grants
    <3>3. CASE ~(Head(up[c]) = 0 /\ creds[c] = "right")
      BY <2>1, <3>1, <3>3 DEF Authenticate, TurnsAway
    <3>4. QED
      BY <3>2, <3>3
  <2>2. CASE ServeOpen(c)
    BY <2>2 DEF ServeOpen
  <2>3. CASE ServePrompt(c)
    BY <1>2, <1>3, <2>3 DEF ServePrompt, Served, Arrived
  <2>4. CASE ServeDelete(c)
    BY <1>2, <1>3, <2>4 DEF ServeDelete, Served, Arrived
  <2>5. QED
    BY <1>7, <2>1, <2>2, <2>3, <2>4 DEF ServerStep
<1>8. ASSUME NEW i \in DOMAIN calls, CallStep(i)
      PROVE  UNCHANGED <<wire, clock>> \/ Says
  <2>1. CASE Dispatch(i) \/ FailWaiting(i)
    BY <2>1 DEF Dispatch, FailWaiting
  <2>2. CASE Attach(i)
    <3>1. Reply(i, calls[i].on \in live) /\ UNCHANGED clock /\ i \in 0..MaxCalls /\ i # 0
      BY <1>4, <2>2 DEF Attach
    <3>2. (calls[i].on \in live) \in BOOLEAN
      OBVIOUS
    <3>3. QED
      BY <1>2, <3>1, <3>2
  <2>3. CASE ReportMissing(i)
    BY <1>2, <1>4, <2>3 DEF ReportMissing
  <2>4. CASE DeleteReaches(i)
    BY <1>1, <2>4 DEF DeleteReaches, Says
  <2>5. CASE Detach(i)
    BY <1>2, <1>4, <2>5 DEF Detach
  <2>6. QED
    BY <1>8, <2>1, <2>2, <2>3, <2>4, <2>5 DEF CallStep
<1>9. ASSUME NEW s \in Sessions, HostStep(s)
      PROVE  UNCHANGED <<wire, clock>> \/ Says
  <2>1. CASE OpeningReads(s) \/ OpeningRegisters(s)
    BY <2>1 DEF OpeningReads, OpeningRegisters
  <2>2. CASE Emit(s)
    BY <1>1, <2>2 DEF Emit, Says
  <2>3. CASE RunEnds(s)
    <3>1. running[s] \in 0..MaxCalls /\ running[s] # 0
      BY <2>3 DEF RunEnds, Busy, ServerTypes
    <3>2. QED
      BY <1>2, <2>3, <3>1 DEF RunEnds
  <2>4. QED
    BY <1>9, <2>1, <2>2, <2>3 DEF HostStep
<1>10. CASE UNCHANGED vars
  BY <1>10 DEF vars, wire
<1>11. QED
  BY <1>5, <1>6, <1>7, <1>8, <1>9, <1>10 DEF Next

LEMMA WireTyped == Types /\ [Next]_vars => WireTypes'
<1> SUFFICES ASSUME Types, [Next]_vars PROVE WireTypes'
  OBVIOUS
<1> USE DEF Types
<1>1. CASE Says \/ Grants
  <2>1. attached \subseteq Clients /\ Answer(0, TRUE) \in Frames
    BY MessagesTyped DEF ServerTypes
  <2>2. PICK frame \in Frames, essential \in BOOLEAN :
          (\E to : Send(to, frame, essential)) /\ UNCHANGED clock
    BY <1>1, <2>1 DEF Says, Grants
  <2>3. QED
    BY <2>1, <2>2, SendTyped
<1>2. CASE TurnsAway
  <2>1. PICK c \in Clients, i \in 0..MaxCalls :
          /\ link' = [link EXCEPT ![c] = "draining"]
          /\ down' = [down EXCEPT ![c] = Append(@, Answer(i, FALSE))]
          /\ UNCHANGED <<since, clear, cut, clock>>
    BY <1>2 DEF TurnsAway, ServerTypes
  <2>2. Append(down[c], Answer(i, FALSE)) \in Seq(Frames)
    <3>1. Answer(i, FALSE) \in Frames /\ down[c] \in Seq(Frames)
      BY MessagesTyped DEF WireTypes
    <3>2. QED
      BY <3>1, AppendProperties, Zenon
  <2>3. QED
    BY <2>1, <2>2 DEF WireTypes, Links
<1>3. CASE Relinks
  BY <1>3 DEF Relinks, WireTypes
<1>4. CASE Tick
  BY <1>4, BoundsAssumption DEF Tick, WireTypes
<1>5. ASSUME NEW c \in Clients, Receive(c)
      PROVE  WireTypes'
  <2>1. Tail(down[c]) \in Seq(Frames)
    BY <1>5 DEF Receive, WireTypes
  <2>2. QED
    BY <1>5, <2>1 DEF Receive, ClearedBy, WireTypes
<1>6. CASE UNCHANGED <<wire, clock>>
  BY <1>6 DEF wire, WireTypes
<1>7. QED
  BY <1>1, <1>2, <1>3, <1>4, <1>5, <1>6, WireSteps

-----------------------------------------------------------------------------
(* Backpressure. *)

\* A send looks at each buffer, then adds at most one frame to it: below the
\* threshold it forgets the excess, above it keeps its start.
LEMMA BufferStep == Types /\ BufferInv /\ [Next]_vars => BufferInv'
<1> SUFFICES ASSUME Types, BufferInv, [Next]_vars PROVE BufferInv'
  OBVIOUS
<1>1. WireTypes /\ WireTypes' /\ attached \subseteq Clients
  BY WireTyped DEF Types, ServerTypes
<1>2. CASE Says \/ Grants
  <2>1. PICK to : \E frame, essential : Send(to, frame, essential) /\ UNCHANGED clock
    BY <1>2 DEF Says, Grants
  <2>2. PICK frame, essential : Send(to, frame, essential) /\ UNCHANGED clock
    BY <2>1
  <2>3. ASSUME NEW c \in Clients
        PROVE  /\ clear'[c] <= clock'
               /\ link'[c] = "connecting" => down'[c] = <<>> /\ since'[c] = Never
               /\ link'[c] \in {"open", "closing"} /\ Over(c)' /\ since'[c] # Never
                    => clear'[c] <= since'[c]
    <3>1. clear' = clear
      BY <2>2 DEF Send
    <3>2. CASE ~Writable(c) \/ c \notin to
      BY <1>1, <2>2, <3>1, <3>2 DEF Send, BufferInv, WireTypes, Over
    <3>3. CASE Writable(c) /\ c \in to
      <4>1. since'[c] = SinceAfter(c)
        BY <2>2, <3>3 DEF Send
      <4>2. link'[c] \in {"broken", link[c]} /\ link[c] # "connecting"
        BY <2>2, <3>3 DEF Send, Writable
      <4>3. CASE Over(c)
        BY <1>1, <2>2, <3>1, <3>3, <4>1, <4>2, <4>3 DEF BufferInv, WireTypes, SinceAfter, Writable, Never
      <4>4. CASE ~Over(c)
        BY <1>1, <2>2, <3>1, <4>1, <4>2, <4>4 DEF BufferInv, SinceAfter
      <4>5. QED
        BY <4>3, <4>4
    <3>4. QED
      BY <3>2, <3>3
  <2>4. QED
    BY <2>3 DEF BufferInv
<1>3. CASE TurnsAway
  BY <1>1, <1>3 DEF TurnsAway, BufferInv, WireTypes, Over
<1>4. CASE Relinks
  BY <1>1, <1>4 DEF Relinks, SocketOpens, BufferInv, WireTypes, Over
<1>5. CASE Tick
  <2>1. \A c \in Clients : Len(down[c]) \in Nat /\ clear[c] \in Nat /\ since[c] \in Int
    BY <1>1 DEF WireTypes, Never
  <2>2. /\ clock \in Nat /\ clock' = clock + 1 /\ UNCHANGED <<link, down, since>>
        /\ \A c \in Clients : clear'[c] = IF Len(down[c]) <= Threshold THEN clock + 1 ELSE clear[c]
    BY <1>1, <1>5 DEF Tick, WireTypes
  <2>3. QED
    BY <2>1, <2>2, NumbersAssumption DEF BufferInv, Over
<1>6. ASSUME NEW c \in Clients, Receive(c)
      PROVE  BufferInv'
  <2>1. /\ down[c] # <<>> /\ link[c] # "connecting" /\ down' = [down EXCEPT ![c] = Tail(@)]
        /\ clear' = ClearedBy(c) /\ UNCHANGED <<link, since, clock>>
    BY <1>6 DEF Receive
  <2>2. Len(Tail(down[c])) = Len(down[c]) - 1
    BY <1>1, <2>1 DEF WireTypes
  <2>3. QED
    BY <1>1, <2>1, <2>2, NumbersAssumption DEF BufferInv, WireTypes, Over, ClearedBy
<1>7. CASE UNCHANGED <<wire, clock>>
  BY <1>7 DEF wire, BufferInv, Over
<1>8. QED
  BY <1>2, <1>3, <1>4, <1>5, <1>6, <1>7, WireSteps

\* Whoever is cut has been over the threshold for longer than the window.
LEMMA CutStep ==
  ASSUME Types, BufferInv, [Next]_vars, NEW c \in cut' \ cut
  PROVE  clock - clear[c] > Sustained
<1>1. Says \/ Grants
  BY WireSteps DEF TurnsAway, Relinks, Tick, Receive, wire
<1>2. PICK to : \E frame, essential : Send(to, frame, essential)
  BY <1>1 DEF Says, Grants
<1>3. Writable(c) /\ Stuck(c)
  BY <1>2 DEF Send
<1>4. c \in Clients /\ link[c] \in {"open", "closing"} /\ Over(c) /\ since[c] # Never
      /\ clock - since[c] > Sustained
  BY <1>3 DEF Writable, Stuck, Types, ServerTypes
<1>5. clear[c] <= since[c]
  BY <1>4 DEF BufferInv
<1>6. QED
  BY <1>4, <1>5, NumbersAssumption DEF Types, WireTypes, Never

-----------------------------------------------------------------------------
(* The handshake. *)

\* Every element of s is one of t.
Within(s, t) == \A n \in DOMAIN s : \E m \in DOMAIN t : s[n] = t[m]

LEMMA WithinTail ==
  ASSUME NEW S, NEW t \in Seq(S)
  PROVE  Within(t, t) /\ Within(<<>>, t) /\ (t # <<>> => Within(Tail(t), t))
<1>1. Within(t, t)
  BY DEF Within
<1>2. Within(<<>>, t)
  BY DEF Within
<1>3. ASSUME t # <<>> PROVE Within(Tail(t), t)
  <2>1. \A n \in 1..Len(t) - 1 : n + 1 \in 1..Len(t) /\ Tail(t)[n] = t[n + 1]
    BY <1>3
  <2>2. DOMAIN Tail(t) = 1..Len(t) - 1 /\ DOMAIN t = 1..Len(t)
    BY <1>3
  <2>3. QED
    BY <2>1, <2>2 DEF Within
<1>4. QED
  BY <1>1, <1>2, <1>3

Heard(c) == \E n \in DOMAIN down[c] : Granted(down[c][n])

\* A step that gives a client nothing new keeps what is known of it.
LEMMA HandshakeKept ==
  ASSUME NEW c \in Clients, HandshakeOf(c), UNCHANGED creds,
         handshake[c] # "none" => handshake'[c] # "none",
         handshake'[c] = "ok" => handshake[c] = "ok" \/ Heard(c),
         authed[c] => authed'[c], link[c] # "connecting" => link'[c] # "connecting",
         Heard(c)' => Heard(c) \/ (authed'[c] /\ link'[c] # "connecting"),
         Within(outbox'[c], outbox[c]), Within(up'[c], up[c])
  PROVE  HandshakeOf(c)'
<1>1. \A n \in DOMAIN outbox'[c] : outbox'[c][n] # 0 => \E m \in DOMAIN outbox[c] : outbox[c][m] # 0
  BY DEF Within
<1>2. \A n \in DOMAIN up'[c] : up'[c][n] # 0 => \E m \in DOMAIN up[c] : up[c][m] # 0
  BY DEF Within
<1>3. QED
  BY <1>1, <1>2 DEF HandshakeOf, Heard

\* What a send may do to one connection.
LEMMA SendOne ==
  ASSUME Types, NEW c \in Clients, NEW to, NEW frame \in Frames, NEW essential, Send(to, frame, essential)
  PROVE  /\ link'[c] \in {link[c], "broken"}
         /\ \/ down'[c] = down[c]
            \/ down'[c] = Append(down[c], frame) /\ Writable(c) /\ c \in to
         /\ c \in to /\ essential /\ link[c] = "open" /\ c \in attached /\ link'[c] = "open"
              => down'[c] = Append(down[c], frame)
<1>1. c \in Clients /\ down[c] \in Seq(Frames)
  BY DEF Types, WireTypes
<1>2. QED
  BY <1>1 DEF Send, GoesOut, Writable

\* Appending brings only the element appended.
LEMMA AppendBrings ==
  ASSUME NEW S, NEW t \in Seq(S), NEW e \in S
  PROVE  /\ \A n \in DOMAIN Append(t, e) : Append(t, e)[n] = e \/ \E m \in DOMAIN t : Append(t, e)[n] = t[m]
         /\ \A m \in DOMAIN t : m \in DOMAIN Append(t, e) /\ Append(t, e)[m] = t[m]
         /\ Len(t) + 1 \in DOMAIN Append(t, e) /\ Append(t, e)[Len(t) + 1] = e
OBVIOUS

\* A frame that does not grant lets nobody in.
LEMMA HeardKept ==
  ASSUME NEW c, down[c] \in Seq(Frames), NEW frame \in Frames, ~Granted(frame),
         down'[c] = Append(down[c], frame)
  PROVE  Heard(c)' => Heard(c)
<1>1. \A n \in DOMAIN down'[c] : down'[c][n] = frame \/ \E m \in DOMAIN down[c] : down'[c][n] = down[c][m]
  <2>1. \A n \in DOMAIN Append(down[c], frame) :
          \/ Append(down[c], frame)[n] = frame
          \/ \E m \in DOMAIN down[c] : Append(down[c], frame)[n] = down[c][m]
    BY AppendBrings
  <2>2. QED
    BY <2>1
<1>2. ASSUME NEW n \in DOMAIN down'[c], Granted(down'[c][n])
      PROVE  Heard(c)
  <2>1. down'[c][n] # frame
    BY <1>2
  <2>2. PICK m \in DOMAIN down[c] : down'[c][n] = down[c][m]
    BY <1>1, <2>1
  <2>3. QED
    BY <1>2, <2>2 DEF Heard
<1>3. QED
  BY <1>2 DEF Heard

\* No step says to a client that it may come in and does not let it in.
LEMMA WireKeeps ==
  ASSUME Types, [Next]_vars, NEW c \in Clients
  PROVE  /\ link[c] # "connecting" => link'[c] # "connecting"
         /\ Heard(c)' => Heard(c) \/ (authed'[c] /\ link'[c] # "connecting")
<1>1. down[c] \in Seq(Frames) /\ link[c] \in Links /\ attached \subseteq Clients
  BY DEF Types, WireTypes, ServerTypes
<1>2. ASSUME NEW frame \in Frames, ~Granted(frame), NEW essential, NEW to, Send(to, frame, essential)
      PROVE  /\ link[c] # "connecting" => link'[c] # "connecting"
             /\ Heard(c)' => Heard(c)
  <2>1. link'[c] \in {link[c], "broken"} /\ (down'[c] = down[c] \/ down'[c] = Append(down[c], frame))
    BY <1>2, SendOne
  <2>2. Heard(c)' => Heard(c)
    <3>1. CASE down'[c] = down[c]
      BY <3>1 DEF Heard
    <3>2. CASE down'[c] = Append(down[c], frame)
      BY <1>1, <1>2, <3>2, HeardKept
    <3>3. QED
      BY <2>1, <3>1, <3>2
  <2>3. QED
    BY <2>1, <2>2
<1>3. CASE Says
  BY <1>2, <1>3 DEF Says
<1>4. CASE Grants
  <2>1. PICK d \in attached : authed' = [authed EXCEPT ![d] = TRUE] /\ Send({d}, Answer(0, TRUE), TRUE)
    BY <1>4 DEF Grants
  <2>2. Answer(0, TRUE) \in Frames
    BY MessagesTyped
  <2>3. CASE c = d
    <3>1. authed'[c]
      BY <1>1, <2>1, <2>3 DEF Types, ServerTypes
    <3>2. link'[c] \in {link[c], "broken"} /\ (down'[c] = down[c] \/ Writable(c))
      BY <2>1, <2>2, SendOne
    <3>3. QED
      BY <3>1, <3>2 DEF Heard, Writable
  <2>4. CASE c # d
    <3>1. link'[c] \in {link[c], "broken"} /\ down'[c] = down[c]
      <4>1. c \notin {d}
        BY <2>4
      <4>2. QED
        BY <2>1, <2>2, <4>1, SendOne
    <3>2. QED
      BY <3>1 DEF Heard
  <2>5. QED
    BY <2>3, <2>4
<1>5. CASE TurnsAway
  <2>1. PICK d \in attached, i \in 0..MaxCalls :
          /\ link' = [link EXCEPT ![d] = "draining"]
          /\ down' = [down EXCEPT ![d] = Append(@, Answer(i, FALSE))]
    BY <1>5 DEF TurnsAway
  <2>2. Answer(i, FALSE) \in Frames /\ ~Granted(Answer(i, FALSE))
    BY MessagesTyped DEF Answer, Granted
  <2>3. down'[c] = down[c] \/ down'[c] = Append(down[c], Answer(i, FALSE))
    BY <2>1 DEF Types, WireTypes
  <2>4. Heard(c)' => Heard(c)
    <3>1. CASE down'[c] = down[c]
      BY <3>1 DEF Heard
    <3>2. CASE down'[c] = Append(down[c], Answer(i, FALSE))
      BY <1>1, <2>2, <3>2, HeardKept
    <3>3. QED
      BY <2>3, <3>1, <3>2
  <2>5. QED
    BY <2>1, <2>4 DEF Types, WireTypes
<1>6. CASE Relinks \/ Tick \/ UNCHANGED <<wire, clock>>
  BY <1>6 DEF Relinks, Tick, wire, Heard, Types, WireTypes
<1>7. ASSUME NEW d \in Clients, Receive(d)
      PROVE  /\ link[c] # "connecting" => link'[c] # "connecting"
             /\ Heard(c)' => Heard(c)
  <2>1. UNCHANGED link /\ (down'[c] = down[c] \/ (down[c] # <<>> /\ down'[c] = Tail(down[c])))
    <3>1. down[d] # <<>> /\ down' = [down EXCEPT ![d] = Tail(@)] /\ UNCHANGED link
      BY <1>7 DEF Receive
    <3>2. down \in [Clients -> Seq(Frames)]
      BY DEF Types, WireTypes
    <3>3. CASE c = d
      BY <3>1, <3>2, <3>3
    <3>4. CASE c # d
      <4>1. down'[c] = down[c]
        BY <3>1, <3>2, <3>4
      <4>2. QED
        BY <3>1, <4>1
    <3>5. QED
      BY <3>1, <3>3, <3>4
  <2>2. Within(down'[c], down[c])
    BY <1>1, <2>1, WithinTail
  <2>3. QED
    BY <2>1, <2>2 DEF Within, Heard
<1>8. QED
  BY <1>3, <1>4, <1>5, <1>6, <1>7, WireSteps

\* What a client sends, and what it holds back.
LEMMA HandshakeStep == Types /\ HandshakeInv /\ [Next]_vars => HandshakeInv'
<1> SUFFICES ASSUME Types, HandshakeInv, [Next]_vars, NEW c \in Clients
             PROVE  HandshakeOf(c)'
  BY DEF HandshakeInv
<1> USE DEF Types
<1>1. /\ HandshakeOf(c) /\ outbox[c] \in Seq(0..MaxCalls) /\ up[c] \in Seq(0..MaxCalls)
      /\ link[c] # "connecting" => link'[c] # "connecting"
      /\ Heard(c)' => Heard(c) \/ (authed'[c] /\ link'[c] # "connecting")
  BY WireKeeps DEF HandshakeInv, ClientTypes
<1>2. Within(outbox[c], outbox[c]) /\ Within(up[c], up[c]) /\ Within(<<>>, outbox[c])
      /\ (up[c] # <<>> => Within(Tail(up[c]), up[c]))
  BY <1>1, WithinTail
<1>3. ASSUME NEW d \in Clients, ClientStep(d)
      PROVE  HandshakeOf(c)'
  <2>1. UNCHANGED <<creds, authed, up>>
    BY <1>3 DEF ClientStep, Call, Deadline, Close, SeeClose, Receive, server
  <2>2. outbox'[c] = outbox[c] \/ outbox'[c] = <<>>
    BY <1>3 DEF ClientStep, Call, Deadline, Close, SeeClose, Receive, ClientTypes
  <2>3. /\ handshake[c] # "none" => handshake'[c] # "none"
        /\ handshake'[c] = "ok" => handshake[c] = "ok" \/ Heard(c)
    <3>1. CASE Receive(d)
      <4> DEFINE frame == Head(down[d])
                 whose == IF frame.kind = "answer" THEN Addressed(d, frame) ELSE {}
                 then  == IF frame.ok THEN "ok" ELSE "refused"
      <4>1. handshake' = HandshakeAfter(d, whose, then) /\ down[d] # <<>>
        BY <3>1 DEF Receive
      <4>2. 0 \in whose /\ then = "ok" => Granted(frame)
        BY DEF Addressed, Granted
      <4>3. Granted(frame) => Heard(d)
        BY <4>1 DEF Heard, WireTypes
      <4> HIDE DEF frame, whose
      <4>4. QED
        BY <4>1, <4>2, <4>3 DEF HandshakeAfter, ClientTypes
    <3>2. CASE ~Receive(d)
      BY <1>3, <3>2 DEF ClientStep, Call, Deadline, Close, SeeClose, Rejected, HandshakeAfter, ClientTypes
    <3>3. QED
      BY <3>1, <3>2
  <2>4. QED
    BY <1>1, <1>2, <2>1, <2>2, <2>3, HandshakeKept
<1>4. ASSUME NEW i \in DOMAIN calls, Dispatch(i)
      PROVE  HandshakeOf(c)'
  <2> DEFINE d == calls[i].by
  <2>1. d \in Clients /\ i \in 0..MaxCalls /\ HandshakeDone(d)
    BY <1>4, CallTyped DEF Dispatch
  <2>2. UNCHANGED <<creds, handshake, authed, link, down>>
    BY <1>4 DEF Dispatch, server, wire
  <2>3. CASE c = d
    <3>1. creds[c] # "none" => authed[c] /\ link[c] # "connecting"
      BY <1>1, <2>1, <2>3 DEF HandshakeOf, HandshakeDone
    <3>2. QED
      BY <1>1, <2>2, <3>1 DEF HandshakeOf, Heard
  <2>4. CASE c # d
    <3>1. outbox'[c] = outbox[c] /\ up'[c] = up[c]
      BY <1>4, <2>1, <2>4 DEF Dispatch, ClientTypes
    <3>2. QED
      BY <1>1, <2>2, <3>1 DEF HandshakeOf, Heard
  <2>5. QED
    BY <2>3, <2>4
<1>5. ASSUME NEW d \in Clients, SocketStep(d)
      PROVE  HandshakeOf(c)'
  <2>1. CASE SocketOpens(d) /\ c = d
    <3>1. /\ link[c] = "connecting" /\ UNCHANGED <<creds, handshake, down>>
          /\ up'[c] = outbox[c] /\ outbox'[c] = <<>>
      BY <2>1 DEF SocketOpens, Flushed, ClientTypes
    <3>2. QED
      BY <1>1, <3>1 DEF HandshakeOf, Heard
  <2>2. CASE SocketOpens(d) /\ c # d
    <3>1. UNCHANGED <<creds, handshake>> /\ authed'[c] = authed[c]
          /\ outbox'[c] = outbox[c] /\ up'[c] = up[c]
      BY <2>2 DEF SocketOpens, Flushed, ClientTypes, ServerTypes
    <3>2. QED
      BY <1>1, <1>2, <3>1, HandshakeKept
  <2>3. CASE SocketRefused(d) \/ Lose(d) \/ ServerSeesClose(d)
    <3>1. UNCHANGED <<creds, handshake, authed, outbox, up>>
      BY <2>3 DEF SocketRefused, Lose, ServerSeesClose, client, server
    <3>2. QED
      BY <1>1, <1>2, <3>1, HandshakeKept
  <2>4. QED
    BY <1>5, <2>1, <2>2, <2>3 DEF SocketStep
<1>6. ASSUME NEW d \in Clients, ServerStep(d)
      PROVE  HandshakeOf(c)'
  <2>1. /\ UNCHANGED <<creds, handshake, outbox>> /\ (authed[c] => authed'[c])
        /\ up'[c] = up[c] \/ (up[c] # <<>> /\ up'[c] = Tail(up[c]))
    BY ZenonT(60), <1>6 DEF ServerStep, Authenticate, ServeOpen, ServePrompt, ServeDelete, Served, Arrived, client,
       ClientTypes, ServerTypes
  <2>2. QED
    BY <1>1, <1>2, <2>1, HandshakeKept
<1>7. CASE UNCHANGED <<creds, handshake, outbox, up, authed>>
  BY <1>1, <1>2, <1>7, HandshakeKept
<1>8. CASE \/ Tick \/ UNCHANGED vars
           \/ \E i \in DOMAIN calls :
                FailWaiting(i) \/ Attach(i) \/ ReportMissing(i) \/ DeleteReaches(i) \/ Detach(i)
           \/ \E s \in Sessions : HostStep(s)
  BY <1>7, <1>8 DEF Tick, vars, client, server, FailWaiting, Attach, ReportMissing, DeleteReaches, Detach,
     HostStep, OpeningReads, OpeningRegisters, Emit, RunEnds
<1>9. QED
  BY <1>3, <1>4, <1>5, <1>6, <1>8 DEF Next, CallStep

-----------------------------------------------------------------------------
(* The connections the server counts. *)

\* A socket that is open was open, or opens now.
LEMMA OpensOnce ==
  ASSUME Types, [Next]_vars, NEW c \in Clients, ~SocketOpens(c), link'[c] = "open"
  PROVE  link[c] = "open"
<1>1. CASE Says \/ Grants
  <2>1. Answer(0, TRUE) \in Frames
    BY MessagesTyped
  <2>2. PICK frame \in Frames : \E essential, to : Send(to, frame, essential)
    BY <1>1, <2>1 DEF Says, Grants
  <2>3. link'[c] \in {link[c], "broken"}
    BY <2>2, SendOne
  <2>4. QED
    BY <2>3
<1>2. CASE TurnsAway \/ Relinks \/ Tick \/ UNCHANGED <<wire, clock>> \/ \E d \in Clients : Receive(d)
  BY <1>2 DEF TurnsAway, Relinks, Tick, wire, Receive, Types, WireTypes
<1>3. QED
  BY <1>1, <1>2, WireSteps

\* #connections grows only below the cap, and by sockets that open.
LEMMA SocketsStep == Types /\ SocketsInv /\ [Next]_vars => SocketsInv'
<1> SUFFICES ASSUME Types, SocketsInv, [Next]_vars PROVE SocketsInv'
  OBVIOUS
<1> USE DEF Types
<1>1. ASSUME NEW c \in Clients, SocketOpens(c)
      PROVE  SocketsInv'
  <2>1. attached' = attached \cup {c} /\ cap' = cap /\ Cardinality(attached) < cap
        /\ link' = [link EXCEPT ![c] = "open"] /\ outbox' = [outbox EXCEPT ![c] = <<>>]
    BY <1>1 DEF SocketOpens, Flushed
  <2>2. IsFiniteSet(attached') /\ Cardinality(attached') <= cap
    <3>1. Cardinality(attached) \in Nat /\ cap \in Nat
      BY FS_CardinalityType, NumbersAssumption DEF SocketsInv
    <3>2. /\ IsFiniteSet(attached \cup {c})
          /\ Cardinality(attached \cup {c}) = Cardinality(attached)
               \/ Cardinality(attached \cup {c}) = Cardinality(attached) + 1
      BY FS_AddElement DEF SocketsInv
    <3>3. QED
      BY <2>1, <3>1, <3>2
  <2>3. QED
    BY <2>1, <2>2 DEF SocketsInv, ClientTypes, WireTypes
<1>2. ASSUME \A c \in Clients : ~SocketOpens(c)
      PROVE  SocketsInv'
  <2>1. cap' = cap /\ attached' \subseteq attached
    BY <1>2 DEF Next, ClientStep, SocketStep, ServerStep, CallStep, HostStep, Call, Deadline, Close,
       SeeClose, Receive, SocketRefused, Lose, ServerSeesClose, Authenticate, ServeOpen, ServePrompt,
       ServeDelete, Dispatch, FailWaiting, Attach, ReportMissing, DeleteReaches, Detach, OpeningReads,
       OpeningRegisters, Emit, RunEnds, Tick, vars, server
  <2>2. IsFiniteSet(attached') /\ Cardinality(attached') <= cap
    <3>1. IsFiniteSet(attached') /\ Cardinality(attached') <= Cardinality(attached)
      BY <2>1, FS_Subset DEF SocketsInv
    <3>2. Cardinality(attached') \in Nat /\ Cardinality(attached) \in Nat /\ cap \in Nat
      BY <3>1, FS_CardinalityType, NumbersAssumption DEF SocketsInv
    <3>3. QED
      BY <3>1, <3>2 DEF SocketsInv
  <2>3. ASSUME NEW c \in Clients, link'[c] = "open"
        PROVE  c \in attached' /\ outbox'[c] = <<>>
    <3>1. link[c] = "open" /\ c \in attached /\ outbox[c] = <<>>
      BY <1>2, <2>3, OpensOnce DEF SocketsInv
    <3>2. c \in attached'
      BY <2>3, <3>1 DEF Next, ClientStep, SocketStep, ServerStep, CallStep, HostStep, Call, Deadline,
         Close, SeeClose, Receive, SocketOpens, SocketRefused, Lose, ServerSeesClose, Authenticate,
         ServeOpen, ServePrompt, ServeDelete, Dispatch, FailWaiting, Attach, ReportMissing,
         DeleteReaches, Detach, OpeningReads, OpeningRegisters, Emit, RunEnds, Tick, vars, server,
         WireTypes
    <3>3. outbox'[c] = <<>>
      BY ZenonT(60), <3>1 DEF Next, ClientStep, SocketStep, ServerStep, CallStep, HostStep, Call, Deadline,
         Close, SeeClose, Receive, SocketOpens, Flushed, SocketRefused, Lose, ServerSeesClose,
         Authenticate, ServeOpen, ServePrompt, ServeDelete, Dispatch, FailWaiting, Attach, ReportMissing,
         DeleteReaches, Detach, OpeningReads, OpeningRegisters, Emit, RunEnds, Tick, vars, client,
         ClientTypes
    <3>4. QED
      BY <3>2, <3>3
  <2>4. QED
    BY <2>1, <2>2, <2>3 DEF SocketsInv
<1>3. QED
  BY <1>1, <1>2

-----------------------------------------------------------------------------
(* Where a call can be. *)

\* A call keeps its maker and its session, and waits only if it waited or is new.
LEMMA CallsKept ==
  ASSUME Types, [Next]_vars
  PROVE  /\ DOMAIN calls \subseteq DOMAIN calls'
         /\ \A i \in DOMAIN calls : /\ calls'[i].by = calls[i].by /\ calls'[i].on = calls[i].on
                                    /\ Waiting(i)' => Waiting(i)
                                    /\ Settled(i) => Settled(i)'
         /\ \A i \in DOMAIN calls' \ DOMAIN calls : Waiting(i)' /\ work'[i] = "no" /\ i \in Ids
         /\ DOMAIN calls' # DOMAIN calls => UNCHANGED <<pending, outbox, up, running, wire>>
<1> USE DEF Types, Waiting, Settled
<1>1. ASSUME NEW c \in Clients, NEW method \in Methods, NEW s \in Sessions, Call(c, method, s)
      PROVE  /\ DOMAIN calls \subseteq DOMAIN calls'
             /\ \A i \in DOMAIN calls : calls'[i] = calls[i]
             /\ \A i \in DOMAIN calls' \ DOMAIN calls : Waiting(i)' /\ work'[i] = "no" /\ i \in Ids
             /\ UNCHANGED <<pending, outbox, up, running, wire>>
  <2> DEFINE new == [by |-> c, method |-> method, on |-> s, at |-> "waiting", how |-> "none"]
  <2>1. /\ Len(calls) \in Nat /\ Len(calls) < MaxCalls /\ Len(work) = Len(calls)
        /\ DOMAIN calls = 1..Len(calls) /\ calls \in Seq(CallRecords) /\ work \in Seq(WorkStates)
        /\ calls' = Append(calls, new) /\ work' = Append(work, "no")
        /\ UNCHANGED <<pending, outbox, up, running, wire>>
    BY <1>1 DEF Call, ClientTypes, ServerTypes, host
  <2>2. DOMAIN calls' = 1..Len(calls) + 1 /\ \A i \in DOMAIN calls : calls'[i] = calls[i]
    BY <2>1
  <2>3. calls'[Len(calls) + 1] = new /\ work'[Len(calls) + 1] = "no"
    BY <2>1
  <2>4. new.at = "waiting"
    OBVIOUS
  <2> HIDE DEF new
  <2>5. \A i \in DOMAIN calls' \ DOMAIN calls : i = Len(calls) + 1
    BY <2>1, <2>2
  <2>6. Len(calls) + 1 \in Ids
    BY <2>1, BoundsAssumption DEF Ids
  <2>7. QED
    BY <2>1, <2>2, <2>3, <2>4, <2>5, <2>6
<1>2. ASSUME NEW ids, NEW how \in {"resolved", "refused", "timeout", "closed"}, calls' = SettleAll(ids, how)
      PROVE  /\ DOMAIN calls' = DOMAIN calls
             /\ \A i \in DOMAIN calls : /\ calls'[i].by = calls[i].by /\ calls'[i].on = calls[i].on
                                        /\ Waiting(i)' => Waiting(i)
                                        /\ Settled(i) => Settled(i)'
  BY <1>2, SettleAllTyped
<1>3. ASSUME NEW c \in Clients, ClientStep(c),
             ~\E method \in Methods, s \in Sessions : Call(c, method, s)
      PROVE  \E ids : \E how \in {"resolved", "refused", "timeout", "closed"} : calls' = SettleAll(ids, how)
  BY <1>3, ClientSettles
<1>4. ASSUME NEW i \in DOMAIN calls, Dispatch(i) \/ FailWaiting(i)
      PROVE  /\ DOMAIN calls' = DOMAIN calls
             /\ \A j \in DOMAIN calls : /\ calls'[j].by = calls[j].by /\ calls'[j].on = calls[j].on
                                        /\ Waiting(j)' => Waiting(j)
                                        /\ Settled(j) => Settled(j)'
  <2>1. CASE calls' = [calls EXCEPT ![i].at = "pending"] /\ Waiting(i)
    <3>1. \A j \in DOMAIN calls : calls[j] \in CallRecords
      BY DEF ClientTypes
    <3>2. /\ calls'[i].by = calls[i].by /\ calls'[i].on = calls[i].on
          /\ calls'[i].at = "pending" /\ DOMAIN calls' = DOMAIN calls
      BY <2>1, <3>1 DEF CallRecords
    <3>3. \A j \in DOMAIN calls : j # i => calls'[j] = calls[j]
      BY <2>1
    <3>4. QED
      BY <2>1, <3>2, <3>3
  <2>2. CASE \E how \in {"timeout", "closed", "refused"} : calls' = SettleAll({i}, how)
    BY <1>2, <2>2
  <2>3. QED
    BY <1>4, <2>1, <2>2 DEF Dispatch, FailWaiting
<1>5. CASE UNCHANGED calls
  BY <1>5
<1>6. CASE \/ Tick \/ UNCHANGED vars
           \/ \E c \in Clients : SocketStep(c) \/ ServerStep(c)
           \/ \E i \in DOMAIN calls : Attach(i) \/ ReportMissing(i) \/ DeleteReaches(i) \/ Detach(i)
           \/ \E s \in Sessions : HostStep(s)
  BY <1>5, <1>6 DEF Tick, vars, client, SocketStep, SocketOpens, SocketRefused, Lose, ServerSeesClose,
     ServerStep, Authenticate, ServeOpen, ServePrompt, ServeDelete, Attach, ReportMissing, DeleteReaches,
     Detach, HostStep, OpeningReads, OpeningRegisters, Emit, RunEnds
<1>7. ASSUME NEW c \in Clients, ClientStep(c)
      PROVE  \/ \E method \in Methods, s \in Sessions : Call(c, method, s)
             \/ \E ids : \E how \in {"resolved", "refused", "timeout", "closed"} : calls' = SettleAll(ids, how)
  BY <1>3, <1>7
<1>8. QED
  BY <1>1, <1>2, <1>4, <1>6, <1>7 DEF Next, CallStep

\* A call that goes out is pending from then on.
LEMMA Dispatched ==
  ASSUME Types, NEW i \in DOMAIN calls, Dispatch(i), ~closed[calls[i].by]
  PROVE  /\ calls' = [calls EXCEPT ![i].at = "pending"] /\ ~Waiting(i)'
         /\ pending' = [pending EXCEPT ![calls[i].by] = @ \cup {i}]
         /\ \/ link[calls[i].by] = "connecting" /\ UNCHANGED up
               /\ outbox' = [outbox EXCEPT ![calls[i].by] = Append(@, i)]
            \/ link[calls[i].by] # "connecting" /\ UNCHANGED outbox
               /\ up' \in {up, [up EXCEPT ![calls[i].by] = Append(@, i)]}
<1>1. calls[i] \in CallRecords
  BY DEF Types, ClientTypes
<1>2. calls' = [calls EXCEPT ![i].at = "pending"]
  BY DEF Dispatch
<1>3. calls'[i].at = "pending"
  BY <1>1, <1>2 DEF CallRecords
<1>4. QED
  BY <1>2, <1>3 DEF Dispatch, Waiting

\* What a client holds back, and what it has sent, grows by a call it sends now
\* and loses its first frame to the server; the outbox is flushed or dropped.
LEMMA FramesMove ==
  ASSUME Types, [Next]_vars, NEW c \in Clients
  PROVE  /\ \/ outbox'[c] \in {outbox[c], <<>>}
            \/ \E i \in DOMAIN calls : /\ Dispatch(i) /\ ~closed[c] /\ calls[i].by = c
                                       /\ outbox'[c] = Append(outbox[c], i)
         /\ \/ up'[c] = up[c]
            \/ up[c] # <<>> /\ up'[c] = Tail(up[c])
            \/ SocketOpens(c) /\ up'[c] = outbox[c]
            \/ \E i \in DOMAIN calls : /\ Dispatch(i) /\ ~closed[c] /\ calls[i].by = c
                                       /\ link[c] # "connecting" /\ up'[c] = Append(up[c], i)
<1> USE DEF Types
<1>1. ASSUME NEW d \in Clients, ClientStep(d)
      PROVE  UNCHANGED up /\ (outbox'[c] = outbox[c] \/ outbox'[c] = <<>>)
  BY <1>1 DEF ClientStep, Call, Deadline, Close, SeeClose, Receive, ClientTypes
<1>2. ASSUME NEW i \in DOMAIN calls, Dispatch(i)
      PROVE  \/ UNCHANGED <<outbox, up>>
             \/ /\ ~closed[calls[i].by]
                /\ \/ link[calls[i].by] = "connecting" /\ UNCHANGED up
                      /\ outbox' = [outbox EXCEPT ![calls[i].by] = Append(@, i)]
                   \/ link[calls[i].by] # "connecting" /\ UNCHANGED outbox
                      /\ up' \in {up, [up EXCEPT ![calls[i].by] = Append(@, i)]}
  BY <1>2, Dispatched DEF Dispatch
<1>3. ASSUME NEW d \in Clients, SocketStep(d)
      PROVE  \/ outbox'[c] = outbox[c] /\ up'[c] = up[c]
             \/ SocketOpens(c) /\ up'[c] = outbox[c] /\ outbox'[c] = <<>>
  BY <1>3 DEF SocketStep, SocketOpens, Flushed, SocketRefused, Lose, ServerSeesClose, client, ClientTypes
<1>4. ASSUME NEW d \in Clients, ServerStep(d)
      PROVE  UNCHANGED outbox /\ (up'[c] = up[c] \/ (up[c] # <<>> /\ up'[c] = Tail(up[c])))
  BY <1>4 DEF ServerStep, Authenticate, ServeOpen, ServePrompt, ServeDelete, Served, Arrived, client,
     ClientTypes
<1>5. CASE \/ Tick \/ UNCHANGED vars
           \/ \E i \in DOMAIN calls :
                FailWaiting(i) \/ Attach(i) \/ ReportMissing(i) \/ DeleteReaches(i) \/ Detach(i)
           \/ \E s \in Sessions : HostStep(s)
  <2>1. UNCHANGED <<outbox, up>>
    BY <1>5 DEF Tick, vars, client, FailWaiting, Attach, ReportMissing, DeleteReaches, Detach,
       HostStep, OpeningReads, OpeningRegisters, Emit, RunEnds
  <2>2. QED
    BY <2>1
<1>6. ASSUME NEW i \in DOMAIN calls, Dispatch(i)
      PROVE  /\ \/ outbox'[c] = outbox[c]
                \/ ~closed[c] /\ calls[i].by = c /\ outbox'[c] = Append(outbox[c], i)
             /\ \/ up'[c] = up[c]
                \/ ~closed[c] /\ calls[i].by = c /\ link[c] # "connecting" /\ up'[c] = Append(up[c], i)
  <2>1. CASE calls[i].by = c
    BY <1>2, <1>6, <2>1 DEF ClientTypes
  <2>2. CASE calls[i].by # c
    BY <1>2, <1>6, <2>2 DEF ClientTypes
  <2>3. QED
    BY <2>1, <2>2
<1>7. QED
  BY <1>1, <1>3, <1>4, <1>5, <1>6 DEF Next, CallStep

\* Frames a client holds back, or has sent, are ones it already had or a call
\* it sends now.
LEMMA FramesWithin ==
  ASSUME Types, [Next]_vars, NEW c \in Clients
  PROVE  /\ \/ Within(outbox'[c], outbox[c])
            \/ \E i \in DOMAIN calls : /\ Dispatch(i) /\ ~closed[c] /\ calls[i].by = c
                                       /\ outbox'[c] = Append(outbox[c], i)
         /\ \/ Within(up'[c], up[c])
            \/ SocketOpens(c) /\ up'[c] = outbox[c]
            \/ \E i \in DOMAIN calls : /\ Dispatch(i) /\ ~closed[c] /\ calls[i].by = c
                                       /\ link[c] # "connecting" /\ up'[c] = Append(up[c], i)
<1>1. outbox[c] \in Seq(0..MaxCalls) /\ up[c] \in Seq(0..MaxCalls)
  BY DEF Types, ClientTypes
<1>2. Within(outbox[c], outbox[c]) /\ Within(up[c], up[c]) /\ Within(<<>>, outbox[c])
      /\ (up[c] # <<>> => Within(Tail(up[c]), up[c]))
  BY <1>1, WithinTail
<1>3. QED
  BY <1>2, FramesMove

\* #outbox holds back only what its client has sent.
LEMMA OutboxStep == Types /\ OutboxInv /\ [Next]_vars => OutboxInv'
<1> SUFFICES ASSUME Types, OutboxInv, [Next]_vars, NEW c \in Clients, NEW n \in DOMAIN outbox'[c],
                    outbox'[c][n] # 0
             PROVE  /\ outbox'[c][n] \in DOMAIN calls'
                    /\ calls'[outbox'[c][n]].at # "waiting"
                    /\ calls'[outbox'[c][n]].by = c
  BY DEF OutboxInv, Waiting
<1> DEFINE j == outbox'[c][n]
<1>1. CASE \E m \in DOMAIN outbox[c] : j = outbox[c][m]
  BY <1>1, CallsKept DEF OutboxInv, Waiting
<1>2. ASSUME NEW i \in DOMAIN calls, Dispatch(i), ~closed[c], calls[i].by = c,
             outbox'[c] = Append(outbox[c], i)
      PROVE  \/ j = i \/ \E m \in DOMAIN outbox[c] : j = outbox[c][m]
  <2>1. i \in 0..MaxCalls /\ outbox[c] \in Seq(0..MaxCalls)
    BY CallTyped DEF Types, ClientTypes
  <2>2. \A m \in DOMAIN Append(outbox[c], i) :
          \/ Append(outbox[c], i)[m] = i
          \/ \E k \in DOMAIN outbox[c] : Append(outbox[c], i)[m] = outbox[c][k]
    BY <2>1, AppendBrings
  <2>3. QED
    BY <1>2, <2>2
<1>3. ASSUME NEW i \in DOMAIN calls, Dispatch(i), ~closed[c], calls[i].by = c, j = i
      PROVE  j \in DOMAIN calls' /\ calls'[j].at # "waiting" /\ calls'[j].by = c
  BY <1>3, Dispatched, CallsKept DEF Waiting
<1>4. QED
  BY <1>1, <1>2, <1>3, FramesWithin DEF Within

\* An entry of #pending goes only when its call settles.
LEMMA PendingStep == Types /\ PendingInv /\ [Next]_vars => PendingInv'
<1> SUFFICES ASSUME Types, PendingInv, [Next]_vars, NEW i \in DOMAIN calls', calls'[i].at = "pending"
             PROVE  i \in pending'[calls'[i].by]
  BY DEF PendingInv
<1>1. i \in DOMAIN calls /\ calls'[i].by = calls[i].by /\ calls[i].by \in Clients
  BY CallsKept, CallTyped DEF Waiting, Types
<1>2. ASSUME NEW c \in Clients, ClientStep(c),
             ~\E method \in Methods, s \in Sessions : Call(c, method, s)
      PROVE  i \in pending'[calls[i].by]
  <2>1. PICK ids : /\ pending' = [pending EXCEPT ![c] = @ \ ids]
                   /\ \E how \in {"resolved", "refused", "timeout", "closed"} : calls' = SettleAll(ids, how)
    BY <1>2, ClientSettles DEF Types
  <2>2. i \notin ids /\ calls'[i] = calls[i]
    BY <1>1, <2>1, SettleAllTyped DEF Types
  <2>3. QED
    BY <1>1, <2>1, <2>2 DEF PendingInv, Types, ClientTypes
<1>3. ASSUME NEW j \in DOMAIN calls, Dispatch(j)
      PROVE  i \in pending'[calls[i].by]
  <2>1. CASE closed[calls[j].by]
    <3>1. calls' = SettleAll({j}, "closed") /\ UNCHANGED pending
      BY <1>3, <2>1 DEF Dispatch
    <3>2. i # j /\ calls'[i] = calls[i]
      BY <1>1, <3>1, SettleAllTyped DEF Types
    <3>3. QED
      BY <1>1, <3>1, <3>2 DEF PendingInv
  <2>2. CASE ~closed[calls[j].by]
    <3>1. /\ calls' = [calls EXCEPT ![j].at = "pending"]
          /\ pending' = [pending EXCEPT ![calls[j].by] = @ \cup {j}]
      BY <1>3, <2>2, Dispatched
    <3>2. i # j => calls'[i] = calls[i]
      BY <3>1 DEF Types, ClientTypes
    <3>3. QED
      BY <1>1, <3>1, <3>2 DEF PendingInv, Types, ClientTypes
  <2>3. QED
    BY <2>1, <2>2
<1>4. ASSUME NEW j \in DOMAIN calls, FailWaiting(j)
      PROVE  i \in pending'[calls[i].by]
  <2>1. PICK how \in {"timeout", "closed", "refused"} : calls' = SettleAll({j}, how)
    BY <1>4 DEF FailWaiting
  <2>2. UNCHANGED pending /\ calls'[i] = calls[i]
    BY <1>1, <1>4, <2>1, SettleAllTyped DEF FailWaiting, Types
  <2>3. QED
    BY <1>1, <2>2 DEF PendingInv
<1>5. ASSUME NEW c \in Clients, NEW method \in Methods, NEW s \in Sessions, Call(c, method, s)
      PROVE  i \in pending'[calls[i].by]
  <2>1. calls'[i] = calls[i] /\ UNCHANGED pending
    BY <1>1, <1>5 DEF Call, Types, ClientTypes
  <2>2. QED
    BY <1>1, <2>1 DEF PendingInv
<1>6. CASE UNCHANGED <<calls, pending>>
  BY <1>1, <1>6 DEF PendingInv
<1>7. CASE \/ Tick \/ UNCHANGED vars
           \/ \E c \in Clients : SocketStep(c) \/ ServerStep(c)
           \/ \E j \in DOMAIN calls : Attach(j) \/ ReportMissing(j) \/ DeleteReaches(j) \/ Detach(j)
           \/ \E s \in Sessions : HostStep(s)
  BY <1>6, <1>7 DEF Tick, vars, client, SocketStep, SocketOpens, SocketRefused, Lose, ServerSeesClose,
     ServerStep, Authenticate, ServeOpen, ServePrompt, ServeDelete, Attach, ReportMissing, DeleteReaches,
     Detach, HostStep, OpeningReads, OpeningRegisters, Emit, RunEnds
<1>8. QED
  BY <1>1, <1>2, <1>3, <1>4, <1>5, <1>7 DEF Next, CallStep

AtHead(i) == \E c \in Clients : up[c] # <<>> /\ i = Head(up[c])

\* The server turns to a call because its frame arrived, because it runs, or
\* because it had turned to it before.
LEMMA WorkMoves ==
  ASSUME Types, [Next]_vars
  PROVE  /\ \A s \in Sessions : running'[s] \in {running[s], 0} \/ AtHead(running'[s])
         /\ \A i \in DOMAIN calls :
              work'[i] = work[i] \/ work[i] # "no" \/ AtHead(i) \/ \E s \in Sessions : i = running[s]
<1> USE DEF Types
<1>1. DOMAIN work = DOMAIN calls /\ running \in [Sessions -> 0..MaxCalls] /\ \A i \in DOMAIN calls : i \in DOMAIN work
  BY DEF ClientTypes, ServerTypes
<1>2. ASSUME UNCHANGED running, NEW i, NEW state, work' = [work EXCEPT ![i] = state],
             AtHead(i) \/ work[i] # "no"
      PROVE  /\ \A s \in Sessions : running'[s] \in {running[s], 0} \/ AtHead(running'[s])
             /\ \A j \in DOMAIN calls :
                  work'[j] = work[j] \/ work[j] # "no" \/ AtHead(j) \/ \E s \in Sessions : j = running[s]
  BY <1>1, <1>2
<1>3. ASSUME UNCHANGED running, \A i \in DOMAIN calls : work'[i] = work[i]
      PROVE  /\ \A s \in Sessions : running'[s] \in {running[s], 0} \/ AtHead(running'[s])
             /\ \A j \in DOMAIN calls :
                  work'[j] = work[j] \/ work[j] # "no" \/ AtHead(j) \/ \E s \in Sessions : j = running[s]
  BY <1>3
<1>4. CASE \/ Tick \/ UNCHANGED vars
           \/ \E c \in Clients : SocketStep(c) \/ Authenticate(c)
           \/ \E c \in Clients : ClientStep(c) /\ ~\E method \in Methods, s \in Sessions : Call(c, method, s)
           \/ \E i \in DOMAIN calls : Dispatch(i) \/ FailWaiting(i)
           \/ \E s \in Sessions : Emit(s)
  <2>1. UNCHANGED <<work, running>>
    BY <1>4, ClientSettles DEF Tick, vars, client, server, host, SocketStep, SocketOpens, SocketRefused,
       Lose, ServerSeesClose, Authenticate, Dispatch, FailWaiting, Emit
  <2>2. QED
    BY <1>3, <2>1
<1>5. ASSUME NEW c \in Clients, NEW method \in Methods, NEW s \in Sessions, Call(c, method, s)
      PROVE  UNCHANGED running /\ \A i \in DOMAIN calls : work'[i] = work[i]
  BY <1>1, <1>5 DEF Call, host, ServerTypes
<1>6. ASSUME NEW c \in Clients, ServeOpen(c) \/ ServeDelete(c)
      PROVE  /\ UNCHANGED running /\ AtHead(Head(up[c]))
             /\ \E state : work' = [work EXCEPT ![Head(up[c])] = state]
  BY <1>6 DEF ServeOpen, ServeDelete, Served, Arrived, Reply, host, AtHead
<1>7. ASSUME NEW c \in Clients, ServePrompt(c)
      PROVE  /\ AtHead(Head(up[c])) /\ \E state : work' = [work EXCEPT ![Head(up[c])] = state]
             /\ \/ UNCHANGED running
                \/ \E s : running' = [running EXCEPT ![s] = Head(up[c])]
  BY <1>7 DEF ServePrompt, Served, Arrived, Reply, AtHead
<1>8. ASSUME NEW i \in DOMAIN calls, \/ Attach(i) \/ ReportMissing(i) \/ DeleteReaches(i) \/ Detach(i)
      PROVE  UNCHANGED running /\ work[i] # "no" /\ \E state : work' = [work EXCEPT ![i] = state]
  BY <1>8 DEF Attach, ReportMissing, DeleteReaches, Detach, Reply, host
<1>9. ASSUME NEW s \in Sessions, OpeningReads(s) \/ OpeningRegisters(s)
      PROVE  UNCHANGED running /\ \A i \in DOMAIN calls : work'[i] = work[i] \/ work[i] # "no"
  BY <1>1, <1>9 DEF OpeningReads, OpeningRegisters
<1>10. ASSUME NEW s \in Sessions, RunEnds(s)
       PROVE  /\ running' = [running EXCEPT ![s] = 0]
              /\ \E state : work' = [work EXCEPT ![running[s]] = state]
  BY <1>10 DEF RunEnds, Reply
<1>11. CASE \E c \in Clients : ServePrompt(c)
  BY <1>1, <1>7, <1>11
<1>12. CASE \E s \in Sessions : RunEnds(s)
  BY <1>1, <1>10, <1>12
<1>13. CASE \E s \in Sessions : OpeningReads(s) \/ OpeningRegisters(s)
  BY <1>9, <1>13
<1>14. CASE \E c \in Clients : ServeOpen(c) \/ ServeDelete(c)
  BY <1>2, <1>6, <1>14
<1>15. CASE \E i \in DOMAIN calls : Attach(i) \/ ReportMissing(i) \/ DeleteReaches(i) \/ Detach(i)
  BY <1>2, <1>8, <1>15
<1>16. CASE \E c \in Clients, method \in Methods, s \in Sessions : Call(c, method, s)
  BY <1>3, <1>5, <1>16
<1>17. QED
  BY <1>4, <1>11, <1>12, <1>13, <1>14, <1>15, <1>16 DEF Next, ServerStep, CallStep, HostStep

\* The server hears of a call only from a frame, and only once the call is out.
LEMMA ServedStep ==
  Types /\ OutboxInv /\ ServedInv /\ [Next]_vars => ServedInv'
<1> SUFFICES ASSUME Types, OutboxInv, ServedInv, [Next]_vars, NEW i \in Ids, Unserved(i)'
             PROVE  Nowhere(i)'
  BY DEF ServedInv, Ids
<1>1. i \in DOMAIN calls => calls[i].by \in Clients
  BY CallTyped DEF Types
<1>2. Unserved(i)
  <2>1. CASE i \notin DOMAIN calls
    BY <2>1 DEF Unserved
  <2>2. CASE i \in DOMAIN calls
    BY <1>1, <2>2, CallsKept, WireKeeps DEF Unserved
  <2>3. QED
    BY <2>1, <2>2
<1>3. Nowhere(i) /\ i # 0
  BY <1>2 DEF ServedInv, Ids
<1>4. ~AtHead(i) /\ \A s \in Sessions : running[s] # i
  <2>1. \A c \in Clients : up[c] # <<>> => 1 \in DOMAIN up[c] /\ Head(up[c]) = up[c][1]
    BY DEF Types, ClientTypes
  <2>2. QED
    BY <1>3, <2>1 DEF Nowhere, AtHead
<1>5. ASSUME NEW c \in Clients, NEW n \in DOMAIN up'[c]
      PROVE  up'[c][n] # i
  <2>1. CASE Within(up'[c], up[c])
    BY <1>3, <2>1 DEF Within, Nowhere
  <2>2. CASE SocketOpens(c) /\ up'[c] = outbox[c]
    <3>1. SUFFICES ASSUME outbox[c][n] = i, n \in DOMAIN outbox[c]
                   PROVE  FALSE
      BY <2>2
    <3>2. i \in DOMAIN calls /\ ~Waiting(i) /\ calls[i].by = c
      BY <1>3, <3>1 DEF OutboxInv
    <3>3. link'[c] = "open" /\ UNCHANGED calls
      BY <2>2 DEF SocketOpens, Types, WireTypes
    <3>4. QED
      BY <3>2, <3>3 DEF Unserved, Waiting
  <2>3. ASSUME NEW j \in DOMAIN calls, Dispatch(j), ~closed[c], calls[j].by = c,
               link[c] # "connecting", up'[c] = Append(up[c], j)
        PROVE  up'[c][n] # i
    <3>1. j \in 0..MaxCalls /\ up[c] \in Seq(0..MaxCalls)
      BY CallTyped DEF Types, ClientTypes
    <3>2. \A m \in DOMAIN Append(up[c], j) :
            \/ Append(up[c], j)[m] = j
            \/ \E k \in DOMAIN up[c] : Append(up[c], j)[m] = up[c][k]
      BY <3>1, AppendBrings
    <3>3. calls'[j].at # "waiting" /\ j \in DOMAIN calls' /\ calls'[j].by = c
      BY <2>3, Dispatched, CallsKept DEF Waiting
    <3>4. link'[c] # "connecting"
      BY <2>3, WireKeeps
    <3>5. i # j
      BY <3>3, <3>4 DEF Unserved, Waiting
    <3>6. QED
      BY <1>3, <2>3, <3>2, <3>5 DEF Nowhere
  <2>4. QED
    BY <2>1, <2>2, <2>3, FramesWithin
<1>6. \A s \in Sessions : running'[s] # i
  BY <1>3, <1>4, WorkMoves
<1>7. i \in DOMAIN calls' => work'[i] = "no"
  <2>1. CASE i \in DOMAIN calls
    BY <1>3, <1>4, <2>1, WorkMoves DEF Nowhere
  <2>2. CASE i \notin DOMAIN calls
    BY <2>2, CallsKept
  <2>3. QED
    BY <2>1, <2>2
<1>8. QED
  BY <1>5, <1>6, <1>7 DEF Nowhere

-----------------------------------------------------------------------------
(* Answers. *)

Answered(i) == work[i] \in {"done", "failed"}

InSight(i, c) == \E n \in DOMAIN down[c] : down[c][n].id = i

\* Whatever is sent, what was on its way still is.
LEMMA SendKeepsSight ==
  ASSUME Types, NEW c \in Clients, NEW to, NEW frame \in Frames, NEW essential,
         Send(to, frame, essential), NEW i, InSight(i, c)
  PROVE  InSight(i, c)'
<1>1. down[c] \in Seq(Frames)
  BY DEF Types, WireTypes
<1>2. down'[c] = down[c] \/ down'[c] = Append(down[c], frame)
  BY SendOne
<1>3. \A m \in DOMAIN down[c] : m \in DOMAIN down'[c] /\ down'[c][m] = down[c][m]
  BY <1>1, <1>2
<1>4. QED
  BY <1>3 DEF InSight

\* A reply reaches a socket that is open.
LEMMA ReplyArrives ==
  ASSUME Types, SocketsInv, NEW i \in DOMAIN calls, NEW ok \in BOOLEAN, Reply(i, ok),
         UNCHANGED calls, link'[calls[i].by] = "open"
  PROVE  InSight(i, calls[i].by)'
<1> DEFINE c == calls[i].by
           frame == Answer(i, ok)
<1>1. c \in Clients /\ frame \in Frames /\ frame.id = i /\ down[c] \in Seq(Frames)
  BY CallTyped, MessagesTyped DEF Types, WireTypes, Answer
<1>2. Send({c}, frame, TRUE)
  BY DEF Reply
<1>3. link[c] = "open" /\ c \in attached
  BY <1>1, <1>2, SendOne DEF SocketsInv
<1>4. down'[c] = Append(down[c], frame)
  BY <1>1, <1>2, <1>3, SendOne
<1>5. Len(down[c]) + 1 \in DOMAIN Append(down[c], frame) /\ Append(down[c], frame)[Len(down[c]) + 1] = frame
  BY <1>1, AppendBrings
<1>6. QED
  BY <1>1, <1>4, <1>5 DEF InSight

\* A frame leaves the socket only when its client reads it.
LEMMA SightKept ==
  ASSUME Types, [Next]_vars, NEW c \in Clients, ~Receive(c), NEW i, InSight(i, c)
  PROVE  InSight(i, c)'
<1>1. CASE Says \/ Grants
  <2>1. PICK frame \in Frames : \E essential, to : Send(to, frame, essential)
    BY <1>1, MessagesTyped DEF Says, Grants
  <2>2. QED
    BY <2>1, SendKeepsSight
<1>2. CASE TurnsAway
  <2>1. PICK d \in attached, j \in 0..MaxCalls : down' = [down EXCEPT ![d] = Append(@, Answer(j, FALSE))]
    BY <1>2 DEF TurnsAway
  <2>2. down[c] \in Seq(Frames) /\ down \in [Clients -> Seq(Frames)]
    BY DEF Types, WireTypes
  <2>3. down'[c] = down[c] \/ down'[c] = Append(down[c], Answer(j, FALSE))
    BY <2>1, <2>2
  <2>4. \A m \in DOMAIN down[c] : m \in DOMAIN down'[c] /\ down'[c][m] = down[c][m]
    <3>1. Answer(j, FALSE) \in Frames
      BY MessagesTyped
    <3>2. PICK frame \in Frames : frame = Answer(j, FALSE)
      BY <3>1
    <3>3. down'[c] = down[c] \/ down'[c] = Append(down[c], frame)
      BY <2>3, <3>2
    <3>4. QED
      BY <2>2, <3>3
  <2>5. QED
    BY <2>4 DEF InSight
<1>3. ASSUME NEW d \in Clients, Receive(d)
      PROVE  down'[c] = down[c]
  BY <1>3 DEF Receive, Types, WireTypes
<1>4. CASE Relinks \/ Tick \/ UNCHANGED <<wire, clock>> \/ \E d \in Clients : Receive(d)
  <2>1. down'[c] = down[c]
    BY <1>3, <1>4 DEF Relinks, Tick, wire
  <2>2. QED
    BY <2>1 DEF InSight
<1>5. QED
  BY <1>1, <1>2, <1>4, WireSteps

\* The client that reads the answer to a call of its own settles it.
LEMMA ReadSettles ==
  ASSUME Types, NEW i \in DOMAIN calls, Receive(calls[i].by), InSight(i, calls[i].by),
         i \in pending[calls[i].by]
  PROVE  Settled(i)' \/ InSight(i, calls[i].by)'
<1> DEFINE c == calls[i].by
           frame == Head(down[c])
           whose == IF frame.kind = "answer" THEN Addressed(c, frame) ELSE {}
           how   == IF frame.ok THEN "resolved" ELSE "refused"
<1>1. c \in Clients /\ i # 0
  BY CallTyped DEF Types, Ids
<1>2. down[c] # <<>> /\ down' = [down EXCEPT ![c] = Tail(@)] /\ calls' = SettleAll(whose, how)
  BY DEF Receive
<1>3. down \in [Clients -> Seq(Frames)] /\ down[c] \in Seq(Frames)
  BY <1>1 DEF Types, WireTypes
<1>4. \A f \in Frames : f.id = i => f.kind = "answer"
  BY <1>1 DEF Frames, Event
<1>5. how \in {"resolved", "refused"}
  OBVIOUS
<1>6. DOMAIN calls' = DOMAIN calls /\ calls'[i].by = c
  BY <1>2, <1>5, SettleAllTyped DEF Types
<1>7. CASE frame.id = i
  <2>1. frame \in Frames
    BY <1>2, <1>3
  <2>2. i \in whose
    BY <1>4, <1>7, <2>1 DEF Addressed
  <2>3. QED
    BY <1>2, <1>5, <2>2, SettleAllTyped DEF Types, Settled
<1>8. CASE frame.id # i
  <2>1. PICK n \in DOMAIN down[c] : down[c][n].id = i
    BY DEF InSight
  <2>2. DOMAIN down[c] = 1..Len(down[c]) /\ Len(down[c]) \in Nat /\ n # 1 /\ n \in 1..Len(down[c])
    BY <1>3, <1>8, <2>1
  <2>3. n - 1 \in DOMAIN Tail(down[c]) /\ Tail(down[c])[n - 1] = down[c][n]
    BY <1>2, <1>3, <2>2
  <2>4. down'[c] = Tail(down[c])
    BY <1>1, <1>2, <1>3
  <2>5. QED
    BY <1>6, <2>1, <2>3, <2>4 DEF InSight
<1>9. QED
  BY <1>7, <1>8

\* An answer is always a reply.
LEMMA AnsweredByReply ==
  ASSUME Types, [Next]_vars, NEW i \in DOMAIN calls, ~Answered(i), Answered(i)'
  PROVE  UNCHANGED calls /\ \E ok \in BOOLEAN : Reply(i, ok)
<1> USE DEF Types
<1>1. DOMAIN work = DOMAIN calls /\ i \in DOMAIN work
  BY DEF ClientTypes, ServerTypes
<1>2. ASSUME NEW j, NEW ok \in BOOLEAN, Reply(j, ok), UNCHANGED calls
      PROVE  UNCHANGED calls /\ Reply(i, ok)
  <2>1. j = i
    BY <1>1, <1>2 DEF Reply, Answered
  <2>2. QED
    BY <1>2, <2>1
<1>3. ASSUME NEW j, NEW state \in {"attach", "joined", "running", "evicting", "deleting", "missing", "detach"},
             work' = [work EXCEPT ![j] = state]
      PROVE  FALSE
  BY <1>1, <1>3 DEF Answered
<1>4. work' # work
  BY DEF Answered
<1>5. ASSUME NEW c \in Clients, ServerStep(c)
      PROVE  UNCHANGED calls /\ \E ok \in BOOLEAN : Reply(i, ok)
  <2>1. CASE Authenticate(c)
    BY <1>4, <2>1 DEF Authenticate
  <2>2. CASE ServeOpen(c)
    BY <1>3, <2>2 DEF ServeOpen
  <2>3. CASE ServePrompt(c)
    BY <1>2, <1>3, <2>3 DEF ServePrompt, client
  <2>4. CASE ServeDelete(c)
    BY <1>2, <1>3, <2>4 DEF ServeDelete, client
  <2>5. QED
    BY <1>5, <2>1, <2>2, <2>3, <2>4 DEF ServerStep
<1>6. ASSUME NEW j \in DOMAIN calls, CallStep(j)
      PROVE  UNCHANGED calls /\ \E ok \in BOOLEAN : Reply(i, ok)
  <2>1. CASE Dispatch(j) \/ FailWaiting(j)
    BY <1>4, <2>1 DEF Dispatch, FailWaiting, server
  <2>2. CASE Attach(j)
    <3>1. Reply(j, calls[j].on \in live) /\ UNCHANGED calls /\ (calls[j].on \in live) \in BOOLEAN
      BY <2>2 DEF Attach, client
    <3>2. QED
      BY <1>2, <3>1
  <2>3. CASE ReportMissing(j) \/ Detach(j)
    BY <1>2, <2>3 DEF ReportMissing, Detach, client
  <2>4. CASE DeleteReaches(j)
    BY <1>3, <2>4 DEF DeleteReaches
  <2>5. QED
    BY <1>6, <2>1, <2>2, <2>3, <2>4 DEF CallStep
<1>7. ASSUME NEW s \in Sessions, HostStep(s)
      PROVE  UNCHANGED calls /\ \E ok \in BOOLEAN : Reply(i, ok)
  <2>1. CASE OpeningReads(s) \/ OpeningRegisters(s)
    BY <1>1, <2>1 DEF OpeningReads, OpeningRegisters, Answered
  <2>2. CASE Emit(s)
    BY <1>4, <2>2 DEF Emit, server
  <2>3. CASE RunEnds(s)
    BY <1>2, <2>3 DEF RunEnds, client
  <2>4. QED
    BY <1>7, <2>1, <2>2, <2>3 DEF HostStep
<1>8. ASSUME NEW c \in Clients, ClientStep(c)
      PROVE  FALSE
  <2>1. CASE \E method \in Methods, s \in Sessions : Call(c, method, s)
    <3>1. work' = Append(work, "no") /\ work'[i] = work[i]
      BY <1>1, <2>1 DEF Call, ServerTypes
    <3>2. QED
      BY <3>1 DEF Answered
  <2>2. CASE ~\E method \in Methods, s \in Sessions : Call(c, method, s)
    BY <1>4, <1>8, <2>2, ClientSettles DEF server
  <2>3. QED
    BY <2>1, <2>2
<1>9. CASE Tick \/ UNCHANGED vars \/ \E c \in Clients : SocketStep(c)
  BY <1>4, <1>9 DEF Tick, vars, server, SocketStep, SocketOpens, SocketRefused, Lose, ServerSeesClose
<1>10. QED
  BY <1>5, <1>6, <1>7, <1>8, <1>9 DEF Next

\* An answer on an open socket is read or still on its way.
LEMMA AnswersStep ==
  Types /\ SocketsInv /\ ServedInv /\ PendingInv /\ AnswersKept /\ [Next]_vars => AnswersKept'
<1> SUFFICES ASSUME Types, SocketsInv, ServedInv, PendingInv, AnswersKept, [Next]_vars,
                    NEW i \in DOMAIN calls', Answered(i)', link'[calls'[i].by] = "open"
             PROVE  Settled(i)' \/ \E n \in DOMAIN down'[calls'[i].by] : down'[calls'[i].by][n].id = i
  BY DEF AnswersKept, Answered, InSight
<1>1. i \in DOMAIN calls /\ i \in Ids
  BY CallsKept, CallTyped DEF Answered, Types
<1>2. calls'[i].by = calls[i].by /\ calls[i].by \in Clients /\ (Settled(i) => Settled(i)')
  BY <1>1, CallsKept, CallTyped DEF Types
<1>3. CASE ~Answered(i)
  <2>1. UNCHANGED calls /\ \E ok \in BOOLEAN : Reply(i, ok)
    BY <1>1, <1>3, AnsweredByReply
  <2>2. InSight(i, calls[i].by)'
    BY <1>1, <1>2, <2>1, ReplyArrives
  <2>3. QED
    BY <2>2 DEF InSight
<1>4. CASE Answered(i) /\ ~Settled(i)
  <2>1. ~Unserved(i)
    BY <1>1, <1>4 DEF ServedInv, Nowhere, Answered
  <2>2. link[calls[i].by] = "open"
    BY <1>1, <1>2, <2>1, OpensOnce DEF SocketOpens, Unserved
  <2>3. InSight(i, calls[i].by)
    BY <1>1, <1>4, <2>2 DEF AnswersKept, Answered, InSight
  <2>4. calls[i].at = "pending"
    BY <1>1, <1>4, <2>1, CallTyped DEF Unserved, Waiting, Settled, Types
  <2>5. i \in pending[calls[i].by]
    BY <1>1, <2>4 DEF PendingInv
  <2>6. CASE Receive(calls[i].by)
    BY <1>1, <2>3, <2>5, <2>6, ReadSettles DEF InSight
  <2>7. CASE ~Receive(calls[i].by)
    <3>1. PICK c \in Clients : c = calls[i].by
      BY <1>2
    <3>2. InSight(i, c)'
      BY <2>3, <2>7, <3>1, SightKept DEF InSight
    <3>3. QED
      BY <1>2, <3>1, <3>2 DEF InSight
  <2>8. QED
    BY <2>6, <2>7
<1>5. QED
  BY <1>2, <1>3, <1>4

-----------------------------------------------------------------------------
(* Whose turn it is. *)

\* Taking the first frame leaves no copy of it.
LEMMA OnceKept ==
  ASSUME NEW S, NEW t \in Seq(S), Once(t)
  PROVE  /\ Once(<<>>)
         /\ t # <<>> => Once(Tail(t)) /\ \A n \in DOMAIN Tail(t) : Tail(t)[n] = 0 \/ Tail(t)[n] # Head(t)
         /\ \A e \in S : (\A n \in DOMAIN t : t[n] # e) => Once(Append(t, e))
<1>1. Once(<<>>)
  BY DEF Once
<1>2. ASSUME t # <<>>
      PROVE  Once(Tail(t)) /\ \A n \in DOMAIN Tail(t) : Tail(t)[n] = 0 \/ Tail(t)[n] # Head(t)
  <2>1. /\ DOMAIN Tail(t) = 1..(Len(t) - 1) /\ DOMAIN t = 1..Len(t) /\ Len(t) \in Nat
        /\ \A n \in 1..(Len(t) - 1) : Tail(t)[n] = t[n + 1]
        /\ Head(t) = t[1] /\ 1 \in DOMAIN t
    BY <1>2
  <2>2. \A n \in DOMAIN Tail(t) : n + 1 \in DOMAIN t /\ n + 1 # 1
    BY <2>1
  <2>3. ASSUME NEW m \in DOMAIN Tail(t), NEW n \in DOMAIN Tail(t), m # n, Tail(t)[m] # 0
        PROVE  Tail(t)[m] # Tail(t)[n]
    <3>1. m + 1 # n + 1 /\ m + 1 \in DOMAIN t /\ n + 1 \in DOMAIN t
      BY <2>1, <2>3
    <3>2. t[m + 1] # 0 => t[m + 1] # t[n + 1]
      BY <3>1 DEF Once
    <3>3. QED
      BY <2>1, <2>3, <3>2
  <2>4. ASSUME NEW n \in DOMAIN Tail(t), Tail(t)[n] # 0
        PROVE  Tail(t)[n] # Head(t)
    <3>1. t[n + 1] # 0 => t[n + 1] # t[1]
      BY <2>1, <2>2 DEF Once
    <3>2. QED
      BY <2>1, <2>4, <3>1
  <2>5. QED
    BY <2>3, <2>4 DEF Once
<1>3. ASSUME NEW e \in S, \A n \in DOMAIN t : t[n] # e
      PROVE  Once(Append(t, e))
  <2>1. /\ DOMAIN Append(t, e) = 1..(Len(t) + 1) /\ DOMAIN t = 1..Len(t) /\ Len(t) \in Nat
        /\ \A n \in 1..Len(t) : Append(t, e)[n] = t[n]
        /\ Append(t, e)[Len(t) + 1] = e
    OBVIOUS
  <2>2. ASSUME NEW m \in DOMAIN Append(t, e), NEW n \in DOMAIN Append(t, e), m # n,
               Append(t, e)[m] # 0
        PROVE  Append(t, e)[m] # Append(t, e)[n]
    <3>1. CASE m \in DOMAIN t /\ n \in DOMAIN t
      <4>1. Append(t, e)[m] = t[m] /\ Append(t, e)[n] = t[n]
        BY <2>1, <3>1
      <4>2. QED
        BY <2>2, <3>1, <4>1 DEF Once
    <3>2. CASE m \in DOMAIN t /\ n \notin DOMAIN t
      <4>1. Append(t, e)[m] = t[m] /\ Append(t, e)[n] = e
        BY <2>1, <3>2
      <4>2. QED
        BY <1>3, <3>2, <4>1
    <3>3. CASE m \notin DOMAIN t
      <4>1. n \in DOMAIN t /\ Append(t, e)[m] = e
        BY <2>1, <2>2, <3>3
      <4>2. Append(t, e)[n] = t[n]
        BY <2>1, <4>1
      <4>3. QED
        BY <1>3, <4>1, <4>2
    <3>4. QED
      BY <3>1, <3>2, <3>3
  <2>3. QED
    BY <2>2 DEF Once
<1>4. QED
  BY <1>1, <1>2, <1>3

\* The server takes the first frame of c, which names call i.
TurnsTo(c, i) == ServerStep(c) /\ up[c] # <<>> /\ i = Head(up[c]) /\ up'[c] = Tail(up[c])

\* What moves the server on with a call, and from where.
LEMMA WorkSteps ==
  ASSUME Types, FramesInv, RunningInv, [Next]_vars, NEW i \in DOMAIN calls
  PROVE  \/ work'[i] = work[i]
         \/ work[i] = "no" /\ \E c \in Clients : TurnsTo(c, i)
         \/ work[i] \in {"joined", "attach", "missing", "deleting"}
         \/ work[i] = "running" /\ \E s \in Sessions : i = running[s] /\ RunEnds(s)
         \/ work[i] = "evicting" /\ work'[i] = "detach" /\ DeleteReaches(i)
         \/ work[i] = "detach" /\ Detach(i)
<1> USE DEF Types
<1>1. DOMAIN work = DOMAIN calls /\ i \in DOMAIN work
  BY DEF ClientTypes, ServerTypes
<1>2. \A c \in Clients : up[c] # <<>> => 1 \in DOMAIN up[c] /\ Head(up[c]) = up[c][1]
  BY DEF ClientTypes
<1>3. ASSUME NEW c \in Clients, ServerStep(c), work'[i] # work[i]
      PROVE  work[i] = "no" /\ TurnsTo(c, i)
  <2>1. ~Authenticate(c)
    BY <1>3 DEF Authenticate
  <2>2. /\ up[c] # <<>> /\ Head(up[c]) # 0 /\ up' = [up EXCEPT ![c] = Tail(@)]
        /\ \E state : work' = [work EXCEPT ![Head(up[c])] = state]
    BY <1>3, <2>1 DEF ServerStep, ServeOpen, ServePrompt, ServeDelete, Served, Arrived, Reply
  <2>3. i = Head(up[c]) /\ up'[c] = Tail(up[c])
    BY <1>1, <1>3, <2>2 DEF ClientTypes
  <2>4. work[i] = "no"
    BY <1>2, <2>2, <2>3 DEF FramesInv, FramesOf
  <2>5. QED
    BY <1>3, <2>2, <2>3, <2>4 DEF TurnsTo
<1>4. ASSUME NEW j \in DOMAIN calls, CallStep(j), work'[i] # work[i]
      PROVE  /\ j = i
             /\ \/ work[i] \in {"attach", "missing", "deleting"}
                \/ work[i] = "evicting" /\ work'[i] = "detach" /\ DeleteReaches(i)
                \/ work[i] = "detach" /\ Detach(i)
  <2>1. ~Dispatch(j) /\ ~FailWaiting(j)
    BY <1>4 DEF Dispatch, FailWaiting, server
  <2>2. j = i
    BY <1>1, <1>4, <2>1 DEF CallStep, Attach, ReportMissing, DeleteReaches, Detach, Reply
  <2>3. QED
    BY <1>1, <1>4, <2>1, <2>2 DEF CallStep, Attach, ReportMissing, DeleteReaches, Detach, Reply
<1>5. ASSUME NEW s \in Sessions, HostStep(s), work'[i] # work[i]
      PROVE  \/ work[i] = "joined"
             \/ work[i] = "running" /\ i = running[s] /\ RunEnds(s)
  <2>1. CASE OpeningReads(s) \/ OpeningRegisters(s)
    BY <1>1, <1>5, <2>1 DEF OpeningReads, OpeningRegisters
  <2>2. CASE Emit(s)
    BY <1>5, <2>2 DEF Emit, server
  <2>3. CASE RunEnds(s)
    <3>1. work' = [work EXCEPT ![running[s]] = "done"] /\ running[s] # 0
      BY <2>3 DEF RunEnds, Reply, Busy
    <3>2. i = running[s]
      BY <1>1, <1>5, <3>1
    <3>3. QED
      BY <2>3, <3>1, <3>2 DEF RunningInv
  <2>4. QED
    BY <1>5, <2>1, <2>2, <2>3 DEF HostStep
<1>6. ASSUME NEW c \in Clients, ClientStep(c)
      PROVE  work'[i] = work[i]
  <2>1. CASE \E method \in Methods, s \in Sessions : Call(c, method, s)
    BY <1>1, <2>1 DEF Call, ServerTypes
  <2>2. CASE ~\E method \in Methods, s \in Sessions : Call(c, method, s)
    BY <1>6, <2>2, ClientSettles DEF server
  <2>3. QED
    BY <2>1, <2>2
<1>7. CASE Tick \/ UNCHANGED vars \/ \E c \in Clients : SocketStep(c)
  BY <1>7 DEF Tick, vars, server, SocketStep, SocketOpens, SocketRefused, Lose, ServerSeesClose
<1>8. CASE \E c \in Clients : ServerStep(c)
  BY <1>3, <1>8
<1>9. CASE \E j \in DOMAIN calls : CallStep(j)
  BY <1>4, <1>9
<1>10. CASE \E s \in Sessions : HostStep(s)
  BY <1>5, <1>10
<1>11. QED
  BY <1>6, <1>7, <1>8, <1>9, <1>10 DEF Next

\* The server turns to nothing that was not the first of its client's frames.
LEMMA StaysUntouched ==
  ASSUME Types, FramesInv, RunningInv, [Next]_vars, NEW c \in Clients, NEW i \in DOMAIN calls,
         work[i] = "no", calls[i].by = c, ~TurnsTo(c, i)
  PROVE  work'[i] = "no"
<1>1. ASSUME NEW d \in Clients, TurnsTo(d, i)
      PROVE  d = c
  <2>1. 1 \in DOMAIN up[d] /\ up[d][1] = i /\ i # 0
    BY <1>1, CallTyped DEF TurnsTo, Types, ClientTypes, Ids
  <2>2. QED
    BY <2>1 DEF FramesInv, FramesOf
<1>2. QED
  BY <1>1, WorkSteps

\* A frame arrives once: when the server takes it, no copy is left behind.
LEMMA FramesStep ==
  Types /\ OutboxInv /\ ServedInv /\ FramesInv /\ RunningInv /\ [Next]_vars => FramesInv'
<1> SUFFICES ASSUME Types, OutboxInv, ServedInv, FramesInv, RunningInv, [Next]_vars, NEW c \in Clients
             PROVE  FramesOf(c)'
  BY DEF FramesInv
<1>1. outbox[c] \in Seq(0..MaxCalls) /\ up[c] \in Seq(0..MaxCalls) /\ FramesOf(c)
  BY DEF Types, ClientTypes, FramesInv
<1>2. ASSUME NEW i \in DOMAIN calls, Dispatch(i), calls[i].by = c
      PROVE  /\ i \in 0..MaxCalls /\ i # 0 /\ work[i] = "no" /\ UNCHANGED work
             /\ \A n \in DOMAIN up[c] : up[c][n] # i
             /\ \A n \in DOMAIN outbox[c] : outbox[c][n] # i
  <2>1. i \in Ids /\ i \in 0..MaxCalls /\ i # 0
    BY CallTyped DEF Types, Ids
  <2>2. Waiting(i) /\ UNCHANGED work
    BY <1>2 DEF Dispatch, server
  <2>3. Nowhere(i)
    BY <2>1, <2>2 DEF ServedInv, Unserved
  <2>4. QED
    BY <1>2, <2>1, <2>2, <2>3 DEF Nowhere, OutboxInv
<1>3. Once(outbox'[c])
  <2>1. CASE outbox'[c] \in {outbox[c], <<>>}
    BY <1>1, <2>1, OnceKept DEF FramesOf
  <2>2. ASSUME NEW i \in DOMAIN calls, Dispatch(i), calls[i].by = c, outbox'[c] = Append(outbox[c], i)
        PROVE  Once(outbox'[c])
    <3>1. /\ outbox[c] \in Seq(0..MaxCalls) /\ i \in 0..MaxCalls /\ Once(outbox[c])
          /\ \A n \in DOMAIN outbox[c] : outbox[c][n] # i
      BY <1>1, <1>2, <2>2 DEF FramesOf
    <3>2. Once(Append(outbox[c], i))
      BY <3>1, OnceKept
    <3>3. QED
      BY <2>2, <3>2
  <2>3. QED
    BY <2>1, <2>2, FramesMove
<1>4. ASSUME NEW i, i \in DOMAIN calls, calls[i].by = c
      PROVE  i \in DOMAIN calls' /\ calls'[i].by = c
  BY <1>4, CallsKept
<1>5. ASSUME NEW i, i \in DOMAIN calls, calls[i].by = c, work[i] = "no", ~TurnsTo(c, i)
      PROVE  work'[i] = "no"
  BY <1>5, StaysUntouched
<1>6. CASE up'[c] = up[c]
  <2>1. ASSUME NEW i PROVE ~TurnsTo(c, i)
    <3>1. up[c] # <<>> => Len(Tail(up[c])) # Len(up[c])
      BY <1>1
    <3>2. QED
      BY <1>6, <3>1 DEF TurnsTo
  <2>2. QED
    BY <1>1, <1>3, <1>4, <1>5, <1>6, <2>1 DEF FramesOf
<1>7. CASE up[c] # <<>> /\ up'[c] = Tail(up[c])
  <2>1. /\ Once(Tail(up[c]))
        /\ \A n \in DOMAIN Tail(up[c]) : Tail(up[c])[n] = 0 \/ Tail(up[c])[n] # Head(up[c])
    BY <1>1, <1>7, OnceKept DEF FramesOf
  <2>2. \A n \in DOMAIN Tail(up[c]) : \E m \in DOMAIN up[c] : Tail(up[c])[n] = up[c][m]
    BY <1>1, <1>7, WithinTail DEF Within
  <2>3. ASSUME NEW n \in DOMAIN Tail(up[c]), Tail(up[c])[n] # 0
        PROVE  ~TurnsTo(c, Tail(up[c])[n])
    BY <2>1, <2>3 DEF TurnsTo
  <2>4. ASSUME NEW n \in DOMAIN Tail(up[c]), Tail(up[c])[n] # 0
        PROVE  /\ Tail(up[c])[n] \in DOMAIN calls /\ calls[Tail(up[c])[n]].by = c
               /\ work[Tail(up[c])[n]] = "no"
    BY <1>1, <2>2, <2>4 DEF FramesOf
  <2>5. QED
    BY <1>3, <1>4, <1>5, <1>7, <2>1, <2>3, <2>4 DEF FramesOf
<1>8. CASE SocketOpens(c) /\ up'[c] = outbox[c]
  <2>1. UNCHANGED <<calls, work>> /\ link[c] = "connecting"
    BY <1>8 DEF SocketOpens
  <2>2. ASSUME NEW n \in DOMAIN outbox[c], outbox[c][n] # 0
        PROVE  /\ outbox[c][n] \in DOMAIN calls /\ calls[outbox[c][n]].by = c
               /\ work[outbox[c][n]] = "no"
    <3>1. PICK i \in DOMAIN calls : i = outbox[c][n] /\ calls[i].by = c
      BY <2>2 DEF OutboxInv
    <3>2. i \in Ids
      BY CallTyped DEF Types
    <3>3. Nowhere(i)
      BY <2>1, <3>1, <3>2 DEF ServedInv, Unserved
    <3>4. QED
      BY <3>1, <3>3 DEF Nowhere
  <2>3. QED
    BY <1>1, <1>3, <1>8, <2>1, <2>2 DEF FramesOf
<1>9. ASSUME NEW i \in DOMAIN calls, Dispatch(i), calls[i].by = c, up'[c] = Append(up[c], i)
      PROVE  FramesOf(c)'
  <2>1. /\ i \in 0..MaxCalls /\ i # 0 /\ work[i] = "no" /\ UNCHANGED work
        /\ \A n \in DOMAIN up[c] : up[c][n] # i
    BY <1>2, <1>9
  <2>2. Once(Append(up[c], i))
    BY <1>1, <2>1, OnceKept DEF FramesOf
  <2>3. \A n \in DOMAIN Append(up[c], i) :
          \/ Append(up[c], i)[n] = i
          \/ \E m \in DOMAIN up[c] : Append(up[c], i)[n] = up[c][m]
    <3>1. up[c] \in Seq(0..MaxCalls) /\ i \in 0..MaxCalls
      BY <1>1, <2>1
    <3>2. QED
      BY <3>1, AppendBrings
  <2>4. ASSUME NEW n \in DOMAIN Append(up[c], i), Append(up[c], i)[n] # 0
        PROVE  /\ Append(up[c], i)[n] \in DOMAIN calls /\ calls[Append(up[c], i)[n]].by = c
               /\ work[Append(up[c], i)[n]] = "no"
    BY <1>1, <1>9, <2>1, <2>3, <2>4 DEF FramesOf
  <2>5. QED
    BY <1>3, <1>4, <1>9, <2>1, <2>2, <2>4 DEF FramesOf
<1>10. QED
  BY <1>6, <1>7, <1>8, <1>9, FramesMove

\* A session runs one prompt, and the prompt runs on that session only.
LEMMA RunningStep ==
  Types /\ FramesInv /\ RunningInv /\ [Next]_vars => RunningInv'
<1> SUFFICES ASSUME Types, FramesInv, RunningInv, [Next]_vars, NEW s \in Sessions, running'[s] # 0
             PROVE  /\ running'[s] \in DOMAIN calls' /\ calls'[running'[s]].on = s
                    /\ work'[running'[s]] = "running"
  BY DEF RunningInv
<1> USE DEF Types
<1>1. DOMAIN work = DOMAIN calls /\ running \in [Sessions -> 0..MaxCalls]
  BY DEF ClientTypes, ServerTypes
<1>2. \A i \in DOMAIN calls : i \in DOMAIN calls' /\ calls'[i].on = calls[i].on
  BY CallsKept
<1>3. CASE running'[s] = running[s]
  <2>1. PICK i \in DOMAIN calls : i = running[s] /\ calls[i].on = s /\ work[i] = "running"
    BY <1>3 DEF RunningInv
  <2>2. ASSUME NEW r \in Sessions, i = running[r], RunEnds(r)
        PROVE  FALSE
    <3>1. r = s
      BY <2>1, <2>2, CallTyped DEF RunningInv, Ids
    <3>2. running' = [running EXCEPT ![s] = 0]
      BY <2>2, <3>1 DEF RunEnds
    <3>3. QED
      BY <1>1, <3>2
  <2>3. work'[i] = "running"
    BY <2>1, <2>2, WorkSteps
  <2>4. QED
    BY <1>2, <1>3, <2>1, <2>3
<1>4. ASSUME NEW c \in Clients, ServePrompt(c), running'[s] # running[s]
      PROVE  /\ running'[s] \in DOMAIN calls' /\ calls'[running'[s]].on = s
             /\ work'[running'[s]] = "running"
  <2>1. up[c] # <<>> /\ Head(up[c]) # 0
    BY <1>4 DEF ServePrompt, Served, Arrived
  <2>2. PICK i \in DOMAIN calls : i = Head(up[c])
    <3>1. 1 \in DOMAIN up[c] /\ Head(up[c]) = up[c][1]
      BY <2>1 DEF ClientTypes
    <3>2. QED
      BY <2>1, <3>1 DEF FramesInv, FramesOf
  <2>3. running' = [running EXCEPT ![calls[i].on] = i] /\ work' = [work EXCEPT ![i] = "running"]
    BY <1>4, <2>2 DEF ServePrompt
  <2>4. s = calls[i].on /\ running'[s] = i /\ work'[i] = "running"
    BY <1>1, <1>4, <2>3
  <2>5. QED
    BY <1>2, <2>4
<1>5. ASSUME NEW r \in Sessions, RunEnds(r), running'[s] # running[s]
      PROVE  FALSE
  BY <1>1, <1>5 DEF RunEnds
<1>6. CASE ~(\E c \in Clients : ServePrompt(c)) /\ ~(\E r \in Sessions : RunEnds(r))
  <2>1. UNCHANGED running
    BY <1>6 DEF Next, ClientStep, SocketStep, ServerStep, CallStep, HostStep, Call, Deadline, Close,
       SeeClose, Receive, SocketOpens, SocketRefused, Lose, ServerSeesClose, Authenticate, ServeOpen,
       ServeDelete, Dispatch, FailWaiting, Attach, ReportMissing, DeleteReaches, Detach, OpeningReads,
       OpeningRegisters, Emit, Tick, vars, host
  <2>2. QED
    BY <1>3, <2>1
<1>7. QED
  BY <1>3, <1>4, <1>5, <1>6

-----------------------------------------------------------------------------
(* Whose answer it is. *)

\* A connection that was turned away stays so.
LEMMA TurnedAwayStays ==
  ASSUME Types, [Next]_vars, NEW c \in Clients, TurnedAway(c)
  PROVE  TurnedAway(c)'
<1>1. link \in [Clients -> Links] /\ authed \in [Clients -> BOOLEAN] /\ link[c] \in {"draining", "broken"}
  BY DEF Types, WireTypes, ServerTypes, TurnedAway
<1>2. link'[c] \in {"draining", "broken"}
  <2>1. CASE Says \/ Grants
    <3>1. PICK frame \in Frames : \E essential, to : Send(to, frame, essential)
      BY <2>1, MessagesTyped DEF Says, Grants
    <3>2. link'[c] \in {link[c], "broken"}
      BY <3>1, SendOne
    <3>3. QED
      BY <1>1, <3>2
  <2>2. CASE Relinks
    <3>1. PICK d \in Clients, l \in Links \ {"connecting"} :
            /\ link' = [link EXCEPT ![d] = l]
            /\ l = "open" => SocketOpens(d)
            /\ l = "closing" => link[d] \in {"open", "closing"}
      BY <2>2 DEF Relinks
    <3>2. CASE d = c
      BY <1>1, <3>1, <3>2 DEF SocketOpens, Links
    <3>3. CASE d # c
      BY <1>1, <3>1, <3>3
    <3>4. QED
      BY <3>2, <3>3
  <2>3. CASE TurnsAway \/ Tick \/ UNCHANGED <<wire, clock>> \/ \E d \in Clients : Receive(d)
    BY <1>1, <2>3 DEF TurnsAway, Tick, wire, Receive
  <2>4. QED
    BY <2>1, <2>2, <2>3, WireSteps
<1>3. authed'[c] = authed[c]
  <2>1. CASE \E d \in Clients : Authenticate(d)
    BY <1>1, <2>1 DEF Authenticate, Arrived
  <2>2. CASE \E d \in Clients : SocketOpens(d)
    BY <1>1, <2>2 DEF SocketOpens
  <2>3. CASE ~(\E d \in Clients : Authenticate(d) \/ SocketOpens(d))
    BY <2>3 DEF Next, ClientStep, SocketStep, ServerStep, CallStep, HostStep, Call, Deadline, Close,
       SeeClose, Receive, SocketRefused, Lose, ServerSeesClose, ServeOpen, ServePrompt,
       ServeDelete, Dispatch, FailWaiting, Attach, ReportMissing, DeleteReaches, Detach, OpeningReads,
       OpeningRegisters, Emit, RunEnds, Tick, vars, server
  <2>4. QED
    BY <2>1, <2>2, <2>3
<1>4. QED
  BY <1>2, <1>3 DEF TurnedAway

\* ... and so does what the server made of a call.
LEMMA VerdictStays ==
  ASSUME Types, FramesInv, RunningInv, [Next]_vars, NEW c \in Clients, NEW i \in DOMAIN calls, NEW ok,
         Verdict(i, ok, c)
  PROVE  Verdict(i, ok, c)'
<1>1. work[i] \in {"done", "failed"} => work'[i] = work[i]
  BY WorkSteps
<1>2. TurnedAway(c) => TurnedAway(c)'
  BY TurnedAwayStays
<1>3. QED
  BY <1>1, <1>2 DEF Verdict

\* A reply says what it makes of the call.
LEMMA ReplySays ==
  ASSUME Types, NEW i \in DOMAIN calls, NEW ok \in BOOLEAN, Reply(i, ok)
  PROVE  /\ Send({calls[i].by}, Answer(i, ok), TRUE)
         /\ Answer(i, ok) \in Frames /\ Answer(i, ok).id = i /\ Answer(i, ok).ok = ok
         /\ work'[i] = IF ok THEN "done" ELSE "failed"
<1>1. i \in DOMAIN work /\ i \in 0..MaxCalls
  BY CallTyped DEF Types, ClientTypes, ServerTypes
<1>2. work' = [work EXCEPT ![i] = IF ok THEN "done" ELSE "failed"]
  BY DEF Reply
<1>3. QED
  BY <1>1, <1>2, MessagesTyped DEF Reply, Answer

\* The frame is about nobody's call, or about call i, which it decides.
Decides(frame) ==
  frame.id # 0 => /\ frame.id \in DOMAIN calls
                  /\ work'[frame.id] = IF frame.ok THEN "done" ELSE "failed"

\* #handleAuthFrame turns client c away.
TurnsDown(c) ==
  /\ ~authed[c] /\ authed' = authed /\ up[c] # <<>>
  /\ link[c] \in {"open", "closing"} /\ link' = [link EXCEPT ![c] = "draining"]
  /\ down' = [down EXCEPT ![c] = Append(@, Answer(Head(up[c]), FALSE))]

\* Whatever the server sends, it sends after it is decided.
LEMMA SaysTrue ==
  ASSUME Types, FramesInv, RunningInv, [Next]_vars
  PROVE  \/ UNCHANGED <<wire, clock>> \/ Relinks \/ Tick
         \/ \E c \in Clients : Receive(c) \/ TurnsDown(c)
         \/ \E frame \in Frames : \E essential, to : Send(to, frame, essential) /\ Decides(frame)
<1> USE DEF Types
<1>1. ASSUME NEW i \in DOMAIN calls, NEW ok \in BOOLEAN, Reply(i, ok)
      PROVE  \E frame \in Frames : \E essential, to : Send(to, frame, essential) /\ Decides(frame)
  <2> DEFINE frame == Answer(i, ok)
  <2>1. /\ Send({calls[i].by}, frame, TRUE) /\ frame \in Frames /\ frame.id = i /\ frame.ok = ok
        /\ work'[i] = IF ok THEN "done" ELSE "failed"
    BY <1>1, ReplySays
  <2> HIDE DEF frame
  <2>2. Decides(frame)
    BY <2>1 DEF Decides
  <2>3. QED
    BY <2>1, <2>2
<1>2. ASSUME NEW to, NEW essential, Send(to, Event, essential)
      PROVE  \E frame \in Frames : \E e, t : Send(t, frame, e) /\ Decides(frame)
  BY <1>2, MessagesTyped DEF Decides, Event
<1>3. ASSUME NEW to, Send(to, Answer(0, TRUE), TRUE)
      PROVE  \E frame \in Frames : \E e, t : Send(t, frame, e) /\ Decides(frame)
  BY <1>3, MessagesTyped DEF Decides, Answer
<1>4. \A c \in Clients : Served(c, "prompt") \/ Served(c, "delete") =>
        Head(up[c]) \in DOMAIN calls
  <2>1. ASSUME NEW c \in Clients, Served(c, "prompt") \/ Served(c, "delete")
        PROVE  Head(up[c]) \in DOMAIN calls
    <3>1. up[c] # <<>> /\ Head(up[c]) # 0
      BY <2>1 DEF Served, Arrived
    <3>2. 1 \in DOMAIN up[c] /\ Head(up[c]) = up[c][1]
      BY <3>1 DEF ClientTypes
    <3>3. QED
      BY <3>1, <3>2 DEF FramesInv, FramesOf
  <2>2. QED
    BY <2>1
<1>5. CASE ~(Says \/ Grants \/ TurnsAway)
  BY <1>5, WireSteps
<1>6. CASE (Says \/ Grants \/ TurnsAway) /\ UNCHANGED wire
  BY <1>6 DEF Says, Grants, TurnsAway, wire
<1>7. ASSUME ~UNCHANGED wire, NEW c \in Clients, ServerStep(c)
      PROVE  \/ TurnsDown(c)
             \/ \E frame \in Frames : \E essential, to : Send(to, frame, essential) /\ Decides(frame)
  <2>1. CASE Authenticate(c)
    <3>1. CASE Head(up[c]) = 0 /\ creds[c] = "right"
      BY <1>3, <2>1, <3>1 DEF Authenticate
    <3>2. CASE ~(Head(up[c]) = 0 /\ creds[c] = "right")
      BY <2>1, <3>2 DEF Authenticate, Arrived, TurnsDown
    <3>3. QED
      BY <3>1, <3>2
  <2>2. CASE ServeOpen(c)
    BY <1>7, <2>2 DEF ServeOpen, wire
  <2>3. CASE ServePrompt(c)
    BY <1>1, <1>4, <1>7, <2>3 DEF ServePrompt, wire
  <2>4. CASE ServeDelete(c)
    BY <1>1, <1>4, <1>7, <2>4 DEF ServeDelete, wire
  <2>5. QED
    BY <1>7, <2>1, <2>2, <2>3, <2>4 DEF ServerStep
<1>8. ASSUME ~UNCHANGED wire, NEW i \in DOMAIN calls, CallStep(i)
      PROVE  \E frame \in Frames : \E essential, to : Send(to, frame, essential) /\ Decides(frame)
  <2>1. CASE Dispatch(i) \/ FailWaiting(i)
    BY <1>8, <2>1 DEF Dispatch, FailWaiting, wire
  <2>2. CASE Attach(i)
    <3>1. Reply(i, calls[i].on \in live) /\ (calls[i].on \in live) \in BOOLEAN
      BY <2>2 DEF Attach
    <3>2. QED
      BY <1>1, <3>1
  <2>3. CASE ReportMissing(i) \/ Detach(i)
    BY <1>1, <2>3 DEF ReportMissing, Detach
  <2>4. CASE DeleteReaches(i)
    BY <1>2, <1>8, <2>4 DEF DeleteReaches, wire
  <2>5. QED
    BY <1>8, <2>1, <2>2, <2>3, <2>4 DEF CallStep
<1>9. ASSUME ~UNCHANGED wire, NEW s \in Sessions, HostStep(s)
      PROVE  \E frame \in Frames : \E essential, to : Send(to, frame, essential) /\ Decides(frame)
  <2>1. CASE OpeningReads(s) \/ OpeningRegisters(s)
    BY <1>9, <2>1 DEF OpeningReads, OpeningRegisters, wire
  <2>2. CASE Emit(s)
    BY <1>2, <2>2 DEF Emit
  <2>3. CASE RunEnds(s)
    <3>1. running[s] \in DOMAIN calls /\ Reply(running[s], TRUE)
      BY <2>3 DEF RunEnds, Busy, RunningInv
    <3>2. QED
      BY <1>1, <3>1
  <2>4. QED
    BY <1>9, <2>1, <2>2, <2>3 DEF HostStep
<1>10. ASSUME NEW c \in Clients, ClientStep(c) \/ SocketStep(c)
       PROVE  Relinks \/ UNCHANGED <<wire, clock>> \/ \E d \in Clients : Receive(d)
  <2>1. SUFFICES ASSUME ~Receive(c) PROVE Relinks \/ UNCHANGED <<wire, clock>>
    OBVIOUS
  <2>2. CASE Close(c)
    <3>1. link[c] \in Links /\ link \in [Clients -> Links]
      BY DEF WireTypes
    <3>2. CASE link[c] \in {"open", "connecting"}
      BY <2>2, <3>1, <3>2 DEF Close, Relinks, Links
    <3>3. CASE link[c] \notin {"open", "connecting"}
      BY <2>2, <3>1, <3>3 DEF Close, wire
    <3>4. QED
      BY <3>2, <3>3
  <2>3. CASE SeeClose(c) \/ SocketOpens(c) \/ SocketRefused(c) \/ Lose(c)
    BY <2>3 DEF SeeClose, SocketOpens, SocketRefused, Lose, Relinks, Links
  <2>4. CASE ServerSeesClose(c)
    BY <2>4 DEF ServerSeesClose, Relinks, Links
  <2>5. CASE (\E i : Deadline(c, i)) \/ \E method, s : Call(c, method, s)
    BY <2>5 DEF Deadline, Call
  <2>6. QED
    BY <1>10, <2>1, <2>2, <2>3, <2>4, <2>5 DEF ClientStep, SocketStep
<1>11. CASE Tick \/ UNCHANGED vars
  BY <1>11 DEF vars, wire
<1>12. QED
  BY <1>5, <1>6, <1>7, <1>8, <1>9, <1>10, <1>11 DEF Next

\* A frame on its way to a client tells the truth.
Truthful(f, c) == f.id # 0 => f.id \in DOMAIN calls /\ Verdict(f.id, f.ok, c)

LEMMA StaysTruthful ==
  ASSUME Types, FramesInv, RunningInv, [Next]_vars, NEW c \in Clients, NEW f, Truthful(f, c)
  PROVE  Truthful(f, c)'
<1>1. CASE f.id = 0
  BY <1>1 DEF Truthful
<1>2. CASE f.id # 0
  <2>1. PICK i \in DOMAIN calls : i = f.id
    BY <1>2 DEF Truthful
  <2>2. PICK ok : ok = f.ok
    OBVIOUS
  <2>3. Verdict(i, ok, c)'
    BY <1>2, <2>1, <2>2, VerdictStays DEF Truthful
  <2>4. i \in DOMAIN calls'
    BY CallsKept
  <2>5. QED
    BY <2>1, <2>2, <2>3, <2>4 DEF Truthful, Verdict, TurnedAway
<1>3. QED
  BY <1>1, <1>2

LEMMA VerdictsStep ==
  Types /\ FramesInv /\ RunningInv /\ VerdictsInv /\ [Next]_vars => VerdictsInv'
<1> SUFFICES ASSUME Types, FramesInv, RunningInv, VerdictsInv, [Next]_vars, NEW c \in Clients,
                    NEW g, \E n \in DOMAIN down'[c] : g = down'[c][n]
             PROVE  Truthful(g, c)'
  BY DEF VerdictsInv, Truthful, Verdict, TurnedAway
<1>1. down[c] \in Seq(Frames) /\ down \in [Clients -> Seq(Frames)] /\ DOMAIN calls \subseteq DOMAIN calls'
  BY CallsKept DEF Types, WireTypes
<1>2. PICK n \in DOMAIN down'[c] : g = down'[c][n]
  OBVIOUS
<1>3. CASE \E m \in DOMAIN down[c] : g = down[c][m]
  <2>1. Truthful(g, c)
    BY <1>3 DEF VerdictsInv, Truthful
  <2>2. QED
    BY <2>1, StaysTruthful
<1>4. ASSUME NEW f \in Frames, down'[c] = Append(down[c], f), Truthful(f, c)'
      PROVE  Truthful(g, c)'
  <2>1. \A m \in DOMAIN Append(down[c], f) :
          Append(down[c], f)[m] = f \/ \E k \in DOMAIN down[c] : Append(down[c], f)[m] = down[c][k]
    BY <1>1, AppendBrings
  <2>2. CASE g = f
    BY <1>4, <2>2 DEF Truthful, Verdict, TurnedAway
  <2>3. QED
    BY <1>2, <1>3, <1>4, <2>1, <2>2
<1>5. ASSUME UNCHANGED down
      PROVE  Truthful(g, c)'
  BY <1>2, <1>3, <1>5
<1>6. ASSUME NEW f \in Frames, NEW essential, NEW to, Send(to, f, essential), Decides(f)
      PROVE  Truthful(g, c)'
  <2>1. down'[c] = down[c] \/ down'[c] = Append(down[c], f)
    BY <1>6, SendOne
  <2>2. Truthful(f, c)'
    BY <1>1, <1>6 DEF Decides, Truthful, Verdict
  <2>3. QED
    BY <1>2, <1>3, <1>4, <1>6, <2>1, <2>2
<1>7. ASSUME NEW d \in Clients, TurnsDown(d)
      PROVE  Truthful(g, c)'
  <2>1. PICK j : j = Head(up[d])
    OBVIOUS
  <2>2. /\ d # c => down'[c] = down[c]
        /\ d = c => down'[c] = Append(down[c], Answer(j, FALSE))
    BY <1>1, <1>7, <2>1 DEF TurnsDown
  <2>3. 1 \in DOMAIN up[d] /\ j = up[d][1] /\ j \in 0..MaxCalls
    <3>1. up[d] \in Seq(0..MaxCalls) /\ up[d] # <<>>
      BY <1>7 DEF TurnsDown, Types, ClientTypes
    <3>2. 1 \in DOMAIN up[d]
      BY <3>1
    <3>3. Head(up[d]) = up[d][1]
      BY <3>1
    <3>4. up[d][1] \in 0..MaxCalls
      <4>1. 1 \in 1..Len(up[d])
        BY <3>1
      <4>2. QED
        BY <3>1, <4>1, ElementOfSeq
    <3>5. QED
      BY <2>1, <3>2, <3>3, <3>4
  <2>4. Answer(j, FALSE) \in Frames /\ Answer(j, FALSE).id = j /\ Answer(j, FALSE).ok = FALSE
    BY <2>3, MessagesTyped DEF Answer
  <2>5. ASSUME d = c PROVE Truthful(Answer(j, FALSE), c)'
    <3>1. ~authed'[c] /\ link'[c] = "draining"
      BY <1>7, <2>5 DEF TurnsDown, Types, WireTypes
    <3>2. j # 0 => j \in DOMAIN calls'
      BY <1>1, <2>3 DEF FramesInv, FramesOf
    <3>3. QED
      BY <2>4, <3>1, <3>2 DEF Truthful, Verdict, TurnedAway
  <2>6. QED
    BY <1>2, <1>3, <1>4, <2>2, <2>4, <2>5
<1>8. ASSUME NEW d \in Clients, Receive(d)
      PROVE  Truthful(g, c)'
  <2>1. down[d] # <<>> /\ down' = [down EXCEPT ![d] = Tail(@)]
    BY <1>8 DEF Receive
  <2>2. down'[c] = down[c] \/ (down[c] # <<>> /\ down'[c] = Tail(down[c]))
    BY <1>1, <2>1
  <2>3. Within(down'[c], down[c])
    BY <1>1, <2>2, WithinTail
  <2>4. QED
    BY <1>2, <1>3, <2>3 DEF Within
<1>9. CASE Relinks \/ Tick \/ UNCHANGED <<wire, clock>>
  BY <1>5, <1>9 DEF Relinks, Tick, wire
<1>10. QED
  BY <1>6, <1>7, <1>8, <1>9, SaysTrue

\* #dispatch enters a call of its own client, and only it enters any.
LEMMA EntriesStep == Types /\ EntriesInv /\ [Next]_vars => EntriesInv'
<1> SUFFICES ASSUME Types, EntriesInv, [Next]_vars, NEW c \in Clients, NEW i \in pending'[c] \ {0}
             PROVE  i \in DOMAIN calls' /\ calls'[i].by = c
  BY DEF EntriesInv
<1>1. pending \in [Clients -> SUBSET (0..MaxCalls)]
  BY DEF Types, ClientTypes
<1>2. ASSUME pending'[c] \subseteq pending[c]
      PROVE  i \in DOMAIN calls' /\ calls'[i].by = c
  BY <1>2, CallsKept DEF EntriesInv
<1>3. ASSUME NEW d \in Clients, ClientStep(d)
      PROVE  pending'[c] \subseteq pending[c]
  <2>1. CASE \E method \in Methods, s \in Sessions : Call(d, method, s)
    BY <2>1 DEF Call
  <2>2. CASE ~\E method \in Methods, s \in Sessions : Call(d, method, s)
    <3>1. PICK ids : pending' = [pending EXCEPT ![d] = @ \ ids]
      BY <1>3, <2>2, ClientSettles DEF Types
    <3>2. QED
      BY <1>1, <3>1
  <2>3. QED
    BY <2>1, <2>2
<1>4. ASSUME NEW j \in DOMAIN calls, Dispatch(j)
      PROVE  i \in DOMAIN calls' /\ calls'[i].by = c
  <2>1. CASE closed[calls[j].by]
    BY <1>2, <1>4, <2>1 DEF Dispatch
  <2>2. CASE ~closed[calls[j].by]
    <3>1. pending' = [pending EXCEPT ![calls[j].by] = @ \cup {j}]
      BY <1>4, <2>2, Dispatched
    <3>2. i \in pending[c] \/ (i = j /\ calls[j].by = c)
      BY <1>1, <3>1
    <3>3. QED
      BY <3>2, CallsKept DEF EntriesInv
  <2>3. QED
    BY <2>1, <2>2
<1>5. CASE UNCHANGED pending
  BY <1>2, <1>5
<1>6. CASE \/ Tick \/ UNCHANGED vars
           \/ \E d \in Clients : SocketStep(d) \/ ServerStep(d)
           \/ \E j \in DOMAIN calls : FailWaiting(j) \/ Attach(j) \/ ReportMissing(j) \/ DeleteReaches(j) \/ Detach(j)
           \/ \E s \in Sessions : HostStep(s)
  BY <1>5, <1>6 DEF Tick, vars, client, SocketStep, SocketOpens, SocketRefused, Lose, ServerSeesClose,
     ServerStep, Authenticate, ServeOpen, ServePrompt, ServeDelete, FailWaiting, Attach, ReportMissing,
     DeleteReaches, Detach, HostStep, OpeningReads, OpeningRegisters, Emit, RunEnds
<1>7. QED
  BY <1>2, <1>3, <1>4, <1>6 DEF Next, CallStep

\* Client c takes an answer to call i off the wire.
Hears(c, i, how) ==
  /\ down[c] # <<>> /\ Head(down[c]).id = i /\ i \in pending[c]
  /\ how = IF Head(down[c]).ok THEN "resolved" ELSE "refused"

\* How a call ends: with an answer to it, or with what its handshake came to.
LEMMA HowSteps ==
  ASSUME Types, [Next]_vars, NEW i \in DOMAIN calls'
  PROVE  \/ i \notin DOMAIN calls /\ calls'[i].how = "none"
         \/ i \in DOMAIN calls /\ calls'[i].how = calls[i].how
         \/ calls'[i].how \in {"timeout", "closed"}
         \/ i \in DOMAIN calls /\ calls'[i].how = handshake[calls[i].by]
         \/ i \in DOMAIN calls /\ \E c \in Clients : Hears(c, i, calls'[i].how)
<1> USE DEF Types
<1>1. ASSUME NEW ids, NEW how \in {"resolved", "refused", "timeout", "closed"}, calls' = SettleAll(ids, how)
      PROVE  i \in DOMAIN calls /\ ((i \in ids /\ calls'[i].how = how) \/ calls'[i].how = calls[i].how)
  BY <1>1, SettleAllTyped
<1>2. ASSUME NEW c \in Clients, NEW method \in Methods, NEW s \in Sessions, Call(c, method, s)
      PROVE  \/ i \notin DOMAIN calls /\ calls'[i].how = "none"
             \/ i \in DOMAIN calls /\ calls'[i].how = calls[i].how
  <2> DEFINE new == [by |-> c, method |-> method, on |-> s, at |-> "waiting", how |-> "none"]
  <2>1. /\ calls' = Append(calls, new) /\ calls \in Seq(CallRecords) /\ Len(calls) \in Nat
        /\ DOMAIN calls = 1..Len(calls) /\ new.how = "none"
    BY <1>2 DEF Call, ClientTypes
  <2> HIDE DEF new
  <2>2. /\ DOMAIN calls' = 1..Len(calls) + 1 /\ calls'[Len(calls) + 1] = new
        /\ \A j \in DOMAIN calls : calls'[j] = calls[j]
    BY <2>1
  <2>3. i \in DOMAIN calls \/ i = Len(calls) + 1
    BY <2>1, <2>2
  <2>4. Len(calls) + 1 \notin DOMAIN calls
    BY <2>1
  <2>5. QED
    BY <2>1, <2>2, <2>3, <2>4
<1>3. ASSUME NEW c \in Clients, Receive(c)
      PROVE  i \in DOMAIN calls /\ (calls'[i].how = calls[i].how \/ Hears(c, i, calls'[i].how))
  <2> DEFINE frame == Head(down[c])
             whose == IF frame.kind = "answer" THEN Addressed(c, frame) ELSE {}
             how   == IF frame.ok THEN "resolved" ELSE "refused"
  <2>1. down[c] # <<>> /\ calls' = SettleAll(whose, how) /\ how \in {"resolved", "refused"}
    BY <1>3 DEF Receive
  <2>2. i \in whose => i \in pending[c] /\ frame.id = i
    BY DEF Addressed
  <2>3. i \in DOMAIN calls /\ ((i \in whose /\ calls'[i].how = how) \/ calls'[i].how = calls[i].how)
    <3> HIDE DEF whose, how
    <3>1. QED
      BY <1>1, <2>1
  <2>4. QED
    BY <2>1, <2>2, <2>3 DEF Hears
<1>4. ASSUME NEW j \in DOMAIN calls, Dispatch(j) \/ FailWaiting(j)
      PROVE  /\ i \in DOMAIN calls
             /\ calls'[i].how \in {calls[i].how, "closed", handshake[calls[i].by]}
  <2>1. CASE calls' = [calls EXCEPT ![j].at = "pending"]
    <3>1. \A k \in DOMAIN calls : calls[k] \in CallRecords
      BY DEF ClientTypes
    <3>2. QED
      BY <2>1, <3>1 DEF CallRecords
  <2>2. CASE calls' = SettleAll({j}, "closed")
    BY <1>1, <2>2
  <2>3. CASE FailWaiting(j)
    <3>1. PICK how \in {"timeout", "closed", "refused"} :
            calls' = SettleAll({j}, how) /\ how = handshake[calls[j].by]
      BY <2>3 DEF FailWaiting
    <3>2. QED
      BY <1>1, <3>1
  <2>4. QED
    BY <1>4, <2>1, <2>2, <2>3 DEF Dispatch
<1>5. ASSUME NEW c \in Clients, Close(c) \/ SeeClose(c) \/ \E j : Deadline(c, j)
      PROVE  i \in DOMAIN calls /\ (calls'[i].how = calls[i].how \/ calls'[i].how \in {"timeout", "closed"})
  <2>1. \E ids : \E how \in {"timeout", "closed"} : calls' = SettleAll(ids, how)
    BY <1>5 DEF Close, SeeClose, Deadline, Rejected
  <2>2. QED
    BY <1>1, <2>1
<1>6. CASE UNCHANGED calls
  BY <1>6
<1>7. CASE \/ Tick \/ UNCHANGED vars
           \/ \E c \in Clients : SocketStep(c) \/ ServerStep(c)
           \/ \E j \in DOMAIN calls : Attach(j) \/ ReportMissing(j) \/ DeleteReaches(j) \/ Detach(j)
           \/ \E s \in Sessions : HostStep(s)
  BY <1>6, <1>7 DEF Tick, vars, client, SocketStep, SocketOpens, SocketRefused, Lose, ServerSeesClose,
     ServerStep, Authenticate, ServeOpen, ServePrompt, ServeDelete, Attach, ReportMissing, DeleteReaches,
     Detach, HostStep, OpeningReads, OpeningRegisters, Emit, RunEnds
<1>8. CASE \E c \in Clients, method \in Methods, s \in Sessions : Call(c, method, s)
  BY <1>2, <1>8
<1>9. CASE \E c \in Clients : Receive(c)
  BY <1>3, <1>9
<1>10. CASE \E j \in DOMAIN calls : Dispatch(j) \/ FailWaiting(j)
  BY <1>4, <1>10
<1>11. CASE \E c \in Clients : Close(c) \/ SeeClose(c) \/ \E j : Deadline(c, j)
  BY <1>5, <1>11
<1>12. QED
  BY <1>7, <1>8, <1>9, <1>10, <1>11 DEF Next, ClientStep, CallStep

\* A handshake that was refused stays refused.
LEMMA RefusedStays ==
  ASSUME Types, [Next]_vars, NEW c \in Clients, handshake[c] = "refused"
  PROVE  handshake'[c] = "refused"
<1>1. \A d \in Clients : \A ids, how : HandshakeAfter(d, ids, how)[c] = "refused"
  BY DEF HandshakeAfter, Types, ClientTypes
<1>2. \/ UNCHANGED handshake
      \/ \E d \in Clients : \E ids, how : handshake' = HandshakeAfter(d, ids, how)
  <2>1. ASSUME NEW d \in Clients, ClientStep(d)
        PROVE  UNCHANGED handshake \/ \E ids, how : handshake' = HandshakeAfter(d, ids, how)
    BY <2>1 DEF ClientStep, Call, Deadline, Close, SeeClose, Receive, Rejected
  <2>2. CASE ~\E d \in Clients : ClientStep(d)
    BY <2>2 DEF Next, SocketStep, ServerStep, CallStep, HostStep, Tick, vars, client,
       SocketOpens, SocketRefused, Lose, ServerSeesClose, Authenticate, ServeOpen, ServePrompt,
       ServeDelete, Dispatch, FailWaiting, Attach, ReportMissing, DeleteReaches, Detach, OpeningReads,
       OpeningRegisters, Emit, RunEnds
  <2>3. QED
    BY <2>1, <2>2
<1>3. QED
  BY <1>1, <1>2

\* A caller hears of its own call, and the truth of it.
LEMMA HeardStep ==
  Types /\ FramesInv /\ RunningInv /\ VerdictsInv /\ EntriesInv /\ HeardInv /\ [Next]_vars => HeardInv'
<1> SUFFICES ASSUME Types, FramesInv, RunningInv, VerdictsInv, EntriesInv, HeardInv, [Next]_vars,
                    NEW i \in DOMAIN calls', NEW c, c = calls'[i].by,
                    NEW ok \in BOOLEAN, calls'[i].how = IF ok THEN "resolved" ELSE "refused",
                    ok \/ handshake'[c] # "refused"
             PROVE  Verdict(i, ok, c)'
  BY DEF HeardInv, Verdict, TurnedAway
<1>1. CASE i \notin DOMAIN calls
  BY <1>1, HowSteps, CallsKept DEF Hears
<1>2. CASE i \in DOMAIN calls
  <2>1. c = calls[i].by /\ c \in Clients /\ i # 0
    BY <1>2, CallsKept, CallTyped DEF Types, Ids
  <2>2. handshake[c] = "refused" => handshake'[c] = "refused"
    BY <2>1, RefusedStays
  <2>3. Verdict(i, ok, c)
    <3>1. CASE calls'[i].how = calls[i].how
      BY <1>2, <2>1, <2>2, <3>1 DEF HeardInv
    <3>2. CASE calls'[i].how = handshake[calls[i].by]
      <4>1. handshake[c] # "resolved"
        BY <2>1 DEF Types, ClientTypes
      <4>2. QED
        BY <2>1, <2>2, <3>2, <4>1
    <3>3. ASSUME NEW d \in Clients, Hears(d, i, calls'[i].how)
          PROVE  Verdict(i, ok, c)
      <4>1. d = c
        BY <2>1, <3>3 DEF Hears, EntriesInv
      <4>2. 1 \in DOMAIN down[c] /\ Head(down[c]) = down[c][1]
        BY <2>1, <3>3, <4>1 DEF Hears, Types, WireTypes
      <4>3. down[c][1] \in Frames
        <5>1. down[c] \in Seq(Frames) /\ 1 \in 1..Len(down[c])
          BY <2>1, <4>2 DEF Types, WireTypes
        <5>2. QED
          BY <5>1, ElementOfSeq
      <4>4. down[c][1].id = i /\ down[c][1].ok = ok
        <5>1. down[c][1].ok \in BOOLEAN
          <6>1. PICK f \in Frames : f = down[c][1]
            BY <4>3
          <6>2. CASE f = Event
            BY <6>1, <6>2 DEF Event
          <6>3. CASE f \in [kind : {"answer"}, id : 0..MaxCalls, ok : BOOLEAN]
            <7>1. f.ok \in BOOLEAN
              BY <6>3
            <7>2. QED
              BY <6>1, <7>1
          <6>4. QED
            BY <6>1, <6>2, <6>3 DEF Frames
        <5>2. /\ down[c][1].id = i
              /\ (IF ok THEN "resolved" ELSE "refused") = IF down[c][1].ok THEN "resolved" ELSE "refused"
          BY <3>3, <4>1, <4>2 DEF Hears
        <5>3. QED
          BY <5>1, <5>2
      <4>5. QED
        BY <2>1, <4>2, <4>4 DEF VerdictsInv
    <3>4. QED
      BY <1>2, <3>1, <3>2, <3>3, HowSteps
  <2>4. QED
    BY <1>2, <2>1, <2>3, VerdictStays
<1>3. QED
  BY <1>1, <1>2

-----------------------------------------------------------------------------
(* The server's record of who observes what. *)

\* A record is added where the session is live.
LEMMA ObservedSteps ==
  ASSUME Types, [Next]_vars, NEW c \in Clients
  PROVE  \/ observed'[c] \subseteq observed[c]
         \/ \E i \in DOMAIN calls :
              /\ work[i] = "attach" /\ calls[i].by = c /\ calls[i].on \in live /\ UNCHANGED live
              /\ observed'[c] \subseteq observed[c] \cup {calls[i].on}
<1>1. observed \in [Clients -> SUBSET Sessions]
  BY DEF Types, ServerTypes
<1>2. ASSUME NEW i \in DOMAIN calls, Attach(i)
      PROVE  \/ observed'[c] \subseteq observed[c]
             \/ /\ work[i] = "attach" /\ calls[i].by = c /\ calls[i].on \in live /\ UNCHANGED live
                /\ observed'[c] \subseteq observed[c] \cup {calls[i].on}
  BY <1>1, <1>2 DEF Attach
<1>3. ASSUME NEW i \in DOMAIN calls, Detach(i)
      PROVE  observed'[c] \subseteq observed[c]
  BY <1>3 DEF Detach
<1>4. ASSUME NEW d \in Clients, ServerSeesClose(d)
      PROVE  observed'[c] \subseteq observed[c]
  BY <1>1, <1>4 DEF ServerSeesClose
<1>5. CASE UNCHANGED observed
  BY <1>5
<1>6. CASE \/ Tick \/ UNCHANGED vars
           \/ \E d \in Clients : ClientStep(d) \/ SocketOpens(d) \/ SocketRefused(d) \/ Lose(d) \/ ServerStep(d)
           \/ \E i \in DOMAIN calls : Dispatch(i) \/ FailWaiting(i) \/ ReportMissing(i) \/ DeleteReaches(i)
           \/ \E s \in Sessions : HostStep(s)
  BY <1>5, <1>6 DEF Tick, vars, server, ClientStep, Call, Deadline, Close, SeeClose, Receive, SocketOpens,
     SocketRefused, Lose, ServerStep, Authenticate, ServeOpen, ServePrompt, ServeDelete, Dispatch,
     FailWaiting, ReportMissing, DeleteReaches, HostStep, OpeningReads, OpeningRegisters, Emit, RunEnds
<1>7. QED
  BY <1>2, <1>3, <1>4, <1>6 DEF Next, SocketStep, CallStep

\* A session goes when a delete evicts it, and then everyone is still to be told.
LEMMA LiveSteps ==
  ASSUME Types, [Next]_vars
  PROVE  \/ live \subseteq live'
         \/ \E i \in DOMAIN calls :
              work[i] = "evicting" /\ live' = live \ {calls[i].on} /\ work'[i] = "detach"
<1>1. ASSUME NEW i \in DOMAIN calls, DeleteReaches(i)
      PROVE  \/ live \subseteq live'
             \/ work[i] = "evicting" /\ live' = live \ {calls[i].on} /\ work'[i] = "detach"
  <2>1. CASE work[i] = "evicting"
    <3>1. work' = [work EXCEPT ![i] = "detach"] /\ live' = live \ {calls[i].on}
      BY <1>1, <2>1 DEF DeleteReaches
    <3>2. i \in DOMAIN work
      BY DEF Types, ServerTypes, ClientTypes
    <3>3. QED
      BY <2>1, <3>1, <3>2
  <2>2. CASE work[i] # "evicting"
    BY <1>1, <2>2 DEF DeleteReaches
  <2>3. QED
    BY <2>1, <2>2
<1>2. ASSUME NEW s \in Sessions, OpeningRegisters(s)
      PROVE  live \subseteq live'
  BY <1>2 DEF OpeningRegisters
<1>3. CASE \/ Tick \/ UNCHANGED vars
           \/ \E d \in Clients : ClientStep(d) \/ SocketStep(d) \/ ServerStep(d)
           \/ \E i \in DOMAIN calls : Dispatch(i) \/ FailWaiting(i) \/ Attach(i) \/ ReportMissing(i) \/ Detach(i)
           \/ \E s \in Sessions : OpeningReads(s) \/ Emit(s) \/ RunEnds(s)
  BY <1>3 DEF Tick, vars, host, ClientStep, Call, Deadline, Close, SeeClose, Receive, SocketStep, SocketOpens,
     SocketRefused, Lose, ServerSeesClose, ServerStep, Authenticate, ServeOpen, ServePrompt, ServeDelete,
     Dispatch, FailWaiting, Attach, ReportMissing, Detach, OpeningReads, Emit, RunEnds
<1>4. QED
  BY <1>1, <1>2, <1>3 DEF Next, CallStep, HostStep

\* A connection is counted from the moment its socket opens.
LEMMA AttachedSteps ==
  ASSUME [Next]_vars, NEW c \in attached' \ attached
  PROVE  link[c] = "connecting" /\ UNCHANGED observed
BY DEF Next, ClientStep, SocketStep, ServerStep, CallStep, HostStep, Call, Deadline, Close,
   SeeClose, Receive, SocketOpens, SocketRefused, Lose, ServerSeesClose, Authenticate, ServeOpen,
   ServePrompt, ServeDelete, Dispatch, FailWaiting, Attach, ReportMissing, DeleteReaches, Detach,
   OpeningReads, OpeningRegisters, Emit, RunEnds, Tick, vars, server

\* A delete that has still to tell everyone does so to all at once.
LEMMA RecordsStep ==
  Types /\ FramesInv /\ RunningInv /\ ServedInv /\ RecordsInv /\ [Next]_vars => RecordsInv'
<1> SUFFICES ASSUME Types, FramesInv, RunningInv, ServedInv, RecordsInv, [Next]_vars
             PROVE  RecordsInv'
  OBVIOUS
<1>1. ASSUME NEW c \in Clients, link'[c] = "connecting"
      PROVE  observed'[c] = {}
  <2>1. link[c] = "connecting" /\ observed[c] = {}
    BY <1>1, WireKeeps DEF RecordsInv
  <2>2. ASSUME NEW i \in DOMAIN calls, calls[i].by = c
        PROVE  work[i] # "attach"
    <3>1. i \in Ids
      BY CallTyped DEF Types
    <3>2. QED
      BY <2>1, <2>2, <3>1 DEF ServedInv, Unserved, Nowhere
  <2>3. QED
    BY <2>1, <2>2, ObservedSteps
<1>2. ASSUME NEW c \in attached', NEW s \in observed'[c] \ live'
      PROVE  \E i \in DOMAIN calls' : calls'[i].on = s /\ work'[i] = "detach"
  <2>1. attached' \subseteq Clients
    BY ServerTyped DEF Types, ServerTypes
  <2>2. s \in observed[c]
    BY <1>2, <2>1, ObservedSteps
  <2>3. c \in attached
    BY <1>2, <2>1, <2>2, AttachedSteps DEF RecordsInv
  <2>4. CASE s \in live
    <3>1. PICK i \in DOMAIN calls :
            work[i] = "evicting" /\ live' = live \ {calls[i].on} /\ work'[i] = "detach"
      BY <1>2, <2>4, LiveSteps
    <3>2. calls[i].on = s
      BY <1>2, <2>4, <3>1
    <3>3. QED
      BY <3>1, <3>2, CallsKept
  <2>5. CASE s \notin live
    <3>1. PICK i \in DOMAIN calls : calls[i].on = s /\ work[i] = "detach"
      BY <2>2, <2>3, <2>5 DEF RecordsInv, NoStaleRecord
    <3>2. ~Detach(i)
      BY <1>2, <2>1, <2>2, <2>3, <3>1 DEF Detach, DetachFrom
    <3>3. work'[i] = "detach"
      BY <3>1, <3>2, WorkSteps
    <3>4. QED
      BY <3>1, <3>3, CallsKept
  <2>6. QED
    BY <2>4, <2>5
<1>3. QED
  BY <1>1, <1>2 DEF RecordsInv, NoStaleRecord

-----------------------------------------------------------------------------
(* Theorems. *)

LEMMA InEither ==
  ASSUME NEW S, NEW s \in Seq(S), NEW t \in Seq(S), NEW e \in ToSet(s \o t)
  PROVE  (\E m \in DOMAIN s : s[m] = e) \/ (\E m \in DOMAIN t : t[m] = e)
<1>1. PICK n \in DOMAIN (s \o t) : (s \o t)[n] = e
  BY DEF ToSet
<1>2. s \o t \in Seq(S) /\ Len(s \o t) = Len(s) + Len(t) /\ Len(s) \in Nat /\ Len(t) \in Nat
  BY ConcatProperties, LenProperties
<1>3. n \in 1..Len(s) + Len(t)
  BY <1>2, LenProperties
<1>4. DOMAIN s = 1..Len(s) /\ DOMAIN t = 1..Len(t)
  BY LenProperties
<1>5. e = IF n <= Len(s) THEN s[n] ELSE t[n - Len(s)]
  BY <1>1, <1>3, ConcatProperties
<1>6. n <= Len(s) => n \in DOMAIN s
  BY <1>2, <1>3, <1>4
<1>7. ~(n <= Len(s)) => n - Len(s) \in DOMAIN t
  BY <1>2, <1>3, <1>4
<1>8. QED
  BY <1>5, <1>6, <1>7

LEMMA Initially == Init => IInv
<1> SUFFICES ASSUME Init PROVE IInv
  OBVIOUS
<1> USE BoundsAssumption, NumbersAssumption DEF Init
<1>1. <<0>> \in Seq(0..MaxCalls)
  OBVIOUS
<1>2. outbox \in [Clients -> Seq(0..MaxCalls)]
  BY <1>1, EmptySeq
<1>3. ClientTypes
  BY <1>2, EmptySeq DEF ClientTypes
<1>4. ServerTypes
  BY EmptySeq DEF ServerTypes
<1>5. WireTypes
  BY EmptySeq DEF WireTypes, Links
<1>6. SocketsInv
  BY FS_EmptySet DEF SocketsInv
<1>7. BufferInv
  BY DEF BufferInv
<1>8. HandshakeInv
  BY DEF HandshakeInv, HandshakeOf
<1>9. OutboxInv
  BY DEF OutboxInv
<1>10. ServedInv
  BY DEF ServedInv, Nowhere, Ids
<1>11. PendingInv /\ AnswersKept
  BY DEF PendingInv, AnswersKept
<1>12. FramesInv
  <2>1. Once(<<>>) /\ Once(<<0>>)
    BY DEF Once
  <2>2. QED
    BY <2>1 DEF FramesInv, FramesOf
<1>13. RunningInv /\ VerdictsInv /\ EntriesInv /\ HeardInv /\ RecordsInv
  BY DEF RunningInv, VerdictsInv, EntriesInv, HeardInv, RecordsInv, NoStaleRecord
<1>14. QED
  BY <1>3, <1>4, <1>5, <1>6, <1>7, <1>8, <1>9, <1>10, <1>11, <1>12, <1>13 DEF IInv, Types

\* The invariant the other theorems rest on.
THEOREM Invariance == Spec => []IInv
<1>1. IInv /\ [Next]_vars => IInv'
  BY ClientTyped, ServerTyped, WireTyped, SocketsStep, BufferStep, HandshakeStep, OutboxStep, ServedStep,
     PendingStep, AnswersStep, FramesStep, RunningStep, VerdictsStep, EntriesStep, HeardStep, RecordsStep
     DEF IInv, Types
<1>2. QED
  BY Initially, <1>1, PTL DEF Spec

\* Every variable keeps its type, and the server never counts more connections
\* than its cap (#connections and #maxConnections of ws-server.ts).
THEOREM TypeCorrect == Spec => []TypeOK
<1>1. IInv => TypeOK
  BY DEF IInv, Types, ClientTypes, ServerTypes, WireTypes, SocketsInv, TypeOK, CallRecords, WorkStates
<1>2. QED
  BY Invariance, <1>1, PTL

\* No request of a client with a token is on the wire, or in its outbox, before
\* the server let the client in (#call awaits authenticate()).
THEOREM RequestsFollowTheHandshake == Spec => []HandshakeFirst
<1>1. ASSUME IInv, NEW c \in Clients, creds[c] # "none",
             NEW i \in Ids, i \in ToSet(outbox[c] \o up[c])
      PROVE  authed[c]
  <2>1. outbox[c] \in Seq(0..MaxCalls) /\ up[c] \in Seq(0..MaxCalls)
    BY <1>1 DEF IInv, Types, ClientTypes
  <2>2. \/ \E m \in DOMAIN outbox[c] : outbox[c][m] = i
        \/ \E m \in DOMAIN up[c] : up[c][m] = i
    BY <1>1, <2>1, InEither
  <2>3. i # 0
    BY DEF Ids
  <2>4. QED
    BY <1>1, <2>2, <2>3 DEF IInv, HandshakeInv, HandshakeOf
<1>2. IInv => HandshakeFirst
  BY <1>1 DEF HandshakeFirst
<1>3. QED
  BY Invariance, <1>2, PTL

\* Whatever the threshold drops, an answer on an open socket is not among it
\* (#send of ws-server.ts; #pending of client.ts).
THEOREM AnswersAreKept == Spec => []AnswersKept
<1>1. IInv => AnswersKept
  BY DEF IInv
<1>2. QED
  BY Invariance, <1>1, PTL

\* Whatever was late, lost or timed out meanwhile, a caller is told what became
\* of its own request (#pending by id in client.ts, the replies of ws-server.ts).
THEOREM AnswersAreOwn == Spec => []OwnAnswer
<1>1. IInv => OwnAnswer
  BY DEF IInv, HeardInv, Verdict, TurnedAway, OwnAnswer
<1>2. QED
  BY Invariance, <1>1, PTL

\* A record of a session that is gone (observedSessions of ws-server.ts) is one
\* that #detachEveryone is still to drop.
THEOREM RecordsAreFresh == Spec => []NoStaleRecord
<1>1. IInv => NoStaleRecord
  BY DEF IInv, RecordsInv
<1>2. QED
  BY Invariance, <1>1, PTL

\* No client is cut for a burst it has read: #backpressureSustainedMs is the
\* time its buffer stayed over the threshold, for every threshold and window.
THEOREM CutsAreEarned == Spec => OnlyTheStuckAreCut
<1>1. IInv /\ [Next]_vars => [\A c \in cut' \ cut : clock - clear[c] > Sustained]_vars
  BY CutStep DEF IInv
<1>2. QED
  BY Invariance, <1>1, PTL DEF OnlyTheStuckAreCut, Spec
=============================================================================
