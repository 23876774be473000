---------------------------- MODULE AgentSession ----------------------------
(***************************************************************************)
(* The conversation an agent holds in memory and the session file it       *)
(* leaves behind: #appendMessage, #appendEntry, #stamp, #write,            *)
(* #recordState, #compact and resume of packages/core/src/agent.ts,        *)
(* compactMessages of compaction.ts, pathToLeaf and materializeBranch of   *)
(* session/tree.ts.                                                        *)
(*                                                                         *)
(* An entry is stamped (id, parent) when it is made and reaches the file   *)
(* when its write settles; writes settle in the order of their stamps.     *)
(* Compaction takes its snapshot, awaits a summary, appends its entry and  *)
(* only then replaces the live conversation.  Two of them can be under     *)
(* way: the run's own before a turn, and the host's, which only checks     *)
(* that no run is in flight when it starts.                                *)
(*                                                                         *)
(* A message is its id and its kind.  What a summary says is abstracted to *)
(* the messages it was written from and to whether its stream was cut.     *)
(***************************************************************************)
EXTENDS Integers, Sequences, FiniteSets, SequencesExt

CONSTANTS
  MaxEntries,  \* bound: entries stamped over the whole behaviour
  MaxKills,    \* bound: times the process dies and a session is resumed
  Failures     \* whose append may fail: "message", "state", "fold"

ASSUME BoundsAssumption   == MaxEntries \in Nat /\ MaxKills \in Nat
ASSUME FailuresAssumption == Failures \subseteq {"message", "state", "fold"}

Ids     == 1..MaxEntries
Owners  == {"run", "host"}

VARIABLES
  file,      \* entries in the session file, in file order
  stamped,   \* createId: ids given out so far
  last,      \* #lastEntryId, 0 for null
  live,      \* #messages
  linked,    \* ids of live messages that #entryIds knows
  pending,   \* entries whose write has not settled, in stamp order
  poisoned,  \* a failed state write sits in #stateWrites
  running,   \* #running
  open,      \* the run's last message asked for a call it has no result for
  fold,      \* per owner, the compaction under way
  kills,     \* deaths of the process so far
  acked,     \* ghost: ids of messages whose append was acknowledged
  failed,    \* ghost: a write other than a state write failed
  raced      \* ghost: since the last resume, a stale compaction replaced the conversation

vars == <<file, stamped, last, live, linked, pending, poisoned, running, open, fold, kills,
          acked, failed, raced>>

-----------------------------------------------------------------------------
(* Messages, entries, and replaying a branch. *)

Spoken   == {"user", "answer", "thought", "call", "result"}
NoFold   == [stage |-> "none", covers |-> {}, upTo |-> 0, tail |-> <<>>, strip |-> FALSE,
             stale |-> FALSE]
Item(i, k) == [id |-> i, kind |-> k]
ItemIds(items) == {m.id : m \in ToSet(items)}

Entry(i, k) == [id |-> i, parent |-> last, kind |-> k, upTo |-> 0, strip |-> FALSE,
                covers |-> {}, cut |-> FALSE, by |-> "run", stale |-> FALSE]

\* A stripped tail loses the turns that were nothing but thinking.
WithoutThinking(items) ==
  LET kept[n \in 0..Len(items)] ==
        IF n = 0 THEN <<>>
        ELSE IF items[n].kind = "thought" THEN kept[n - 1] ELSE Append(kept[n - 1], items[n])
  IN  kept[Len(items)]

Strip(items, strip) == IF strip THEN WithoutThinking(items) ELSE items

\* Mutant: the fold stops one message short.
KeptWithCut(items, upTo) ==
  LET cut == {i \in DOMAIN items : items[i].id = upTo}
  IN  IF cut = {} THEN items ELSE SubSeq(items, CHOOSE i \in cut : TRUE, Len(items))

\* What a compaction entry leaves of the items replayed so far: a cut the
\* replay cannot find folds nothing.
Kept(items, upTo) ==
  LET cut == {i \in DOMAIN items : items[i].id = upTo}
  IN  IF cut = {} THEN items ELSE SubSeq(items, (CHOOSE i \in cut : TRUE) + 1, Len(items))

ReplayEntry(items, e) ==
  CASE e.kind \in Spoken -> Append(items, Item(e.id, e.kind))
    [] e.kind = "fold"   -> <<Item(e.id, "summary")>> \o Strip(Kept(items, e.upTo), e.strip)
    [] OTHER             -> items

Materialize(branch) ==
  LET replay[n \in 0..Len(branch)] ==
        IF n = 0 THEN <<>> ELSE ReplayEntry(replay[n - 1], branch[n])
  IN  replay[Len(branch)]

OnDisk(f, i)  == \E e \in ToSet(f) : e.id = i
EntryOf(f, i) == CHOOSE e \in ToSet(f) : e.id = i

\* pathToLeaf: root first; a parent that is not in the file ends the walk.
Paths(f) ==
  LET path[i \in 0..MaxEntries] ==
        IF ~OnDisk(f, i) THEN <<>>
        ELSE LET e == EntryOf(f, i)
             IN  (IF e.parent < i THEN path[e.parent] ELSE <<>>) \o <<e>>
  IN  path

PathToLeaf(f, leaf) == Paths(f)[leaf]

\* The spoken messages some items stand for.
Stands(items) ==
  UNION {IF m.kind = "summary" THEN EntryOf(file, m.id).covers ELSE {m.id} : m \in ToSet(items)}

LatestEntryId(f) == IF f = <<>> THEN 0 ELSE Last(f).id

-----------------------------------------------------------------------------
(* Stamping and writing. *)

CanStamp == stamped < MaxEntries

\* #stamp, then the write is under way.
Enqueue(e) ==
  /\ stamped' = stamped + 1
  /\ last' = e.id
  /\ pending' = Append(pending, e)

Awaiting(who) == \E e \in ToSet(pending) : e.by = who
RunBusy == Awaiting("run") \/ Awaiting("tool") \/ fold["run"].stage # "none"

\* A compaction under way whose snapshot is no longer the conversation.
Outdated(folds) ==
  [o \in Owners |-> [folds[o] EXCEPT !.stale = @ \/ folds[o].stage # "none"]]

\* #appendMessage: live first, then the file.
Say(kind) ==
  /\ live' = Append(live, Item(stamped + 1, kind))
  /\ Enqueue(Entry(stamped + 1, kind))
  /\ open' = (kind = "call")
  /\ fold' = Outdated(fold)

Prompt ==
  /\ ~running /\ CanStamp
  /\ running' = TRUE
  /\ Say("user")
  /\ UNCHANGED <<file, linked, poisoned, kills, acked, failed, raced>>

\* The next message of the run (AgentRun says which): a call is answered first.
Speak ==
  /\ running /\ ~RunBusy /\ CanStamp
  /\ \E kind \in Spoken :
       /\ open <=> kind = "result"
       /\ Say(kind)
  /\ UNCHANGED <<file, linked, poisoned, running, kills, acked, failed, raced>>

RunEnds ==
  /\ running /\ ~RunBusy /\ ~open
  /\ running' = FALSE
  /\ UNCHANGED <<file, stamped, last, live, linked, pending, poisoned, open, fold, kills, acked,
                 failed, raced>>

\* #recordState from setModel or from shaping a request: nobody awaits it.
RecordState ==
  /\ CanStamp
  /\ Enqueue([Entry(stamped + 1, "state") EXCEPT !.by = "state"])
  /\ UNCHANGED <<file, live, linked, poisoned, running, open, fold, kills, acked, failed, raced>>

\* setTodos and setPlan: a state entry its tool call awaits.
ToolState ==
  /\ running /\ ~RunBusy /\ open /\ CanStamp
  /\ Enqueue([Entry(stamped + 1, "state") EXCEPT !.by = "tool"])
  /\ UNCHANGED <<file, live, linked, poisoned, running, open, fold, kills, acked, failed, raced>>

-----------------------------------------------------------------------------
(* Compaction. *)

\* hasPendingToolRound looks at the last assistant message only.
Opens(m) == m.kind \in {"user", "summary"}
PendingRound ==
  \E i \in DOMAIN live : live[i].kind = "call" /\ \A j \in (i + 1)..Len(live) : Opens(live[j])

\* Mutant: cut wherever the token budget falls.
AnyCut(shape) == 1..(Len(live) - 1)

\* Lengths of head findCompactionCut may choose: before a user message, or
\* everything up to the trailing user messages of a settled conversation.
Cuts(shape) ==
  IF shape = "keep-tail" THEN {i \in 1..(Len(live) - 1) : Opens(live[i + 1])}
  ELSE {i \in 1..Len(live) : /\ ~PendingRound
                             /\ ~Opens(live[i])
                             /\ \A j \in (i + 1)..Len(live) : Opens(live[j])}

\* Mutant: the fold is recorded up to the newest entry.
UpToNewest(cut) == last

\* The entry the last folded message came from; a message whose entry never
\* reached the file has none, and the last entry stands in.
UpToId(cut) == IF live[cut].id \in linked THEN live[cut].id ELSE last

StartFold(o) ==
  /\ fold[o].stage = "none"
  /\ IF o = "run" THEN running /\ ~RunBusy /\ ~open ELSE ~running
  /\ \E shape \in {"keep-tail", "simple"} : \E cut \in Cuts(shape), strip \in BOOLEAN :
       /\ strip => shape = "keep-tail"
       /\ fold' = [fold EXCEPT ![o] =
            [stage |-> "summarising", covers |-> Stands(SubSeq(live, 1, cut)),
             upTo |-> UpToId(cut), strip |-> strip, stale |-> FALSE,
             tail |-> Strip(SubSeq(live, cut + 1, Len(live)), strip)]]
  /\ UNCHANGED <<file, stamped, last, live, linked, pending, poisoned, running, open, kills, acked,
                 failed, raced>>

\* The summarizer failed, refused or said nothing: the history stays.
SummaryRefused(o) ==
  /\ fold[o].stage = "summarising"
  /\ fold' = [fold EXCEPT ![o] = NoFold]
  /\ UNCHANGED <<file, stamped, last, live, linked, pending, poisoned, running, open, kills, acked,
                 failed, raced>>

\* Text arrived.  Its stop reason is looked at for "error" and "refusal" only,
\* so the text of a stream that was aborted or hit its limit is taken as well.
SummaryArrives(o) ==
  /\ fold[o].stage = "summarising"
  /\ CanStamp
  /\ fold' = [fold EXCEPT ![o].stage = "saving"]
  /\ \E cut \in BOOLEAN :
       Enqueue([Entry(stamped + 1, "fold") EXCEPT !.by = o, !.upTo = fold[o].upTo,
                  !.strip = fold[o].strip, !.covers = fold[o].covers, !.cut = cut])
  /\ UNCHANGED <<file, live, linked, poisoned, running, open, kills, acked, failed, raced>>

-----------------------------------------------------------------------------
(* Writes settle. *)

IsFold(e) == e.kind = "fold"

WriteReaches ==
  /\ pending # <<>> /\ ~poisoned
  /\ LET e == Head(pending) IN
       IF IsFold(e)
       THEN /\ raced' = (raced \/ fold[e.by].stale)
            /\ file' = Append(file, [e EXCEPT !.stale = raced'])
            /\ live' = <<Item(e.id, "summary")>> \o fold[e.by].tail
            /\ linked' = linked \cup {e.id}  \* kept messages stay linked
            /\ fold' = Outdated([fold EXCEPT ![e.by] = NoFold])
            /\ UNCHANGED acked
       ELSE /\ file' = Append(file, e)
            /\ linked' = IF e.by = "run" THEN linked \cup {e.id} ELSE linked
            /\ acked'  = IF e.by = "run" THEN acked \cup {e.id} ELSE acked
            /\ UNCHANGED <<live, fold, raced>>
  /\ pending' = Tail(pending)
  /\ UNCHANGED <<stamped, last, poisoned, running, open, kills, failed>>

MayFail(e) == \/ poisoned
              \/ e.by = "state" /\ "state" \in Failures
              \/ e.kind = "fold" /\ "fold" \in Failures
              \/ e.by \in {"run", "tool"} /\ "message" \in Failures

\* Mutant: a failed state write is forgotten like one that succeeded.
ForgetFailure(e) == poisoned

\* A failed state write stays in #stateWrites and fails every later append.
KeepFailure(e) == poisoned \/ e.by = "state"

\* The store rejects.  A message ends its run, a compaction is given up, a
\* tool reports an error.
WriteFails ==
  /\ pending # <<>>
  /\ LET e == Head(pending) IN
       /\ MayFail(e)
       /\ poisoned' = KeepFailure(e)
       /\ failed' = (failed \/ (e.by # "state" /\ ~poisoned))
       /\ fold' = IF IsFold(e) THEN [fold EXCEPT ![e.by] = NoFold] ELSE fold
       /\ running' = (running /\ (e.by # "run" \/ IsFold(e)))
       /\ open' = (open /\ running')
  /\ pending' = Tail(pending)
  /\ UNCHANGED <<file, stamped, last, live, linked, kills, acked, raced>>

-----------------------------------------------------------------------------
\* The process dies with whatever was pending; Agent.resume rebuilds from the
\* latest entry, or from an older one, which starts a new branch.
KillAndResume ==
  /\ kills < MaxKills
  /\ kills' = kills + 1
  /\ \E leaf \in {LatestEntryId(file)} \cup {e.id : e \in ToSet(file)} :
       LET branch == PathToLeaf(file, leaf) IN
         /\ live' = Materialize(branch)
         /\ linked' = ItemIds(live')
         /\ last' = leaf
         /\ acked' = IF leaf = LatestEntryId(file) THEN acked
                     ELSE acked \cap {e.id : e \in ToSet(branch)}
  /\ pending' = <<>> /\ poisoned' = FALSE /\ running' = FALSE /\ open' = FALSE
  /\ fold' = [o \in Owners |-> NoFold]
  /\ raced' = FALSE
  /\ UNCHANGED <<file, stamped, failed>>

Init ==
  /\ file = <<>> /\ stamped = 0 /\ last = 0 /\ live = <<>> /\ linked = {}
  /\ pending = <<>> /\ poisoned = FALSE /\ running = FALSE /\ open = FALSE
  /\ fold = [o \in Owners |-> NoFold]
  /\ kills = 0 /\ acked = {} /\ failed = FALSE /\ raced = FALSE

Next ==
  \/ Prompt \/ Speak \/ RunEnds \/ RecordState \/ ToolState
  \/ \E o \in Owners : StartFold(o) \/ SummaryRefused(o) \/ SummaryArrives(o)
  \/ WriteReaches \/ WriteFails \/ KillAndResume

Spec == Init /\ [][Next]_vars

-----------------------------------------------------------------------------
(* Properties. *)

Kinds == Spoken \cup {"state", "fold"}
EntrySet == [id : Ids, parent : 0..MaxEntries, kind : Kinds, upTo : 0..MaxEntries,
             strip : BOOLEAN, covers : SUBSET Ids, cut : BOOLEAN,
             by : {"run", "host", "state", "tool"}, stale : BOOLEAN]
ItemSet == [id : Ids, kind : Spoken \cup {"summary"}]

\* The type of every variable; every compaction entry names the entry it folds
\* up to.
TypeOK ==
  /\ file \in Seq(EntrySet) /\ pending \in Seq(EntrySet)
  /\ \A e \in ToSet(file) \cup ToSet(pending) : IsFold(e) <=> e.upTo # 0
  /\ stamped \in 0..MaxEntries /\ last \in 0..stamped
  /\ live \in Seq(ItemSet) /\ linked \subseteq Ids /\ acked \subseteq Ids
  /\ poisoned \in BOOLEAN /\ running \in BOOLEAN /\ open \in BOOLEAN /\ failed \in BOOLEAN /\ raced \in BOOLEAN
  /\ kills \in 0..MaxKills
  /\ fold \in [Owners -> [stage : {"none", "summarising", "saving"}, covers : SUBSET Ids,
                          upTo : 0..MaxEntries, tail : Seq(ItemSet), strip : BOOLEAN, stale : BOOLEAN]]

Branch == PathToLeaf(file, last)
Quiet  == pending = <<>> /\ ~poisoned

\* Whenever nothing is being written, resuming the session would rebuild the
\* very conversation the agent holds, compactions included ("a resume sends
\* the very request the live agent would", tree.ts).  Not promised once a
\* write has failed, or a compaction has replaced messages said meanwhile.
LiveIsReplay == Quiet /\ ~failed /\ ~raced => Materialize(Branch) = live

\* The same without the exception for a message said while the host compacts.
LiveIsReplayUnderHost == Quiet /\ ~failed => Materialize(Branch) = live

\* The messages replaying this branch folds away at its n-th entry.
FoldedAt(branch, n) ==
  LET before == Materialize(SubSeq(branch, 1, n - 1))
      kept   == Kept(before, branch[n].upTo)
  IN  Stands(SubSeq(before, 1, Len(before) - Len(kept)))

\* No replay drops a message on account of a summary that was not written from
\* it: not when a summary is summarised, not after a resume, not on another
\* branch.  (After a failed write the fallback of UpToId may name a message
\* the summary never saw; a stale compaction is excepted itself.)
FoldsOnlyWhatWasRead ==
  LET branch == Branch IN
    ~failed => \A n \in DOMAIN branch :
      IsFold(branch[n]) /\ ~branch[n].stale => FoldedAt(branch, n) \subseteq branch[n].covers

\* Every message whose append was acknowledged is on the branch a resume reads,
\* through deaths of the process and failed state writes.
NothingForgotten ==
  pending = <<>> /\ ~failed /\ ~poisoned => acked \subseteq {e.id : e \in ToSet(Branch)}

\* A failed write never leaves later entries parented on an entry that never
\* reached the file (agent.ts:1014-1018).
ParentsOnDisk == \A e \in ToSet(file) : e.parent = 0 \/ OnDisk(file, e.parent)

\* A compaction never parts a tool call from its result, live or on replay
\* (not promised after a failed write, nor when a stale compaction was stored).
RoundsStayTogether ==
  ~failed /\ (\A e \in ToSet(file) : ~e.stale) =>
    \A i \in DOMAIN live : live[i].kind = "result" => i > 1 /\ live[i - 1].kind = "call"

\* compaction.ts:467-469: "a fragment, and installing it would replace real
\* history": no summary that was cut short stands for history.
SummariesWhole == \A e \in ToSet(file) : IsFold(e) => ~e.cut
=============================================================================
