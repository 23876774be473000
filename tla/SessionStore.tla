---------------------------- MODULE SessionStore ----------------------------
(***************************************************************************)
(* One session file of packages/core/src/session/jsonl-store.ts, and the   *)
(* processes that create, append to, retitle and delete it.                *)
(*                                                                         *)
(* An operation is a chain of awaits on the file system; between two of    *)
(* them any other operation may act.  Within a process, append and         *)
(* setTitle queue behind each other on a promise chain (#serialize); there *)
(* is no lock between processes.  A process may die between any two steps, *)
(* and the file system may throw at any of them: the operation is rejected *)
(* by a process that lives on.  A write may be short, so that a death or a *)
(* throw can tear a line.                                                  *)
(*                                                                         *)
(* A line is two halves and a newline, enough to tell a whole line from a  *)
(* torn one and from two that were glued together.  The path names an      *)
(* inode: a handle opened before a delete or a rename keeps writing to the *)
(* file it opened.  One look at the tail (#inspectTail) is one step.       *)
(* Reading (open, entries, list) changes nothing and is an operator.       *)
(***************************************************************************)
EXTENDS Integers, Sequences, FiniteSets, SequencesExt

CONSTANTS
  Procs,      \* processes that use the session
  Kinds,      \* operations they call: "create", "append", "title", "delete"
  Attempts,   \* TAIL_REPAIR_ATTEMPTS
  MaxOps,     \* bound: operations called
  MaxCrashes, \* bound: deaths of a process
  MaxFaults   \* bound: short writes and steps that throw

ASSUME KindsAssumption    == Kinds \subseteq {"create", "append", "title", "delete"}
ASSUME AttemptsAssumption == Attempts \in Nat \ {0}
ASSUME BoundsAssumption   == MaxOps \in Nat /\ MaxCrashes \in Nat /\ MaxFaults \in Nat

VARIABLES
  inodes,    \* contents of every file ever made, by inode
  path,      \* the inode the session's path names, 0 when it does not exist
  ops,       \* the operations called so far, in order
  tail,      \* per process, writeQueues: the operation the next one waits for
  crashes,   \* deaths so far
  faults,    \* short writes and throws so far
  overtaken  \* ghost: a delete removed the file under a later call past its guard

vars == <<inodes, path, ops, tail, crashes, faults, overtaken>>

-----------------------------------------------------------------------------
(* Files and lines. *)

Newline    == <<0, 0>>
Fill       == <<0, 1>>  \* what a file is extended with
Half(n, k) == <<n, k>>
Line(n)    == <<Half(n, 1), Half(n, 2), Newline>>
Whole(piece) == Len(piece) = 2 /\ piece = <<Half(piece[1][1], 1), Half(piece[1][1], 2)>>

\* raw.split("\n") without the blank lines: where they start, and the line from there.
Starts(content) ==
  {i \in DOMAIN content : content[i] # Newline /\ (i = 1 \/ content[i - 1] = Newline)}

LineAt(content, start) ==
  SubSeq(content, start,
         Min({i \in start..Len(content) : i = Len(content) \/ content[i + 1] = Newline}))

\* The first of them.
HasLines(content) == \E i \in DOMAIN content : content[i] # Newline

FirstLine(content) == LineAt(content, Min({i \in DOMAIN content : content[i] # Newline}))

Content == IF path = 0 THEN <<>> ELSE inodes[path]

\* #inspectTail: where the last line starts, and whether it is finished.
Breaks(content) == {i \in DOMAIN content : content[i] = Newline}

LastLineStart(content) == Max({0} \cup Breaks(content))

TailKind(content) ==
  IF content = <<>> \/ Last(content) = Newline THEN "clean"
  ELSE IF LastLineStart(content) = 0 THEN "keep"
  ELSE IF Whole(SubSeq(content, LastLineStart(content) + 1, Len(content))) THEN "keep"
  ELSE "torn"

-----------------------------------------------------------------------------
(* Operations.  "at" is the next step; "done", "failed" and "dead" are final. *)

Settled(o) == o \in DOMAIN ops => ops[o].at \in {"done", "failed", "dead"}
Is(o, kind, at) == ops[o].kind = kind /\ ops[o].at = at
Set(o, rec) == [ops EXCEPT ![o] = rec]

Op(p, kind, at, after) ==
  [proc |-> p, kind |-> kind, at |-> at, after |-> after, tries |-> 0, size |-> 0,
   start |-> 0, handle |-> 0, left |-> <<>>, gone |-> FALSE]

\* writeQueues.get(key)
QueueTail(p) == tail[p]

\* Mutant: delete does not drain the queue.
DrainsNothing(p) == 0

\* delete waits for the end of the queue as it is when delete is called.
Drains(p) == tail[p]

\* #serialize, on leaving: the chain is dropped when nothing joined it since.
Leave(o) == [tail EXCEPT ![ops[o].proc] = IF @ = o THEN 0 ELSE @]

\* Callers hold the id of a session whose create resolved (agent.ts writes
\* nothing before #ensureSession has) or that a resume could open.  Ids are
\* random: a deleted one is not created again.
Usable(kind) ==
  IF kind = "create" THEN \A o \in DOMAIN ops : ops[o].kind # "delete"
  ELSE /\ \A o \in DOMAIN ops : ops[o].kind = "create" => Settled(o)
       /\ \/ \E o \in DOMAIN ops : Is(o, "create", "done")
          \/ HasLines(Content) /\ Whole(FirstLine(Content))

WaitsFor(p, kind) ==
  CASE kind = "create" -> 0 [] kind = "delete" -> Drains(p) [] OTHER -> QueueTail(p)

\* A call: append and setTitle also join the queue.
Call(p, kind) ==
  /\ Len(ops) < MaxOps
  /\ kind \in Kinds
  /\ Usable(kind)
  /\ LET n == Len(ops) + 1 IN
       /\ ops' = Append(ops, Op(p, kind, "start", WaitsFor(p, kind)))
       /\ tail' = IF kind \in {"append", "title"} THEN [tail EXCEPT ![p] = n] ELSE tail
  /\ UNCHANGED <<inodes, path, crashes, faults, overtaken>>

\* Mutant: a failed call leaves the chain rejected.
ReadyAfterSuccess(o) == ops[o].after \notin {n \in DOMAIN ops : ops[n].at # "done"}

\* The call before it has settled, well or badly.
Ready(o) == Settled(ops[o].after)

Fail(o) ==
  /\ ops' = Set(o, [ops[o] EXCEPT !.at = "failed"])
  /\ tail' = Leave(o)
  /\ UNCHANGED <<inodes, path, crashes, faults, overtaken>>

Advance(o, rec) ==
  /\ ops' = Set(o, rec)
  /\ UNCHANGED <<inodes, path, tail, crashes, faults, overtaken>>

-----------------------------------------------------------------------------
(* create: writeFile with "wx". *)

CreateOpens(o) ==
  /\ Is(o, "create", "start")
  /\ path = 0
  /\ inodes' = Append(inodes, <<>>)
  /\ path' = Len(inodes) + 1
  /\ ops' = Set(o, [ops[o] EXCEPT !.at = "write", !.handle = Len(inodes) + 1, !.left = Line(o)])
  /\ UNCHANGED <<tail, crashes, faults, overtaken>>

CreateExists(o) == Is(o, "create", "start") /\ path # 0 /\ Fail(o)

-----------------------------------------------------------------------------
(* append: access, #prepareAppend, appendLine. *)

Access(o) ==
  /\ Is(o, "append", "start") /\ Ready(o) /\ path # 0
  /\ Advance(o, [ops[o] EXCEPT !.at = "look"])

\* Every step that opens the path fails when it is gone, except the last one:
\* opening for append creates what it does not find.
MissingFile(o) ==
  /\ ops[o].kind \in {"append", "title"}
  /\ ops[o].at = "start" => Ready(o)
  /\ ops[o].at \in {"start", "look", "settle", "stat"}
  /\ path = 0
  /\ Fail(o)

Prefix(content) == IF TailKind(content) = "keep" THEN <<Newline>> ELSE <<>>

Look(o) ==
  /\ Is(o, "append", "look") /\ path # 0
  /\ IF ops[o].tries >= Attempts
     THEN Advance(o, [ops[o] EXCEPT !.at = "open", !.left = <<Newline>> \o Line(o)])
     ELSE IF TailKind(Content) = "torn"
     THEN Advance(o, [ops[o] EXCEPT !.at = "settle", !.size = Len(Content),
                        !.start = LastLineStart(Content), !.tries = @ + 1])
     ELSE Advance(o, [ops[o] EXCEPT !.at = "open", !.left = Prefix(Content) \o Line(o)])

\* The second look, a beat later, has to agree with the first.
Settle(o) ==
  /\ Is(o, "append", "settle") /\ path # 0
  /\ Advance(o, [ops[o] EXCEPT !.at =
       IF /\ TailKind(Content) = "torn"
          /\ Len(Content) = ops[o].size
          /\ LastLineStart(Content) = ops[o].start
       THEN "stat" ELSE "look"])

\* Open "r+" and stat through the handle.
Stat(o) ==
  /\ Is(o, "append", "stat") /\ path # 0
  /\ Advance(o, [ops[o] EXCEPT !.handle = path,
                   !.at = IF Len(Content) = ops[o].size THEN "cut" ELSE "look"])

\* Mutant: the cut takes the newline of the line before it too.
CutNewlineToo(o) == SubSeq(inodes[ops[o].handle], 1, ops[o].start - 1)

\* truncate(tail.lineStart); a file that is shorter by now is filled up.
CutAt(o) ==
  LET content == inodes[ops[o].handle]
  IN  [i \in 1..ops[o].start |-> IF i <= Len(content) THEN content[i] ELSE Fill]

\* The close behind the cut may throw.
Truncate(o) ==
  /\ Is(o, "append", "cut")
  /\ inodes' = [inodes EXCEPT ![ops[o].handle] = CutAt(o)]
  /\ \E at \in {"open", "failed"} :
       /\ faults' = IF at = "failed" THEN faults + 1 ELSE faults
       /\ faults' <= MaxFaults
       /\ ops' = Set(o, [ops[o] EXCEPT !.at = at, !.left = Line(o)])
       /\ tail' = IF at = "failed" THEN Leave(o) ELSE tail
  /\ UNCHANGED <<path, crashes, overtaken>>

Open(o) ==
  /\ Is(o, "append", "open")
  /\ inodes' = IF path = 0 THEN Append(inodes, <<>>) ELSE inodes
  /\ path' = IF path = 0 THEN Len(inodes) + 1 ELSE path
  /\ ops' = Set(o, [ops[o] EXCEPT !.at = "write", !.handle = path'])
  /\ UNCHANGED <<tail, crashes, faults, overtaken>>

\* One write of what is left, or a short one.  The next write of a short one may
\* throw or make no progress, and so may the close: the append is rejected, and
\* what was written stays.
Write(o) ==
  /\ ops[o].at = "write"
  /\ \E k \in 1..Len(ops[o].left), at \in {"write", "done", "failed"} :
       /\ at = "write" => k < Len(ops[o].left)
       /\ at = "done" => k = Len(ops[o].left)
       /\ faults' = IF at = "done" THEN faults ELSE faults + 1
       /\ faults' <= MaxFaults
       /\ inodes' = [inodes EXCEPT ![ops[o].handle] = @ \o SubSeq(ops[o].left, 1, k)]
       /\ ops' = Set(o, [ops[o] EXCEPT !.left = SubSeq(@, k + 1, Len(@)), !.at = at])
       /\ tail' = IF at = "write" THEN tail ELSE Leave(o)
  /\ UNCHANGED <<path, crashes, overtaken>>

-----------------------------------------------------------------------------
(* setTitle: read everything, write a temporary file, rename it over. *)

IsHeader(piece) == Whole(piece) /\ ops[piece[1][1]].kind \in {"create", "title"}

\* Everything after the first newline, byte for byte.
Body(content) ==
  IF Breaks(content) = {} THEN <<>>
  ELSE SubSeq(content, Min(Breaks(content)) + 1, Len(content))

TitleReads(o) ==
  /\ Is(o, "title", "start") /\ Ready(o) /\ path # 0
  /\ HasLines(Content) /\ IsHeader(FirstLine(Content))
  /\ Advance(o, [ops[o] EXCEPT !.at = "rename", !.left = Line(o) \o Body(Content)])

TitleCorrupt(o) ==
  /\ Is(o, "title", "start") /\ Ready(o) /\ path # 0
  /\ HasLines(Content) => ~IsHeader(FirstLine(Content))
  /\ Fail(o)

Rename(o) ==
  /\ Is(o, "title", "rename")
  /\ inodes' = Append(inodes, ops[o].left)
  /\ path' = Len(inodes) + 1
  /\ ops' = Set(o, [ops[o] EXCEPT !.at = "done", !.left = <<>>])
  /\ tail' = Leave(o)
  /\ UNCHANGED <<crashes, faults, overtaken>>

-----------------------------------------------------------------------------
(* delete: wait for the queue as it was, then remove the file. *)

\* Writers past their guard that were called after this delete was.
Overtaken(o) == {w \in DOMAIN ops : /\ w > o /\ ops[w].kind # "delete"
                                     /\ ~Settled(w) /\ ops[w].at # "start"}

Unlink(o) ==
  /\ Is(o, "delete", "start") /\ Ready(o) /\ path # 0
  /\ path' = 0
  /\ overtaken' = (overtaken \/ Overtaken(o) # {})
  /\ ops' = [i \in DOMAIN ops |->
               IF i = o THEN [ops[i] EXCEPT !.at = "done"]
               ELSE IF ops[i].at = "done" THEN [ops[i] EXCEPT !.gone = TRUE] ELSE ops[i]]
  /\ tail' = [tail EXCEPT ![ops[o].proc] = 0]
  /\ UNCHANGED <<inodes, crashes, faults>>

UnlinkMissing(o) == Is(o, "delete", "start") /\ Ready(o) /\ path = 0 /\ Fail(o)

-----------------------------------------------------------------------------
\* A step throws before it has changed anything: no permission, no descriptor, no
\* space.  (A retitle removes its temporary file.)
Throws(o) ==
  /\ ~Settled(o)
  /\ ops[o].at = "start" /\ ops[o].kind # "create" => Ready(o)
  /\ faults < MaxFaults
  /\ faults' = faults + 1
  /\ ops' = Set(o, [ops[o] EXCEPT !.at = "failed"])
  /\ tail' = Leave(o)
  /\ UNCHANGED <<inodes, path, crashes, overtaken>>

\* A process dies: its operations stop where they are, its queue with them.
Crash(p) ==
  /\ crashes < MaxCrashes
  /\ \E o \in DOMAIN ops : ops[o].proc = p /\ ~Settled(o)
  /\ crashes' = crashes + 1
  /\ ops' = [o \in DOMAIN ops |->
               IF ops[o].proc = p /\ ~Settled(o) THEN [ops[o] EXCEPT !.at = "dead"] ELSE ops[o]]
  /\ tail' = [tail EXCEPT ![p] = 0]
  /\ UNCHANGED <<inodes, path, faults, overtaken>>

Init ==
  /\ inodes = <<>> /\ path = 0 /\ ops = <<>>
  /\ tail = [p \in Procs |-> 0]
  /\ crashes = 0 /\ faults = 0 /\ overtaken = FALSE

Step(o) ==
  \/ CreateOpens(o) \/ CreateExists(o)
  \/ Access(o) \/ MissingFile(o) \/ Look(o) \/ Settle(o) \/ Stat(o) \/ Truncate(o)
  \/ Open(o) \/ Write(o)
  \/ TitleReads(o) \/ TitleCorrupt(o) \/ Rename(o)
  \/ Unlink(o) \/ UnlinkMissing(o) \/ Throws(o)

Next ==
  \/ \E p \in Procs : Crash(p) \/ \E kind \in Kinds : Call(p, kind)
  \/ \E o \in DOMAIN ops : Step(o)

Spec == Init /\ [][Next]_vars

\* The file system answers: an operation that can go on does.
FairSpec == Spec /\ WF_vars(\E o \in DOMAIN ops : Step(o))

-----------------------------------------------------------------------------
(* Properties. *)

OpIds == 0..MaxOps
Tokens == {Newline} \cup (OpIds \X {1, 2})
Steps == {"start", "look", "settle", "stat", "cut", "open", "write", "rename", "done",
          "failed", "dead"}

\* The type of every variable; the queue map names only operations that have
\* not settled, so an idle session holds no entry in it.
TypeOK ==
  /\ inodes \in Seq(Seq(Tokens)) /\ path \in 0..Len(inodes)
  /\ ops \in Seq([proc : Procs, kind : Kinds, at : Steps, after : OpIds, tries : 0..Attempts,
                  size : Nat, start : Nat, handle : 0..Len(inodes), left : Seq(Tokens),
                  gone : BOOLEAN])
  /\ tail \in [Procs -> {0} \cup {o \in DOMAIN ops : ~Settled(o)}]
  /\ crashes \in 0..MaxCrashes /\ faults \in 0..MaxFaults /\ overtaken \in BOOLEAN

Acknowledged == {o \in DOMAIN ops : Is(o, "append", "done") /\ ~ops[o].gone}

\* What a repair is about to cut off holds nothing of an entry whose append
\* resolved: "#prepareAppend refuses to destroy a tail it cannot prove is dead"
\* (append, jsonl-store.ts:197-198).
CutsOnlyTheDead ==
  \A o \in DOMAIN ops : ops[o].at = "cut" =>
    \A i \in DOMAIN inodes[ops[o].handle] :
      i > ops[o].start => inodes[ops[o].handle][i][1] \notin Acknowledged

\* jsonl-store.ts:397-400: "a later append can never resurrect a deleted
\* session as an orphan carrying entries with no header line".
NoOrphan == HasLines(Content) => ops[FirstLine(Content)[1][1]].kind \in {"create", "title"}

\* The same for every history without a delete that overtakes a writer.
HeaderFirst == ~overtaken => NoOrphan

\* Every operation comes to an end, with or without success, whatever the one
\* queued before it met (#serialize chains on previous.catch(() => undefined)):
\* none stays unsettled, and what has settled stays so.
EveryCallSettles == \A n \in 1..MaxOps : []<>Settled(n)

\* The entries a reader gets, by number; nothing once a delete is done.  entries()
\* parses the lines after the header: a torn last one is skipped, any other makes
\* it reject the file as corrupt.
Deleted == \E o \in DOMAIN ops : Is(o, "delete", "done")
EntryStarts ==
  LET starts == Starts(Content) IN {i \in starts : \E j \in starts : j < i}
WholeEntries == {i \in EntryStarts : Whole(LineAt(Content, i))}
Corrupt ==
  LET starts == EntryStarts  whole == WholeEntries
  IN \E i, j \in starts : i < j /\ i \notin whole
Readable ==
  LET whole == WholeEntries IN
  IF Deleted \/ Corrupt THEN <<>>
  ELSE [k \in 1..Cardinality(whole) |->
          Content[CHOOSE i \in whole : Cardinality(whole \cap (1..i)) = k][1]]

Promise == INSTANCE EntryLog WITH
  Entries <- 1..MaxOps, log <- Readable, acked <- Acknowledged,
  refused <- {o \in DOMAIN ops : Is(o, "append", "failed")}, deleted <- Deleted

\* The file implements the log: every step of one process, its deaths included,
\* is a step of EntryLog or none.  An entry, once readable, stays, so that no
\* torn line may ever be buried under a later one; only the one being written
\* can appear.  The entry of a rejected append is in the file when all its bytes
\* were before the write or the close threw; if it is not there by then, no later
\* repair brings it back.
ImplementsEntryLog == Promise!Spec
=============================================================================
