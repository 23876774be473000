------------------------- MODULE SessionStoreProofs -------------------------
(***************************************************************************)
(* SessionStore keeps its types, whatever number of processes uses the     *)
(* session; with one process, its file never begins with anything but a    *)
(* header unless a delete overtakes a writer.                              *)
(*                                                                         *)
(* The argument: what a delete waits for is the end of the queue, and the  *)
(* queue is served in order, so when the file goes every writer called     *)
(* before has settled; one called later is past its access check, which is *)
(* what overtaken records, or still at its start, where it will find no    *)
(* file.  Until then the path names a file that begins with the header of  *)
(* a create or a retitle, because only an append to an empty file could    *)
(* begin it otherwise, and nobody is given the session's id before its     *)
(* create has resolved or its header has been read.                        *)
(*                                                                         *)
(* With one process the file also implements EntryLog.  Until a delete it  *)
(* is made of lines of three tokens, the last one perhaps torn, so that    *)
(* its length says what its tail is; one operation at a time is past its   *)
(* guard, so that what it saw of the tail is still so when it acts on it;  *)
(* and what is left of its line completes a line of three, after a repair  *)
(* or a newline where it needs one.  A reader then finds every entry whose *)
(* two halves are there: a write adds at most its own, behind those of the *)
(* appends called before, a cut takes away a first half that nobody could  *)
(* read, and a retitle replaces the first line alone.                      *)
(***************************************************************************)
EXTENDS SessionStore, WellFoundedInduction, FiniteSetTheorems, TLAPS

-----------------------------------------------------------------------------
(* Least and greatest numbers; lines. *)

\* A set of numbers that is not empty has a least element.
LEMMA LeastOf ==
  ASSUME NEW B \in SUBSET Nat, B # {}
  PROVE  Min(B) \in B /\ \A j \in B : Min(B) <= j
<1> DEFINE R == {ss \in Nat \X Nat : ss[1] < ss[2]}
<1>1. IsWellFoundedOn(R, Nat)
  BY NatLessThanWellFounded DEF OpToRel
<1> HIDE DEF R
<1>2. PICK k \in B : \A j \in B : ~ (<<j, k>> \in R)
  BY <1>1, WFMin
<1>3. \A j \in B : ~(j < k)
  BY <1>2 DEF R
<1>4. \E x \in B : \A j \in B : x <= j
  BY <1>3
<1>5. QED
  BY <1>4 DEF Min

\* A set of numbers below a bound that is not empty has a greatest element.
LEMMA GreatestOf ==
  ASSUME NEW n \in Nat, NEW B \in SUBSET (0..n), B # {}
  PROVE  Max(B) \in B /\ \A j \in B : Max(B) >= j
<1> DEFINE C == {n - i : i \in B}
<1>1. C \in SUBSET Nat /\ C # {}
  <2>1. PICK x \in B : TRUE
    OBVIOUS
  <2>2. n - x \in C
    BY <2>1
  <2>3. \A i \in B : n - i \in Nat
    OBVIOUS
  <2>4. QED
    BY <2>2, <2>3
<1> HIDE DEF C
<1>2. PICK k \in C : \A j \in C : k <= j
  BY <1>1, LeastOf
<1>3. PICK x \in B : k = n - x
  BY <1>2 DEF C
<1>4. \A j \in B : n - j \in C
  BY DEF C
<1>5. \A j \in B : x >= j
  BY <1>2, <1>3, <1>4
<1>6. \E y \in B : \A j \in B : y >= j
  BY <1>5
<1>7. QED
  BY <1>6 DEF Max

\* The last line starts inside the file.
LEMMA StartTyped ==
  ASSUME NEW content \in Seq(Tokens)
  PROVE  LastLineStart(content) \in 0..Len(content)
<1> DEFINE B == {0} \cup Breaks(content)
<1>1. B \in SUBSET (0..Len(content)) /\ B # {} /\ Len(content) \in Nat
  BY DEF Breaks
<1> HIDE DEF B
<1>2. Max(B) \in B
  BY <1>1, GreatestOf
<1>3. QED
  BY <1>1, <1>2 DEF LastLineStart, B

\* A tail is torn only behind a line that is finished.
LEMMA TornTail ==
  ASSUME NEW content \in Seq(Tokens), TailKind(content) = "torn"
  PROVE  LastLineStart(content) \in Nat \ {0}
<1>1. LastLineStart(content) # 0
  BY DEF TailKind
<1>2. QED
  BY <1>1, StartTyped

\* What a retitle keeps is made of the same tokens.
LEMMA BodyTyped ==
  ASSUME NEW content \in Seq(Tokens)
  PROVE  Body(content) \in Seq(Tokens)
<1>1. CASE Breaks(content) = {}
  BY <1>1 DEF Body
<1>2. CASE Breaks(content) # {}
  <2> DEFINE m == Min(Breaks(content))
  <2>1. Breaks(content) \in SUBSET Nat
    BY DEF Breaks
  <2>2. m \in Breaks(content)
    BY <1>2, <2>1, LeastOf
  <2>3. m \in 1..Len(content)
    BY <2>2 DEF Breaks
  <2> HIDE DEF m
  <2>4. SubSeq(content, m + 1, Len(content)) \in Seq(Tokens)
    BY <2>3
  <2>5. QED
    BY <1>2, <2>4 DEF Body, m
<1>3. QED
  BY <1>1, <1>2

\* The first line of a file that does not begin with a line break begins it.
LEMMA FirstLineBegins ==
  ASSUME NEW content \in Seq(Tokens), content # <<>>, content[1] # Newline
  PROVE  FirstLine(content) # <<>> /\ FirstLine(content)[1] = content[1]
<1> DEFINE A == {i \in DOMAIN content : content[i] # Newline}
<1>1. A \in SUBSET Nat /\ 1 \in A /\ \A i \in A : i >= 1
  OBVIOUS
<1>2. Min(A) = 1
  <2> HIDE DEF A
  <2>1. Min(A) \in A /\ Min(A) <= 1
    BY <1>1, LeastOf
  <2>2. Min(A) \in Nat /\ Min(A) >= 1
    BY <1>1, <2>1
  <2>3. QED
    BY <2>1, <2>2
<1> DEFINE E == {i \in 1..Len(content) : i = Len(content) \/ content[i + 1] = Newline}
<1>3. E \in SUBSET Nat /\ Len(content) \in E /\ \A i \in E : i \in 1..Len(content)
  OBVIOUS
<1>4. Min(E) \in 1..Len(content)
  <2> HIDE DEF E
  <2>1. Min(E) \in E
    BY <1>3, LeastOf
  <2>2. QED
    BY <1>3, <2>1
<1>5. FirstLine(content) = SubSeq(content, 1, Min(E))
  BY <1>2 DEF FirstLine, LineAt
<1> HIDE DEF E
<1>6. QED
  BY <1>4, <1>5

-----------------------------------------------------------------------------
(* The inductive invariant. *)

Ended == {"done", "failed", "dead"}

\* append and setTitle queue behind each other.
Queues(o) == ops[o].kind \in {"append", "title"}
Gone == \E o \in DOMAIN ops : Is(o, "delete", "done")

OpRecs(n) == [proc : Procs, kind : Kinds, at : Steps, after : OpIds, tries : 0..Attempts,
              size : Nat, start : Nat, handle : 0..n, left : Seq(Tokens), gone : BOOLEAN]

StepsOf(kind) ==
  {"start", "done", "failed", "dead"} \cup
  (CASE kind = "create" -> {"write"}
     [] kind = "append" -> {"look", "settle", "stat", "cut", "open", "write"}
     [] kind = "title"  -> {"rename"}
     [] OTHER           -> {})

\* The first thing in a file, if anything is, is the header of a create or a retitle.
Headed(content) ==
  content # <<>> => /\ content[1] # Newline /\ content[1][1] \in DOMAIN ops
                    /\ ops[content[1][1]].kind \in {"create", "title"}

TypesInv ==
  /\ TypeOK
  /\ Len(ops) <= MaxOps
  /\ \A p \in Procs : tail[p] # 0 => Queues(tail[p]) /\ ops[tail[p]].proc = p
  /\ \A o \in DOMAIN ops : ops[o].after < o /\ (ops[o].after # 0 => Queues(ops[o].after))

\* What the o-th operation r may be in the middle of.
InStep(o, r, files) ==
  /\ r.at \in StepsOf(r.kind)
  /\ r.at \in {"cut", "write"} => r.handle # 0
  /\ r.at \in {"settle", "stat", "cut"} => r.start # 0
  /\ r.at = "rename" => r.left # <<>> /\ r.left[1] = Half(o, 1)
  /\ r.kind = "create" /\ r.at = "write" /\ files[r.handle] = <<>> =>
       r.left # <<>> /\ r.left[1] = Half(o, 1)
  /\ r.kind = "create" /\ r.at = "done" => r.handle # 0 /\ files[r.handle] # <<>>

StepsInv == \A o \in DOMAIN ops : InStep(o, ops[o], inodes)

\* One process: the queue is served in order.
QueueInv ==
  ~Gone =>
    /\ \A i, j \in DOMAIN ops : i < j /\ Queues(i) /\ Queues(j) /\ ops[j].at # "start" => Settled(i)
    /\ \A i, j \in DOMAIN ops : i < j /\ Queues(i) /\ ops[j].kind # "create" =>
         i <= ops[j].after \/ Settled(i)
    /\ \A i \in DOMAIN ops : Queues(i) /\ ~Settled(i) => i <= tail[ops[i].proc]

\* Until a delete, every file begins with a header and none that is used is empty.
FilesInv ==
  ~Gone =>
    /\ \A i \in DOMAIN inodes : Headed(inodes[i])
    /\ path = 0 => /\ inodes = <<>>
                   /\ \A o \in DOMAIN ops : ops[o].kind = "create" /\ ops[o].at \in {"start", "failed", "dead"}
    /\ path # 0 /\ (\A o \in DOMAIN ops : ops[o].kind = "create") => Len(inodes) = 1
    /\ (\E o \in DOMAIN ops : ops[o].kind # "create") => \A i \in DOMAIN inodes : inodes[i] # <<>>

\* After it, nothing is under way that could bring the file back.
GoneInv ==
  /\ (\E o \in DOMAIN ops : ops[o].kind = "delete") =>
        \A o \in DOMAIN ops : ops[o].kind = "create" => Settled(o)
  /\ Gone /\ ~overtaken => path = 0 /\ \A o \in DOMAIN ops : Settled(o) \/ ops[o].at = "start"

IInv == TypesInv /\ StepsInv /\ QueueInv /\ FilesInv /\ GoneInv

-----------------------------------------------------------------------------
(* Types. *)

\* What the type invariant says of every variable.
LEMMA Typed ==
  ASSUME TypesInv
  PROVE  /\ inodes \in Seq(Seq(Tokens)) /\ Len(inodes) \in Nat /\ DOMAIN inodes = 1..Len(inodes)
         /\ path \in 0..Len(inodes) /\ ops \in Seq(OpRecs(Len(inodes)))
         /\ DOMAIN ops = 1..Len(ops) /\ Len(ops) \in Nat /\ Len(ops) <= MaxOps /\ MaxOps \in Nat
         /\ \A o \in DOMAIN ops : o \in Nat /\ o # 0 /\ o \in OpIds
         /\ faults \in 0..MaxFaults /\ crashes \in 0..MaxCrashes
         /\ \A p \in Procs : tail[p] \in {0} \cup DOMAIN ops
<1>1. /\ inodes \in Seq(Seq(Tokens)) /\ path \in 0..Len(inodes) /\ ops \in Seq(OpRecs(Len(inodes)))
      /\ Len(ops) <= MaxOps /\ MaxOps \in Nat
      /\ faults \in 0..MaxFaults /\ crashes \in 0..MaxCrashes
  BY BoundsAssumption DEF TypesInv, TypeOK, OpRecs
<1>2. DOMAIN ops = 1..Len(ops) /\ Len(ops) \in Nat /\ Len(inodes) \in Nat /\ DOMAIN inodes = 1..Len(inodes)
  BY <1>1
<1>3. \A o \in DOMAIN ops : o \in Nat /\ o # 0 /\ o \in OpIds
  BY <1>1, <1>2 DEF OpIds
<1>4. \A p \in Procs : tail[p] \in {0} \cup DOMAIN ops
  BY DEF TypesInv, TypeOK
<1>5. QED
  BY <1>1, <1>2, <1>3, <1>4

\* What it says of one operation.
LEMMA OpTyped ==
  ASSUME TypesInv, NEW o \in DOMAIN ops
  PROVE  /\ ops[o] \in OpRecs(Len(inodes)) /\ ops[o].proc \in Procs /\ ops[o].kind \in Kinds
         /\ ops[o].at \in Steps /\ ops[o].after \in OpIds /\ ops[o].tries \in 0..Attempts
         /\ ops[o].size \in Nat /\ ops[o].start \in Nat /\ ops[o].handle \in 0..Len(inodes)
         /\ ops[o].left \in Seq(Tokens) /\ ops[o].gone \in BOOLEAN
<1>1. ops[o] \in OpRecs(Len(inodes))
  BY Typed
<1>2. QED
  BY <1>1 DEF OpRecs

\* What it says of the session's file.
LEMMA ContentTyped ==
  ASSUME TypesInv
  PROVE  Content \in Seq(Tokens) /\ Len(Content) \in Nat
<1>1. CASE path = 0
  BY <1>1 DEF Content
<1>2. CASE path # 0
  BY <1>2, Typed DEF Content
<1>3. QED
  BY <1>1, <1>2

\* What a concatenation begins with.
LEMMA Joined ==
  ASSUME NEW S, NEW s \in Seq(S), NEW t \in Seq(S)
  PROVE  /\ s \o t \in Seq(S) /\ Len(s \o t) = Len(s) + Len(t)
         /\ s # <<>> => s \o t # <<>> /\ (s \o t)[1] = s[1]
         /\ s = <<>> /\ t # <<>> => s \o t # <<>> /\ (s \o t)[1] = t[1]
<1>1. s \o t \in Seq(S) /\ Len(s \o t) = Len(s) + Len(t) /\ Len(s) \in Nat /\ Len(t) \in Nat
  OBVIOUS
<1>2. s # <<>> => Len(s) > 0
  OBVIOUS
<1>3. s # <<>> => s \o t # <<>>
  BY <1>1, <1>2
<1>4. s # <<>> => (s \o t)[1] = s[1]
  BY <1>2
<1>5. s = <<>> /\ t # <<>> => s \o t # <<>> /\ (s \o t)[1] = t[1]
  OBVIOUS
<1>6. QED
  BY <1>1, <1>3, <1>4, <1>5

\* A line begins with the first half of its operation, whatever follows it.
LEMMA LineTyped ==
  ASSUME TypesInv, NEW o \in DOMAIN ops
  PROVE  /\ Line(o) \in Seq(Tokens) /\ Line(o) # <<>> /\ Line(o)[1] = Half(o, 1)
         /\ <<Newline>> \o Line(o) \in Seq(Tokens) /\ \A c \in Seq(Tokens) : Prefix(c) \o Line(o) \in Seq(Tokens)
         /\ \A c \in Seq(Tokens) : /\ Line(o) \o c \in Seq(Tokens) /\ Line(o) \o c # <<>>
                                   /\ (Line(o) \o c)[1] = Half(o, 1)
<1>1. Newline \in Tokens /\ Half(o, 1) \in Tokens /\ Half(o, 2) \in Tokens
  BY Typed DEF Tokens, Half
<1>2. Line(o) \in Seq(Tokens) /\ Len(Line(o)) = 3 /\ Line(o)[1] = Half(o, 1) /\ Line(o) # <<>>
  BY <1>1 DEF Line
<1>3. <<Newline>> \in Seq(Tokens) /\ <<>> \in Seq(Tokens)
  BY <1>1
<1>4. \A c \in Seq(Tokens) : Prefix(c) \in Seq(Tokens)
  BY <1>3 DEF Prefix
<1> DEFINE l == Line(o)
<1>5. l \in Seq(Tokens) /\ l # <<>> /\ l[1] = Half(o, 1)
  BY <1>2
<1> HIDE DEF l
<1>6. ASSUME NEW c \in Seq(Tokens)
      PROVE  l \o c \in Seq(Tokens) /\ l \o c # <<>> /\ (l \o c)[1] = Half(o, 1)
  BY <1>5, Joined
<1>7. \A c \in Seq(Tokens) : c \o l \in Seq(Tokens)
  BY <1>5
<1>8. QED
  BY <1>2, <1>3, <1>4, <1>6, <1>7 DEF l

-----------------------------------------------------------------------------
(* One operation takes a step. *)

\* The queue lets o go on.
Served(o) == ops[o].at # "start" \/ ops[o].kind = "create" \/ Ready(o)

Moves(o, r) ==
  /\ o \in DOMAIN ops /\ ~Settled(o) /\ ops' = Set(o, r)
  /\ r \in OpRecs(Len(inodes'))
  /\ r.proc = ops[o].proc /\ r.kind = ops[o].kind /\ r.after = ops[o].after /\ r.gone = ops[o].gone
  /\ tail' = (IF r.at \in Ended THEN Leave(o) ELSE tail)
  /\ InStep(o, r, inodes') /\ Served(o)
  /\ r.kind = "delete" => r.at = "failed"
  /\ path = 0 /\ ops[o].at = "start" /\ ops[o].kind # "create" => r.at \in Ended /\ path' = 0
  /\ UNCHANGED <<crashes, overtaken>> /\ faults' \in 0..MaxFaults

\* Nothing happens to a file.
Idle(o, r) ==
  Moves(o, r) /\ UNCHANGED <<inodes, path>> /\ (path = 0 /\ ops[o].kind = "create" => r.at = "failed")

\* A file is made, and the path names it.
NewFile(o, r, content) ==
  /\ Moves(o, r) /\ content \in Seq(Tokens)
  /\ inodes' = Append(inodes, content) /\ path' = Len(inodes) + 1
  /\ \/ path = 0 /\ ops[o].kind = "create" /\ content = <<>>
     \/ path = 0 /\ ops[o].kind = "append" /\ ops[o].at # "start"
     \/ ops[o].kind = "title" /\ ops[o].at # "start" /\ content # <<>> /\ content[1] = Half(o, 1)

\* File h now holds content; what it began with is still there.
Touch(o, r, h, content) ==
  /\ Moves(o, r) /\ content \in Seq(Tokens) /\ h \in DOMAIN inodes
  /\ inodes' = [inodes EXCEPT ![h] = content] /\ path' = path
  /\ ops[o].at # "start"
  /\ inodes[h] # <<>> => content # <<>> /\ content[1] = inodes[h][1]
  /\ inodes[h] = <<>> /\ ops[o].kind = "create" => content # <<>> /\ content[1] = Half(o, 1)

Effect(o) ==
  \E r : \/ Idle(o, r)
         \/ \E content : NewFile(o, r, content)
         \/ \E h, content : Touch(o, r, h, content)

\* A settled operation is one that has ended.
LEMMA EndedIsSettled ==
  ASSUME TypesInv, NEW o \in DOMAIN ops
  PROVE  Settled(o) <=> ops[o].at \in Ended
  BY DEF Settled, Ended

\* An operation with some fields changed is an operation.
LEMMA Recorded ==
  ASSUME NEW n \in Nat, NEW r \in OpRecs(n)
  PROVE  /\ \A at \in Steps : [r EXCEPT !.at = at] \in OpRecs(n)
         /\ \A at \in Steps, left \in Seq(Tokens) : [r EXCEPT !.at = at, !.left = left] \in OpRecs(n)
         /\ \A at \in Steps, h \in 0..n : [r EXCEPT !.handle = h, !.at = at] \in OpRecs(n)
         /\ \A at \in Steps, h \in 0..n, left \in Seq(Tokens) :
              [r EXCEPT !.at = at, !.handle = h, !.left = left] \in OpRecs(n)
         /\ \A at \in Steps, size \in Nat, start \in Nat, tries \in 0..Attempts :
              [r EXCEPT !.at = at, !.size = size, !.start = start, !.tries = tries] \in OpRecs(n)
         /\ r \in OpRecs(n + 1)
<1>1. n \in Nat /\ 0..n \subseteq 0..(n + 1)
  OBVIOUS
<1>2. r \in OpRecs(n + 1)
  BY <1>1 DEF OpRecs
<1>3. \A at \in Steps : [r EXCEPT !.at = at] \in OpRecs(n)
  BY DEF OpRecs
<1>4. \A at \in Steps, left \in Seq(Tokens) : [r EXCEPT !.at = at, !.left = left] \in OpRecs(n)
  BY DEF OpRecs
<1>5. \A at \in Steps, h \in 0..n : [r EXCEPT !.handle = h, !.at = at] \in OpRecs(n)
  BY DEF OpRecs
<1>6. \A at \in Steps, h \in 0..n, left \in Seq(Tokens) :
              [r EXCEPT !.at = at, !.handle = h, !.left = left] \in OpRecs(n)
  BY DEF OpRecs
<1>7. \A at \in Steps, size \in Nat, start \in Nat, tries \in 0..Attempts :
              [r EXCEPT !.at = at, !.size = size, !.start = start, !.tries = tries] \in OpRecs(n)
  BY DEF OpRecs
<1>8. QED
  BY <1>2, <1>3, <1>4, <1>5, <1>6, <1>7

\* Its other fields are as they were.
LEMMA RecFields ==
  ASSUME NEW n, NEW r \in OpRecs(n), NEW at, NEW left, NEW h, NEW size, NEW start, NEW tries
  PROVE  /\ LET c == [r EXCEPT !.at = at] IN
              /\ c.at = at /\ c.proc = r.proc /\ c.kind = r.kind /\ c.after = r.after /\ c.gone = r.gone
              /\ c.start = r.start /\ c.handle = r.handle /\ c.left = r.left
         /\ LET c == [r EXCEPT !.at = at, !.left = left] IN
              /\ c.at = at /\ c.proc = r.proc /\ c.kind = r.kind /\ c.after = r.after /\ c.gone = r.gone
              /\ c.start = r.start /\ c.handle = r.handle /\ c.left = left
         /\ LET c == [r EXCEPT !.handle = h, !.at = at] IN
              /\ c.at = at /\ c.proc = r.proc /\ c.kind = r.kind /\ c.after = r.after /\ c.gone = r.gone
              /\ c.start = r.start /\ c.handle = h /\ c.left = r.left
         /\ LET c == [r EXCEPT !.at = at, !.handle = h, !.left = left] IN
              /\ c.at = at /\ c.proc = r.proc /\ c.kind = r.kind /\ c.after = r.after /\ c.gone = r.gone
              /\ c.start = r.start /\ c.handle = h /\ c.left = left
         /\ LET c == [r EXCEPT !.at = at, !.size = size, !.start = start, !.tries = tries] IN
              /\ c.at = at /\ c.proc = r.proc /\ c.kind = r.kind /\ c.after = r.after /\ c.gone = r.gone
              /\ c.start = start /\ c.handle = r.handle /\ c.left = r.left
  BY DEF OpRecs

\* An operation that fails, or throws, moves no file.
LEMMA FailMoves ==
  ASSUME TypesInv, StepsInv, NEW o \in DOMAIN ops, ~Settled(o), Served(o), Fail(o) \/ Throws(o)
  PROVE  Effect(o)
<1> DEFINE r == [ops[o] EXCEPT !.at = "failed"]
<1>1. r \in OpRecs(Len(inodes))
  BY OpTyped, Recorded, Typed DEF Steps
<1>2. /\ r.at = "failed" /\ r.proc = ops[o].proc /\ r.kind = ops[o].kind /\ r.after = ops[o].after
      /\ r.gone = ops[o].gone
  BY OpTyped, RecFields
<1>3. ops' = Set(o, r) /\ tail' = Leave(o) /\ UNCHANGED <<inodes, path, crashes, overtaken>>
  BY DEF Fail, Throws
<1>5. faults' \in 0..MaxFaults
  BY Typed, BoundsAssumption DEF Fail, Throws
<1> HIDE DEF r
<1>4. InStep(o, r, inodes')
  BY <1>2 DEF InStep, StepsOf
<1>6. Moves(o, r)
  BY <1>1, <1>2, <1>3, <1>4, <1>5 DEF Moves, Ended
<1>7. QED
  BY <1>2, <1>3, <1>6 DEF Effect, Idle

\* An operation that only goes on moves no file.
LEMMA AdvanceMoves ==
  ASSUME TypesInv, StepsInv, NEW o \in DOMAIN ops, ~Settled(o), Served(o), NEW r, Advance(o, r),
         r \in OpRecs(Len(inodes)), r.at \notin Ended, path # 0,
         r.proc = ops[o].proc, r.kind = ops[o].kind, r.after = ops[o].after, r.gone = ops[o].gone,
         ops[o].kind # "delete", InStep(o, r, inodes)
  PROVE  Effect(o)
<1>1. ops' = Set(o, r) /\ UNCHANGED <<inodes, path, tail, crashes, faults, overtaken>>
  BY DEF Advance
<1>2. faults' \in 0..MaxFaults
  BY <1>1, Typed
<1>3. Moves(o, r)
  BY <1>1, <1>2 DEF Moves, Ended
<1>4. QED
  BY <1>1, <1>3 DEF Effect, Idle

\* The steps that fail.
LEMMA FailEffects ==
  ASSUME TypesInv, StepsInv, NEW o \in DOMAIN ops,
         CreateExists(o) \/ MissingFile(o) \/ TitleCorrupt(o) \/ UnlinkMissing(o) \/ Throws(o)
  PROVE  Effect(o)
<1>1. \/ Fail(o) /\ ops[o].at \in {"start", "look", "settle", "stat"}
      \/ Throws(o)
  BY DEF CreateExists, MissingFile, TitleCorrupt, UnlinkMissing, Is
<1>2. ~Settled(o)
  BY <1>1, EndedIsSettled DEF Ended, Throws
<1>3. Served(o)
  BY DEF CreateExists, MissingFile, TitleCorrupt, UnlinkMissing, Throws, Is, Served
<1>4. QED
  BY <1>1, <1>2, <1>3, FailMoves

\* append's access.
LEMMA AccessEffect ==
  ASSUME TypesInv, StepsInv, NEW o \in DOMAIN ops, Access(o)
  PROVE  Effect(o)
<1> DEFINE r == [ops[o] EXCEPT !.at = "look"]
<1>1. r \in OpRecs(Len(inodes))
  BY OpTyped, Recorded, Typed DEF Steps
<1>2. /\ r.at = "look" /\ r.proc = ops[o].proc /\ r.kind = ops[o].kind /\ r.after = ops[o].after
      /\ r.gone = ops[o].gone
  BY OpTyped, RecFields
<1>3. ops[o].kind = "append" /\ ops[o].at = "start" /\ Ready(o) /\ path # 0 /\ Advance(o, r)
  BY DEF Access, Is
<1> HIDE DEF r
<1>4. InStep(o, r, inodes)
  BY <1>2, <1>3 DEF InStep, StepsOf
<1>5. ~Settled(o) /\ Served(o)
  BY <1>3, EndedIsSettled DEF Ended, Served
<1>6. QED
  BY <1>1, <1>2, <1>3, <1>4, <1>5, AdvanceMoves DEF Ended

\* The first look at the tail.
LEMMA LookEffect ==
  ASSUME TypesInv, StepsInv, NEW o \in DOMAIN ops, Look(o)
  PROVE  Effect(o)
<1>1. ops[o].kind = "append" /\ ops[o].at = "look" /\ path # 0
  BY DEF Look, Is
<1>2. ~Settled(o) /\ Served(o)
  BY <1>1, EndedIsSettled DEF Ended, Served
<1>3. ASSUME NEW left \in Seq(Tokens), Advance(o, [ops[o] EXCEPT !.at = "open", !.left = left])
      PROVE  Effect(o)
  <2> DEFINE r == [ops[o] EXCEPT !.at = "open", !.left = left]
  <2>1. r \in OpRecs(Len(inodes))
    BY OpTyped, Recorded, Typed DEF Steps
  <2>2. /\ r.at = "open" /\ r.proc = ops[o].proc /\ r.kind = ops[o].kind /\ r.after = ops[o].after
        /\ r.gone = ops[o].gone
    BY OpTyped, RecFields
  <2>3. Advance(o, r)
    BY <1>3
  <2> HIDE DEF r
  <2>4. InStep(o, r, inodes)
    BY <1>1, <2>2 DEF InStep, StepsOf
  <2>5. QED
    BY <1>1, <1>2, <2>1, <2>2, <2>3, <2>4, AdvanceMoves DEF Ended
<1>4. CASE ops[o].tries >= Attempts
  BY <1>3, <1>4, LineTyped DEF Look
<1>5. CASE ~(ops[o].tries >= Attempts) /\ TailKind(Content) # "torn"
  BY <1>3, <1>5, LineTyped, ContentTyped DEF Look
<1>6. CASE ~(ops[o].tries >= Attempts) /\ TailKind(Content) = "torn"
  <2> DEFINE size == Len(Content)
             start == LastLineStart(Content)
             r == [ops[o] EXCEPT !.at = "settle", !.size = size, !.start = start,
                                 !.tries = ops[o].tries + 1]
  <2>1. size \in Nat /\ start \in Nat \ {0}
    BY <1>6, ContentTyped, TornTail
  <2>2. ops[o].tries + 1 \in 0..Attempts
    BY <1>6, OpTyped, AttemptsAssumption
  <2>3. Advance(o, r)
    BY <1>6 DEF Look
  <2> HIDE DEF size, start
  <2>4. r \in OpRecs(Len(inodes))
    BY <2>1, <2>2, OpTyped, Recorded, Typed DEF Steps
  <2>5. /\ r.at = "settle" /\ r.proc = ops[o].proc /\ r.kind = ops[o].kind /\ r.after = ops[o].after
        /\ r.gone = ops[o].gone /\ r.start = start
    BY OpTyped, RecFields
  <2> HIDE DEF r
  <2>6. InStep(o, r, inodes)
    BY <1>1, <2>1, <2>5 DEF InStep, StepsOf
  <2>7. QED
    BY <1>1, <1>2, <2>3, <2>4, <2>5, <2>6, AdvanceMoves DEF Ended
<1>7. QED
  BY <1>4, <1>5, <1>6

\* The second look.
LEMMA SettleEffect ==
  ASSUME TypesInv, StepsInv, NEW o \in DOMAIN ops, Settle(o)
  PROVE  Effect(o)
<1>1. ops[o].kind = "append" /\ ops[o].at = "settle" /\ path # 0
  BY DEF Settle, Is
<1>2. ~Settled(o) /\ Served(o)
  BY <1>1, EndedIsSettled DEF Ended, Served
<1>3. PICK at \in {"stat", "look"} : Advance(o, [ops[o] EXCEPT !.at = at])
  BY DEF Settle
<1> DEFINE r == [ops[o] EXCEPT !.at = at]
<1>4. r \in OpRecs(Len(inodes))
  BY <1>3, OpTyped, Recorded, Typed DEF Steps
<1>5. /\ r.at = at /\ r.proc = ops[o].proc /\ r.kind = ops[o].kind /\ r.after = ops[o].after
      /\ r.gone = ops[o].gone /\ r.start = ops[o].start
  BY OpTyped, RecFields
<1>6. Advance(o, r)
  BY <1>3
<1> HIDE DEF r
<1>7. ops[o].start # 0
  BY <1>1 DEF StepsInv, InStep
<1>8. InStep(o, r, inodes)
  BY <1>1, <1>3, <1>5, <1>7 DEF InStep, StepsOf
<1>9. QED
  BY <1>1, <1>2, <1>3, <1>4, <1>5, <1>6, <1>8, AdvanceMoves DEF Ended

\* The look through the handle.
LEMMA StatEffect ==
  ASSUME TypesInv, StepsInv, NEW o \in DOMAIN ops, Stat(o)
  PROVE  Effect(o)
<1>1. ops[o].kind = "append" /\ ops[o].at = "stat" /\ path # 0
  BY DEF Stat, Is
<1>2. ~Settled(o) /\ Served(o)
  BY <1>1, EndedIsSettled DEF Ended, Served
<1>3. PICK at \in {"cut", "look"} : Advance(o, [ops[o] EXCEPT !.handle = path, !.at = at])
  BY DEF Stat
<1> DEFINE r == [ops[o] EXCEPT !.handle = path, !.at = at]
<1>4. r \in OpRecs(Len(inodes))
  BY <1>3, OpTyped, Recorded, Typed DEF Steps
<1>5. /\ r.at = at /\ r.proc = ops[o].proc /\ r.kind = ops[o].kind /\ r.after = ops[o].after
      /\ r.gone = ops[o].gone /\ r.start = ops[o].start /\ r.handle = path
  BY OpTyped, RecFields
<1>6. Advance(o, r)
  BY <1>3
<1> HIDE DEF r
<1>7. ops[o].start # 0
  BY <1>1 DEF StepsInv, InStep
<1>8. InStep(o, r, inodes)
  BY <1>1, <1>3, <1>5, <1>7 DEF InStep, StepsOf
<1>9. QED
  BY <1>1, <1>2, <1>3, <1>4, <1>5, <1>6, <1>8, AdvanceMoves DEF Ended

\* setTitle's read: the rewrite it prepares begins with its own header.
LEMMA TitleReadsEffect ==
  ASSUME TypesInv, StepsInv, NEW o \in DOMAIN ops, TitleReads(o)
  PROVE  Effect(o)
<1>1. ops[o].kind = "title" /\ ops[o].at = "start" /\ path # 0 /\ Ready(o)
  BY DEF TitleReads, Is
<1>2. ~Settled(o) /\ Served(o)
  BY <1>1, EndedIsSettled DEF Ended, Served
<1> DEFINE left == Line(o) \o Body(Content)
           r == [ops[o] EXCEPT !.at = "rename", !.left = left]
<1>3. left \in Seq(Tokens) /\ left # <<>> /\ left[1] = Half(o, 1)
  BY ContentTyped, BodyTyped, LineTyped
<1>4. Advance(o, r)
  BY DEF TitleReads
<1> HIDE DEF left
<1>5. r \in OpRecs(Len(inodes))
  BY <1>3, OpTyped, Recorded, Typed DEF Steps
<1>6. /\ r.at = "rename" /\ r.proc = ops[o].proc /\ r.kind = ops[o].kind /\ r.after = ops[o].after
      /\ r.gone = ops[o].gone /\ r.left = left
  BY OpTyped, RecFields
<1> HIDE DEF r
<1>7. InStep(o, r, inodes)
  BY <1>1, <1>3, <1>6 DEF InStep, StepsOf
<1>8. QED
  BY <1>1, <1>2, <1>4, <1>5, <1>6, <1>7, AdvanceMoves DEF Ended

\* create's file.
LEMMA CreateOpensEffect ==
  ASSUME TypesInv, StepsInv, NEW o \in DOMAIN ops, CreateOpens(o)
  PROVE  Effect(o)
<1> DEFINE n == Len(inodes) + 1
           left == Line(o)
           r == [ops[o] EXCEPT !.at = "write", !.handle = n, !.left = left]
<1>1. ops[o].kind = "create" /\ ops[o].at = "start" /\ path = 0
  BY DEF CreateOpens, Is
<1>2. /\ inodes' = Append(inodes, <<>>) /\ path' = n /\ ops' = Set(o, r)
      /\ UNCHANGED <<tail, crashes, faults, overtaken>>
  BY DEF CreateOpens
<1>3. left \in Seq(Tokens) /\ left # <<>> /\ left[1] = Half(o, 1)
  BY LineTyped
<1>4. n \in Nat /\ n # 0 /\ n \in 0..n /\ Len(inodes') = n /\ <<>> \in Seq(Tokens)
  BY <1>2, Typed
<1> HIDE DEF left
<1>5. ops[o] \in OpRecs(n)
  BY OpTyped, Typed, Recorded
<1>6. r \in OpRecs(n)
  BY <1>3, <1>4, <1>5, Recorded DEF Steps
<1>7. /\ r.at = "write" /\ r.proc = ops[o].proc /\ r.kind = ops[o].kind /\ r.after = ops[o].after
      /\ r.gone = ops[o].gone /\ r.left = left /\ r.handle = n
  BY <1>5, RecFields
<1> HIDE DEF r
<1> HIDE DEF n
<1>8. InStep(o, r, inodes')
  BY <1>1, <1>3, <1>4, <1>7 DEF InStep, StepsOf
<1>9. ~Settled(o) /\ Served(o)
  BY <1>1, EndedIsSettled DEF Ended, Served
<1>10. faults' \in 0..MaxFaults
  BY <1>2, Typed
<1>11. Moves(o, r)
  BY <1>1, <1>2, <1>4, <1>6, <1>7, <1>8, <1>9, <1>10 DEF Moves, Ended
<1>12. NewFile(o, r, <<>>)
  BY <1>1, <1>2, <1>4, <1>11 DEF NewFile, n
<1>13. QED
  BY <1>12 DEF Effect

\* Opening for append, which makes the file it does not find.
LEMMA OpenEffect ==
  ASSUME TypesInv, StepsInv, NEW o \in DOMAIN ops, Open(o)
  PROVE  Effect(o)
<1>1. ops[o].kind = "append" /\ ops[o].at = "open"
  BY DEF Open, Is
<1>2. ~Settled(o) /\ Served(o)
  BY <1>1, EndedIsSettled DEF Ended, Served
<1> DEFINE r == [ops[o] EXCEPT !.handle = path', !.at = "write"]
           q == [ops[o] EXCEPT !.at = "write", !.handle = path']
<1>3. ops[o] \in OpRecs(Len(inodes)) /\ Len(inodes) \in Nat
  BY OpTyped, Typed
<1>4. r = q
  OBVIOUS
<1>5. /\ inodes' = (IF path = 0 THEN Append(inodes, <<>>) ELSE inodes)
      /\ path' = (IF path = 0 THEN Len(inodes) + 1 ELSE path)
      /\ ops' = Set(o, q)
      /\ UNCHANGED <<tail, crashes, faults, overtaken>>
  BY DEF Open
<1>6. path' # 0 /\ path' \in 0..Len(inodes') /\ ops[o] \in OpRecs(Len(inodes')) /\ Len(inodes') \in Nat
  <2>1. CASE path = 0
    <3>1. ops[o] \in OpRecs(Len(inodes) + 1)
      BY <1>3, Recorded
    <3>2. path' = Len(inodes) + 1 /\ Len(inodes') = Len(inodes) + 1
      BY <2>1, <1>5, Typed
    <3>3. QED
      BY <1>3, <3>1, <3>2
  <2>2. CASE path # 0
    BY <2>2, <1>3, <1>5, Typed
  <2>3. QED
    BY <2>1, <2>2
<1>7. r \in OpRecs(Len(inodes'))
  BY <1>6, Recorded DEF Steps
<1>8. /\ r.at = "write" /\ r.proc = ops[o].proc /\ r.kind = ops[o].kind /\ r.after = ops[o].after
      /\ r.gone = ops[o].gone /\ r.handle = path'
  BY <1>3, RecFields
<1>9. ops' = Set(o, r)
  BY <1>4, <1>5
<1> HIDE DEF r, q
<1>10. InStep(o, r, inodes')
  BY <1>1, <1>6, <1>8 DEF InStep, StepsOf
<1>11. faults' \in 0..MaxFaults
  BY <1>5, Typed
<1>12. Moves(o, r)
  BY <1>1, <1>2, <1>5, <1>7, <1>8, <1>9, <1>10, <1>11 DEF Moves, Ended
<1>13. CASE path = 0
  <2>1. <<>> \in Seq(Tokens)
    OBVIOUS
  <2>2. NewFile(o, r, <<>>)
    BY <1>1, <1>5, <1>12, <1>13, <2>1 DEF NewFile
  <2>3. QED
    BY <2>2 DEF Effect
<1>14. CASE path # 0
  BY <1>1, <1>5, <1>12, <1>14 DEF Effect, Idle
<1>15. QED
  BY <1>13, <1>14

\* The cut leaves what the file began with, or fills an empty file.
LEMMA TruncateEffect ==
  ASSUME TypesInv, StepsInv, NEW o \in DOMAIN ops, Truncate(o)
  PROVE  Effect(o)
<1> DEFINE h == ops[o].handle
           content == CutAt(o)
           left == Line(o)
<1>1. ops[o].kind = "append" /\ ops[o].at = "cut"
  BY DEF Truncate, Is
<1>2. ~Settled(o) /\ Served(o)
  BY <1>1, EndedIsSettled DEF Ended, Served
<1>0. PICK at \in {"open", "failed"} :
        /\ faults' = IF at = "failed" THEN faults + 1 ELSE faults
        /\ faults' <= MaxFaults
        /\ ops' = Set(o, [ops[o] EXCEPT !.at = at, !.left = left])
        /\ tail' = IF at = "failed" THEN Leave(o) ELSE tail
  BY DEF Truncate
<1> DEFINE r == [ops[o] EXCEPT !.at = at, !.left = left]
<1>3. /\ inodes' = [inodes EXCEPT ![h] = content] /\ ops' = Set(o, r)
      /\ UNCHANGED <<path, crashes, overtaken>>
      /\ tail' = IF at = "failed" THEN Leave(o) ELSE tail
  BY <1>0 DEF Truncate
<1>4. h \in DOMAIN inodes /\ ops[o].start \in Nat \ {0}
  <2>1. h # 0 /\ ops[o].start # 0
    BY <1>1 DEF StepsInv, InStep
  <2>2. QED
    BY <2>1, OpTyped, Typed
<1>5. content \in Seq(Tokens) /\ content # <<>> /\ (inodes[h] # <<>> => content[1] = inodes[h][1])
  <2>1. inodes[h] \in Seq(Tokens) /\ Fill \in Tokens
    <3>1. Fill \in Tokens
      BY BoundsAssumption DEF Fill, Tokens, OpIds
    <3>2. QED
      BY <1>4, <3>1, Typed
  <2> DEFINE s == inodes[h]
             m == ops[o].start
  <2>2. content = [i \in 1..m |-> IF i <= Len(s) THEN s[i] ELSE Fill]
    BY DEF CutAt
  <2>3. s \in Seq(Tokens) /\ m \in Nat \ {0}
    BY <1>4, <2>1
  <2> HIDE DEF s, m, content
  <2>4. \A i \in 1..m : (IF i <= Len(s) THEN s[i] ELSE Fill) \in Tokens
    BY <2>1, <2>3
  <2>5. content \in Seq(Tokens) /\ Len(content) = m
    BY <2>2, <2>3, <2>4
  <2>6. content # <<>>
    BY <2>3, <2>5
  <2>7. s # <<>> => content[1] = s[1]
    BY <2>2, <2>3
  <2>8. QED
    BY <2>5, <2>6, <2>7 DEF s
<1>6. left \in Seq(Tokens)
  BY LineTyped
<1> HIDE DEF left, content
<1>7. Len(inodes') = Len(inodes)
  BY <1>3, <1>4, <1>5, Typed
<1>8. r \in OpRecs(Len(inodes'))
  BY <1>6, <1>7, OpTyped, Recorded, Typed DEF Steps
<1>9. /\ r.at = at /\ r.proc = ops[o].proc /\ r.kind = ops[o].kind /\ r.after = ops[o].after
      /\ r.gone = ops[o].gone
  BY OpTyped, RecFields
<1>11. faults' \in 0..MaxFaults
  BY <1>0, Typed, BoundsAssumption
<1> HIDE DEF r
<1>10. InStep(o, r, inodes')
  BY <1>1, <1>9 DEF InStep, StepsOf
<1>12. Moves(o, r)
  BY <1>1, <1>2, <1>3, <1>8, <1>9, <1>10, <1>11 DEF Moves, Ended
<1>13. Touch(o, r, h, content)
  BY <1>1, <1>3, <1>4, <1>5, <1>12 DEF Touch
<1>14. QED
  BY <1>13 DEF Effect

\* A write, short or not, adds to the end.
LEMMA WriteEffect ==
  ASSUME TypesInv, StepsInv, NEW o \in DOMAIN ops, Write(o)
  PROVE  Effect(o)
<1> DEFINE h == ops[o].handle
           left == ops[o].left
<1>1. ops[o].at = "write" /\ ops[o].kind \in {"create", "append"} /\ h \in DOMAIN inodes
  <2>1. ops[o].at = "write"
    BY DEF Write
  <2>2. h # 0 /\ ops[o].at \in StepsOf(ops[o].kind) /\ ops[o].kind \in {"create", "append", "title", "delete"}
    BY <2>1, OpTyped, KindsAssumption DEF StepsInv, InStep
  <2>3. QED
    BY <2>1, <2>2, OpTyped, Typed DEF StepsOf
<1>2. ~Settled(o) /\ Served(o)
  BY <1>1, EndedIsSettled DEF Ended, Served
<1>3. PICK k \in 1..Len(left), at \in {"write", "done", "failed"} :
        /\ faults' = IF at = "done" THEN faults ELSE faults + 1
        /\ faults' <= MaxFaults
        /\ inodes' = [inodes EXCEPT ![h] = @ \o SubSeq(left, 1, k)]
        /\ ops' = Set(o, [ops[o] EXCEPT !.left = SubSeq(@, k + 1, Len(@)), !.at = at])
        /\ tail' = IF at = "write" THEN tail ELSE Leave(o)
  BY DEF Write
<1> DEFINE piece == SubSeq(left, 1, k)
           rest == SubSeq(left, k + 1, Len(left))
           content == inodes[h] \o piece
           r == [ops[o] EXCEPT !.at = at, !.left = rest]
<1>4. left \in Seq(Tokens) /\ inodes[h] \in Seq(Tokens) /\ k \in 1..Len(left)
  BY <1>1, <1>3, OpTyped, Typed
<1>5. piece \in Seq(Tokens) /\ piece # <<>> /\ piece[1] = left[1] /\ left # <<>> /\ rest \in Seq(Tokens)
  <2> HIDE DEF left, h
  <2>1. Len(left) \in Nat /\ k \in 1..Len(left)
    BY <1>4
  <2>2. piece \in Seq(Tokens) /\ Len(piece) = k /\ piece[1] = left[1]
    BY <1>4, <2>1
  <2>3. rest \in Seq(Tokens)
    BY <1>4, <2>1
  <2>4. QED
    BY <1>4, <2>1, <2>2, <2>3
<1>6. inodes' = [inodes EXCEPT ![h] = content] /\ ops' = Set(o, r)
  BY <1>3
<1>7. UNCHANGED <<path, crashes, overtaken>>
  BY DEF Write
<1>8. faults' \in 0..MaxFaults
  BY <1>3, Typed, BoundsAssumption
<1>9. tail' = IF at = "write" THEN tail ELSE Leave(o)
  BY <1>3
<1>10. at \in {"done", "write", "failed"}
  OBVIOUS
<1>11. content \in Seq(Tokens) /\ content # <<>> /\ (inodes[h] # <<>> => content[1] = inodes[h][1])
       /\ (inodes[h] = <<>> => content[1] = left[1])
  <2> HIDE DEF piece
  <2>1. QED
    BY <1>4, <1>5, Joined
<1> HIDE DEF content, piece, rest
<1>12. Len(inodes') = Len(inodes) /\ inodes'[h] = content
  BY <1>1, <1>6, <1>11, Typed
<1>13. r \in OpRecs(Len(inodes'))
  BY <1>5, <1>10, <1>12, OpTyped, Recorded, Typed DEF Steps
<1>14. /\ r.at = at /\ r.proc = ops[o].proc /\ r.kind = ops[o].kind /\ r.after = ops[o].after
       /\ r.gone = ops[o].gone /\ r.handle = h
  BY OpTyped, RecFields
<1> HIDE DEF r
<1>15. h # 0
  BY <1>1 DEF StepsInv, InStep
<1>16. InStep(o, r, inodes')
  BY <1>1, <1>10, <1>11, <1>12, <1>14, <1>15 DEF InStep, StepsOf
<1>17. Moves(o, r)
  BY <1>1, <1>2, <1>6, <1>7, <1>8, <1>9, <1>10, <1>13, <1>14, <1>16 DEF Moves, Ended
<1>18. inodes[h] = <<>> /\ ops[o].kind = "create" => left[1] = Half(o, 1)
  BY <1>1 DEF StepsInv, InStep
<1>19. Touch(o, r, h, content)
  BY <1>1, <1>6, <1>7, <1>11, <1>17, <1>18 DEF Touch
<1>20. QED
  BY <1>19 DEF Effect

\* The rewritten file takes the path.
LEMMA RenameEffect ==
  ASSUME TypesInv, StepsInv, NEW o \in DOMAIN ops, Rename(o)
  PROVE  Effect(o)
<1> DEFINE content == ops[o].left
           r == [ops[o] EXCEPT !.at = "done", !.left = <<>>]
<1>1. ops[o].kind = "title" /\ ops[o].at = "rename"
  BY DEF Rename, Is
<1>2. ~Settled(o) /\ Served(o)
  BY <1>1, EndedIsSettled DEF Ended, Served
<1>3. /\ inodes' = Append(inodes, content) /\ path' = Len(inodes) + 1 /\ ops' = Set(o, r)
      /\ tail' = Leave(o) /\ UNCHANGED <<crashes, faults, overtaken>>
  BY DEF Rename
<1>4. content \in Seq(Tokens) /\ content # <<>> /\ content[1] = Half(o, 1) /\ <<>> \in Seq(Tokens)
  BY <1>1, OpTyped DEF StepsInv, InStep
<1> HIDE DEF content
<1>5. Len(inodes') = Len(inodes) + 1 /\ Len(inodes) + 1 \in Nat
  BY <1>3, <1>4, Typed
<1>6. ops[o] \in OpRecs(Len(inodes'))
  BY <1>5, OpTyped, Typed, Recorded
<1>7. r \in OpRecs(Len(inodes'))
  BY <1>4, <1>5, <1>6, Recorded DEF Steps
<1>8. /\ r.at = "done" /\ r.proc = ops[o].proc /\ r.kind = ops[o].kind /\ r.after = ops[o].after
      /\ r.gone = ops[o].gone
  BY <1>6, RecFields
<1> HIDE DEF r
<1>9. InStep(o, r, inodes')
  BY <1>1, <1>8 DEF InStep, StepsOf
<1>10. faults' \in 0..MaxFaults
  BY <1>3, Typed
<1>11. Moves(o, r)
  BY <1>1, <1>2, <1>3, <1>7, <1>8, <1>9, <1>10 DEF Moves, Ended
<1>12. NewFile(o, r, content)
  BY <1>1, <1>3, <1>4, <1>11 DEF NewFile
<1>13. QED
  BY <1>12 DEF Effect

\* Every step but a delete's is one of the three.
LEMMA StepEffect ==
  ASSUME TypesInv, StepsInv, NEW o \in DOMAIN ops, Step(o), ~Unlink(o)
  PROVE  Effect(o)
  BY CreateOpensEffect, FailEffects, AccessEffect, LookEffect, SettleEffect, StatEffect,
     TruncateEffect, OpenEffect, WriteEffect, TitleReadsEffect, RenameEffect DEF Step

\* A sequence whose elements are in T is a sequence over T.
LEMMA Retyped ==
  ASSUME NEW S, NEW T, NEW s \in Seq(S), \A i \in DOMAIN s : s[i] \in T
  PROVE  s \in Seq(T)
  OBVIOUS

\* More files, more operations are well typed.
LEMMA OpRecsGrow ==
  ASSUME NEW n \in Nat, NEW m \in Nat, n <= m
  PROVE  OpRecs(n) \subseteq OpRecs(m)
<1>1. 0..n \subseteq 0..m
  OBVIOUS
<1>2. QED
  BY <1>1 DEF OpRecs

\* What an operation is never changes, and a settled one stays as it is.
Kept ==
  /\ DOMAIN ops' = DOMAIN ops
  /\ \A q \in DOMAIN ops :
       /\ ops'[q].kind = ops[q].kind /\ ops'[q].proc = ops[q].proc /\ ops'[q].after = ops[q].after
       /\ ops[q].at \in Ended => ops'[q].at = ops[q].at

\* A step of one operation leaves the others alone.
LEMMA MovesKeep ==
  ASSUME TypesInv, NEW o, NEW r, Moves(o, r)
  PROVE  /\ Kept /\ ops'[o] = r /\ (\A q \in DOMAIN ops : q # o => ops'[q] = ops[q])
         /\ o \in DOMAIN ops /\ ops[o].at \notin Ended /\ Len(ops') = Len(ops)
<1>1. o \in DOMAIN ops /\ ops' = [ops EXCEPT ![o] = r] /\ ~Settled(o)
      /\ r.proc = ops[o].proc /\ r.kind = ops[o].kind /\ r.after = ops[o].after
  BY DEF Moves, Set
<1>2. DOMAIN ops' = DOMAIN ops /\ ops'[o] = r /\ \A q \in DOMAIN ops : q # o => ops'[q] = ops[q]
  BY <1>1
<1>3. ops[o].at \notin Ended
  BY <1>1, EndedIsSettled
<1>4. Len(ops') = Len(ops)
  BY <1>1, Typed
<1>5. Kept
  BY <1>1, <1>2, <1>3 DEF Kept
<1>6. QED
  BY <1>1, <1>2, <1>3, <1>4, <1>5

\* What has settled stays settled.
LEMMA SettledLater ==
  ASSUME TypesInv, Kept, NEW q, q \in DOMAIN ops \/ q = 0
  PROVE  Settled(q) => Settled(q)'
<1>1. 0 \notin DOMAIN ops /\ 0 \notin DOMAIN ops'
  BY Typed DEF Kept
<1>2. CASE q \in DOMAIN ops
  BY <1>2 DEF Kept, Settled, Ended
<1>3. CASE q = 0
  BY <1>1, <1>3 DEF Settled
<1>4. QED
  BY <1>2, <1>3

\* Files are only added, and one that holds something goes on holding something.
LEMMA EffectOnFiles ==
  ASSUME TypesInv, NEW o \in DOMAIN ops, Effect(o)
  PROVE  /\ inodes' \in Seq(Seq(Tokens)) /\ path' \in 0..Len(inodes')
         /\ Len(inodes') \in Nat /\ Len(inodes) <= Len(inodes')
         /\ \A h \in DOMAIN inodes : inodes[h] # <<>> => inodes'[h] # <<>>
<1>1. inodes \in Seq(Seq(Tokens)) /\ path \in 0..Len(inodes) /\ Len(inodes) \in Nat
  BY Typed
<1>2. CASE \E r : Idle(o, r)
  BY <1>1, <1>2 DEF Idle
<1>3. CASE \E r, content : NewFile(o, r, content)
  <2>1. PICK r, content : NewFile(o, r, content)
    BY <1>3
  <2>2. content \in Seq(Tokens) /\ inodes' = Append(inodes, content) /\ path' = Len(inodes) + 1
    BY <2>1 DEF NewFile
  <2>3. QED
    BY <1>1, <2>2
<1>4. CASE \E r, h, content : Touch(o, r, h, content)
  <2>1. PICK r, h, content : Touch(o, r, h, content)
    BY <1>4
  <2>2. /\ content \in Seq(Tokens) /\ inodes' = [inodes EXCEPT ![h] = content] /\ path' = path
        /\ h \in DOMAIN inodes /\ (inodes[h] # <<>> => content # <<>>)
    BY <2>1 DEF Touch
  <2>3. inodes' \in Seq(Seq(Tokens)) /\ Len(inodes') = Len(inodes)
    BY <1>1, <2>2
  <2>4. QED
    BY <1>1, <2>2, <2>3
<1>5. QED
  BY <1>2, <1>3, <1>4 DEF Effect

\* Whatever it does to files, a step moves one operation.
LEMMA EffectMoves ==
  ASSUME NEW o, Effect(o)
  PROVE  \E r : Moves(o, r)
  BY DEF Effect, Idle, NewFile, Touch

\* Steps keep the types.
LEMMA TypesMove ==
  ASSUME TypesInv, NEW o \in DOMAIN ops, Effect(o)
  PROVE  TypesInv'
<1>1. PICK r : Moves(o, r)
  BY EffectMoves
<1>2. /\ Kept /\ ops'[o] = r /\ (\A q \in DOMAIN ops : q # o => ops'[q] = ops[q])
      /\ Len(ops') = Len(ops) /\ DOMAIN ops' = DOMAIN ops
  BY <1>1, MovesKeep DEF Kept
<1>3. /\ inodes' \in Seq(Seq(Tokens)) /\ path' \in 0..Len(inodes')
      /\ Len(inodes') \in Nat /\ Len(inodes) <= Len(inodes')
  BY EffectOnFiles
<1>4. ops' \in Seq(OpRecs(Len(inodes')))
  <2> DEFINE R == OpRecs(Len(inodes'))
  <2>1. OpRecs(Len(inodes)) \subseteq R
    BY <1>3, Typed, OpRecsGrow
  <2>2. r \in R /\ ops' = [ops EXCEPT ![o] = r]
    BY <1>1 DEF Moves, Set
  <2>3. \A q \in DOMAIN ops : ops[q] \in R
    BY <2>1, OpTyped
  <2> HIDE DEF R
  <2>4. ops \in Seq(R)
    BY <2>3, Typed, Retyped
  <2>5. QED
    BY <2>2, <2>4 DEF R
<1>5. tail' \in [Procs -> {0} \cup {q \in DOMAIN ops' : ~Settled(q)'}]
  <2>1. tail' = (IF r.at \in Ended THEN Leave(o) ELSE tail)
    BY <1>1 DEF Moves
  <2>2. tail \in [Procs -> {0} \cup {q \in DOMAIN ops : ~Settled(q)}]
    BY DEF TypesInv, TypeOK
  <2>3. \A q \in DOMAIN ops : q # o /\ ~Settled(q) => ~Settled(q)'
    BY <1>2 DEF Settled
  <2>4. CASE r.at \in Ended
    <3>1. tail' = [tail EXCEPT ![ops[o].proc] = IF @ = o THEN 0 ELSE @]
      BY <2>1, <2>4 DEF Leave
    <3>2. \A p \in Procs : tail'[p] = IF p = ops[o].proc /\ tail[p] = o THEN 0 ELSE tail[p]
      BY <2>2, <3>1
    <3>3. \A p \in Procs : tail[p] = o => p = ops[o].proc
      BY Typed DEF TypesInv
    <3>4. \A p \in Procs : tail'[p] \in {0} \cup {q \in DOMAIN ops' : ~Settled(q)'}
      BY <1>2, <2>2, <2>3, <3>2, <3>3
    <3>5. tail' \in [Procs -> {0} \cup {q \in DOMAIN ops' : ~Settled(q)'}]
      <4> DEFINE T == {0} \cup {q \in DOMAIN ops' : ~Settled(q)'}
      <4>1. \A p \in Procs : tail'[p] \in T
        BY <3>4
      <4> HIDE DEF T
      <4>2. tail' \in [Procs -> T]
        BY <2>2, <3>1, <4>1
      <4>3. QED
        BY <4>2 DEF T
    <3>6. QED
      BY <3>5
  <2>5. CASE r.at \notin Ended
    <3>1. ~Settled(o)'
      BY <1>2, <2>5 DEF Settled, Ended
    <3>2. \A q \in DOMAIN ops : ~Settled(q) => ~Settled(q)'
      BY <2>3, <3>1
    <3>3. QED
      BY <1>2, <2>1, <2>2, <2>5, <3>2
  <2>6. QED
    BY <2>4, <2>5
<1>6. crashes' \in 0..MaxCrashes /\ faults' \in 0..MaxFaults /\ overtaken' \in BOOLEAN
  BY <1>1 DEF Moves, TypesInv, TypeOK
<1>7. TypeOK'
  BY <1>3, <1>4, <1>5, <1>6 DEF TypeOK, OpRecs
<1>8. \A p \in Procs : tail'[p] # 0 =>
        ops'[tail'[p]].kind \in {"append", "title"} /\ ops'[tail'[p]].proc = p
  <2>1. \A p \in Procs : tail'[p] = 0 \/ tail'[p] = tail[p]
    <3>1. tail' = (IF r.at \in Ended THEN Leave(o) ELSE tail) /\ tail \in [Procs -> {0} \cup DOMAIN ops]
      BY <1>1 DEF Moves, TypesInv, TypeOK
    <3>2. QED
      BY <3>1 DEF Leave
  <2>2. \A p \in Procs : tail[p] # 0 => tail[p] \in DOMAIN ops /\ Queues(tail[p]) /\ ops[tail[p]].proc = p
    BY Typed DEF TypesInv
  <2>3. QED
    BY <1>2, <2>1, <2>2 DEF Kept, Queues
<1>9. \A q \in DOMAIN ops' : 
        ops'[q].after < q /\ (ops'[q].after # 0 => ops'[ops'[q].after].kind \in {"append", "title"})
  <2>1. \A q \in DOMAIN ops : ops[q].after < q /\ (ops[q].after # 0 => Queues(ops[q].after))
    BY DEF TypesInv
  <2>2. \A q \in DOMAIN ops : ops[q].after # 0 => ops[q].after \in DOMAIN ops
    <3>1. \A q \in DOMAIN ops : ops[q].after \in OpIds /\ q \in 1..Len(ops) /\ Len(ops) \in Nat
      BY OpTyped, Typed
    <3>2. QED
      BY <2>1, <3>1, Typed DEF OpIds
  <2>3. QED
    BY <1>2, <2>1, <2>2 DEF Kept, Queues
<1>10. Len(ops') <= MaxOps
  BY <1>2, Typed
<1>11. QED
  BY <1>7, <1>8, <1>9, <1>10 DEF TypesInv, Queues

\* Steps keep what each operation is in the middle of.
LEMMA StepsMove ==
  ASSUME TypesInv, StepsInv, NEW o \in DOMAIN ops, Effect(o)
  PROVE  StepsInv'
<1>1. PICK r : Moves(o, r)
  BY EffectMoves
<1>2. /\ ops'[o] = r /\ (\A q \in DOMAIN ops : q # o => ops'[q] = ops[q]) /\ DOMAIN ops' = DOMAIN ops
  BY <1>1, MovesKeep DEF Kept
<1>3. InStep(o, r, inodes')
  BY <1>1 DEF Moves
<1>4. ASSUME NEW q \in DOMAIN ops, q # o
      PROVE  InStep(q, ops[q], inodes')
  <2>1. InStep(q, ops[q], inodes)
    BY DEF StepsInv
  <2>2. ops[q].handle \in 0..Len(inodes)
    BY OpTyped
  <2>3. ops[q].handle # 0 /\ inodes[ops[q].handle] # <<>> => inodes'[ops[q].handle] # <<>>
    BY SMTT(30), <2>2, EffectOnFiles, Typed
  <2>4. ops[q].at = "write" => ops[q].handle # 0
    BY <2>1 DEF InStep
  <2>5. QED
    BY <2>1, <2>3, <2>4 DEF InStep
<1>5. \A q \in DOMAIN ops' : InStep(q, ops'[q], inodes')
  BY <1>2, <1>3, <1>4
<1>6. QED
  BY <1>5 DEF StepsInv, InStep

OneProcess == \A p, q \in Procs : p = q

\* Whether the session was deleted is not changed by the steps of other calls.
LEMMA GoneMoves ==
  ASSUME TypesInv, NEW o, NEW r, Moves(o, r)
  PROVE  Gone' <=> Gone
<1>1. /\ Kept /\ ops'[o] = r /\ (\A q \in DOMAIN ops : q # o => ops'[q] = ops[q])
      /\ o \in DOMAIN ops /\ ops[o].at \notin Ended /\ DOMAIN ops' = DOMAIN ops
  BY MovesKeep DEF Kept
<1>2. r.kind = "delete" => r.at = "failed"
  BY DEF Moves
<1>3. \A q \in DOMAIN ops : Is(q, "delete", "done")' <=> Is(q, "delete", "done")
  BY <1>1, <1>2 DEF Is, Ended
<1>4. QED
  BY <1>1, <1>3 DEF Gone

\* Whatever a served operation waits for, everything queued before it has settled.
LEMMA ServedInOrder ==
  ASSUME TypesInv, QueueInv, ~Gone, NEW o \in DOMAIN ops, Settled(ops[o].after),
         NEW i \in DOMAIN ops, i < o, Queues(i), ops[o].kind # "create"
  PROVE  Settled(i)
<1>1. i <= ops[o].after \/ Settled(i)
  BY DEF QueueInv
<1>2. ops[o].after \in Nat /\ i \in Nat /\ i # 0 /\ ops[o].after < o /\ o <= Len(ops) /\ Len(ops) \in Nat
  BY OpTyped, Typed DEF OpIds, TypesInv
<1>3. CASE i < ops[o].after
  <2>1. ops[o].after \in DOMAIN ops /\ Queues(ops[o].after)
    BY <1>2, <1>3, Typed DEF TypesInv
  <2>2. ops[ops[o].after].at # "start"
    BY <2>1 DEF Settled
  <2>3. QED
    BY <1>3, <2>1, <2>2 DEF QueueInv
<1>4. CASE i = ops[o].after
  BY <1>4
<1>5. QED
  BY <1>1, <1>2, <1>3, <1>4

\* Steps keep the order of the queue.
LEMMA QueueMove ==
  ASSUME OneProcess, TypesInv, QueueInv, NEW o \in DOMAIN ops, Effect(o)
  PROVE  QueueInv'
<1>1. PICK r : Moves(o, r)
  BY EffectMoves
<1>2. /\ Kept /\ ops'[o] = r /\ (\A q \in DOMAIN ops : q # o => ops'[q] = ops[q])
      /\ DOMAIN ops' = DOMAIN ops /\ ops[o].at \notin Ended
  BY <1>1, MovesKeep DEF Kept
<1>3. SUFFICES ASSUME ~Gone PROVE
        /\ \A i, j \in DOMAIN ops : i < j /\ Queues(i) /\ Queues(j) /\ ops'[j].at # "start" => Settled(i)'
        /\ \A i, j \in DOMAIN ops : i < j /\ Queues(i) /\ ops[j].kind # "create" =>
             i <= ops[j].after \/ Settled(i)'
        /\ \A i \in DOMAIN ops : Queues(i) /\ ~Settled(i)' => i <= tail'[ops[i].proc]
  <2>1. (~Gone)' => ~Gone
    BY <1>1, GoneMoves
  <2>2. \A i \in DOMAIN ops : Queues(i)' <=> Queues(i)
    BY <1>2 DEF Kept, Queues
  <2>3. QED
    BY <1>2, <2>1, <2>2 DEF QueueInv, Kept
<1>4. \A i \in DOMAIN ops : Settled(i) => Settled(i)'
  BY <1>2, SettledLater
<1>5. ASSUME NEW i \in DOMAIN ops, NEW j \in DOMAIN ops, i < j, Queues(i), Queues(j), ops'[j].at # "start"
      PROVE  Settled(i)
  <2>1. CASE j # o \/ ops[o].at # "start"
    BY <1>2, <1>3, <1>5, <2>1 DEF QueueInv
  <2>2. CASE j = o /\ ops[o].at = "start"
    <3>1. ops[o].kind # "create"
      BY <1>5, <2>2 DEF Queues
    <3>2. Settled(ops[o].after)
      BY <1>1, <2>2, <3>1 DEF Moves, Served, Ready
    <3>3. QED
      BY <1>3, <1>5, <2>2, <3>1, <3>2, ServedInOrder
  <2>3. QED
    BY <2>1, <2>2
<1>6. ASSUME NEW i \in DOMAIN ops, Queues(i), ~Settled(i)'
      PROVE  i <= tail'[ops[i].proc]
  <2>1. ~Settled(i) /\ i <= tail[ops[i].proc]
    BY <1>3, <1>4, <1>6 DEF QueueInv
  <2>2. tail' = (IF r.at \in Ended THEN Leave(o) ELSE tail)
    BY <1>1 DEF Moves
  <2>3. CASE r.at \notin Ended \/ tail[ops[o].proc] # o
    <3>1. tail \in [Procs -> {0} \cup DOMAIN ops]
      BY DEF TypesInv, TypeOK
    <3>2. tail' = tail
      BY <2>2, <2>3, <3>1 DEF Leave
    <3>3. QED
      BY <2>1, <3>2
  <2>4. CASE r.at \in Ended /\ tail[ops[o].proc] = o
    <3>1. Queues(o) /\ ops[i].proc = ops[o].proc /\ ops[i].proc \in Procs
      BY <2>4, OpTyped, Typed DEF TypesInv, OneProcess
    <3>2. i <= o
      BY <2>1, <2>4, <3>1
    <3>3. ops'[o].at # "start"
      BY <1>2, <2>4 DEF Ended
    <3>4. i # o
      BY <1>2, <1>6, <2>4 DEF Settled, Ended
    <3>5. i < o
      BY <3>2, <3>4, Typed
    <3>6. Settled(i)
      BY <1>5, <1>6, <3>1, <3>3, <3>5
    <3>7. QED
      BY <2>1, <3>6
  <2>5. QED
    BY <2>3, <2>4
<1>7. \A i, j \in DOMAIN ops : i < j /\ Queues(i) /\ ops[j].kind # "create" =>
             i <= ops[j].after \/ Settled(i)'
  BY <1>3, <1>4 DEF QueueInv
<1>8. QED
  BY <1>4, <1>5, <1>6, <1>7

\* Steps keep a deleted session deleted.
LEMMA GoneMove ==
  ASSUME TypesInv, GoneInv, NEW o \in DOMAIN ops, Effect(o)
  PROVE  GoneInv'
<1>1. PICK r : Moves(o, r)
  BY EffectMoves
<1>2. /\ Kept /\ ops'[o] = r /\ (\A q \in DOMAIN ops : q # o => ops'[q] = ops[q])
      /\ DOMAIN ops' = DOMAIN ops /\ ops[o].at \notin Ended
  BY <1>1, MovesKeep DEF Kept
<1>3. \A i \in DOMAIN ops : (Settled(i) => Settled(i)') /\ ops'[i].kind = ops[i].kind
  BY <1>2, SettledLater DEF Kept
<1>4. Gone' <=> Gone
  BY <1>1, GoneMoves
<1>5. ASSUME Gone, ~overtaken'
      PROVE  path' = 0 /\ \A q \in DOMAIN ops : Settled(q)' \/ ops'[q].at = "start"
  <2>1. path = 0 /\ \A q \in DOMAIN ops : Settled(q) \/ ops[q].at = "start"
    BY <1>1, <1>5 DEF GoneInv, Moves
  <2>2. ops[o].at = "start" /\ ~Settled(o)
    BY <1>2, <2>1, EndedIsSettled
  <2>3. ops[o].kind # "create"
    BY <1>5, <2>2 DEF GoneInv, Gone, Is
  <2>4. path' = 0 /\ r.at \in Ended
    BY <1>1, <2>1, <2>2, <2>3 DEF Moves
  <2>5. Settled(o)'
    BY <1>2, <2>4 DEF Settled, Ended
  <2>6. QED
    BY <1>2, <1>3, <2>1, <2>4, <2>5
<1>6. QED
  BY <1>2, <1>3, <1>4, <1>5 DEF GoneInv

\* Steps keep every file headed.
LEMMA FilesMove ==
  ASSUME TypesInv, FilesInv, NEW o \in DOMAIN ops, Effect(o)
  PROVE  FilesInv'
<1>1. PICK q : Moves(o, q)
  BY EffectMoves
<1>2. Kept /\ DOMAIN ops' = DOMAIN ops /\ \A i \in DOMAIN ops : ops'[i].kind = ops[i].kind
  BY <1>1, MovesKeep DEF Kept
<1>4. SUFFICES ASSUME ~Gone PROVE
        /\ \A i \in DOMAIN inodes' : Headed(inodes'[i])
        /\ path' = 0 => /\ inodes' = <<>>
              /\ \A i \in DOMAIN ops : ops[i].kind = "create" /\ ops'[i].at \in {"start", "failed", "dead"}
        /\ path' # 0 /\ (\A i \in DOMAIN ops : ops[i].kind = "create") => Len(inodes') = 1
        /\ (\E i \in DOMAIN ops : ops[i].kind # "create") => \A i \in DOMAIN inodes' : inodes'[i] # <<>>
  <2>1. (~Gone)' => ~Gone
    BY <1>1, GoneMoves
  <2>2. (\A i \in DOMAIN inodes' : Headed(inodes'[i])) => (\A i \in DOMAIN inodes : Headed(inodes[i]))'
    BY <1>2 DEF Headed
  <2>3. QED
    BY <1>2, <2>1, <2>2 DEF FilesInv
<1>5. /\ \A i \in DOMAIN inodes : Headed(inodes[i])
      /\ path = 0 => /\ inodes = <<>>
            /\ \A i \in DOMAIN ops : ops[i].kind = "create" /\ ops[i].at \in {"start", "failed", "dead"}
      /\ path # 0 /\ (\A i \in DOMAIN ops : ops[i].kind = "create") => Len(inodes) = 1
      /\ (\E i \in DOMAIN ops : ops[i].kind # "create") => \A i \in DOMAIN inodes : inodes[i] # <<>>
  BY <1>4 DEF FilesInv
<1>6. inodes \in Seq(Seq(Tokens)) /\ Len(inodes) \in Nat /\ o \in Nat /\ o # 0
  BY Typed
<1>7. \A c : c # <<>> /\ c[1] = Half(o, 1) /\ ops[o].kind \in {"create", "title"} => Headed(c)
  BY <1>6 DEF Headed, Half, Newline
<1>8. CASE \E r : Idle(o, r)
  <2>1. PICK r : Idle(o, r)
    BY <1>8
  <2>2. UNCHANGED <<inodes, path>> /\ (path = 0 => r.at = "failed")
    BY <1>5, <2>1 DEF Idle
  <2>3. ops'[o] = r /\ \A i \in DOMAIN ops : i # o => ops'[i] = ops[i]
    BY <2>1, MovesKeep DEF Idle
  <2>4. path' = 0 => \A i \in DOMAIN ops : ops'[i].at \in {"start", "failed", "dead"}
    BY <1>5, <2>2, <2>3
  <2>5. QED
    BY <1>5, <2>2, <2>4
<1>9. CASE \E r, content : NewFile(o, r, content)
  <2>1. PICK r, content : NewFile(o, r, content)
    BY <1>9
  <2>2. /\ content \in Seq(Tokens) /\ inodes' = Append(inodes, content) /\ path' = Len(inodes) + 1
        /\ \/ path = 0 /\ ops[o].kind = "create" /\ content = <<>>
           \/ ops[o].kind = "title" /\ content # <<>> /\ content[1] = Half(o, 1)
    BY <1>5, <2>1 DEF NewFile
  <2>3. path' # 0 /\ Len(inodes') = Len(inodes) + 1
        /\ \A i \in DOMAIN inodes' : inodes'[i] = content \/ (i \in DOMAIN inodes /\ inodes'[i] = inodes[i])
    BY <1>6, <2>2
  <2>4. Headed(content)
    BY <1>7, <2>2 DEF Headed
  <2>5. CASE path = 0 /\ ops[o].kind = "create" /\ content = <<>>
    <3>1. Len(inodes') = 1
      BY <1>5, <2>3, <2>5
    <3>2. QED
      BY <1>5, <2>3, <2>4, <2>5, <3>1
  <2>6. CASE ops[o].kind = "title" /\ content # <<>>
    BY <1>5, <2>3, <2>4, <2>6
  <2>7. QED
    BY <2>2, <2>5, <2>6
<1>10. CASE \E r, h, content : Touch(o, r, h, content)
  <2>1. PICK r, h, content : Touch(o, r, h, content)
    BY <1>10
  <2>2. /\ content \in Seq(Tokens) /\ h \in DOMAIN inodes
        /\ inodes' = [inodes EXCEPT ![h] = content] /\ path' = path
        /\ inodes[h] # <<>> => content # <<>> /\ content[1] = inodes[h][1]
        /\ inodes[h] = <<>> /\ ops[o].kind = "create" => content # <<>> /\ content[1] = Half(o, 1)
    BY <2>1 DEF Touch
  <2>3. path # 0
    BY <1>5, <2>2
  <2>4. DOMAIN inodes' = DOMAIN inodes /\ Len(inodes') = Len(inodes)
        /\ \A i \in DOMAIN inodes : inodes'[i] = IF i = h THEN content ELSE inodes[i]
    BY <1>6, <2>2
  <2>5. Headed(content)
    <3>1. CASE inodes[h] # <<>>
      BY <1>5, <2>2, <3>1 DEF Headed
    <3>2. CASE inodes[h] = <<>>
      <4>1. ops[o].kind = "create"
        BY <1>5, <2>2, <3>2
      <4>2. QED
        BY <1>7, <2>2, <3>2, <4>1
    <3>3. QED
      BY <3>1, <3>2
  <2>6. (\E i \in DOMAIN ops : ops[i].kind # "create") => content # <<>>
    BY <1>5, <2>2
  <2>7. QED
    BY <1>5, <2>2, <2>3, <2>4, <2>5, <2>6
<1>11. QED
  BY <1>8, <1>9, <1>10 DEF Effect

Called(p, kind) == Op(p, kind, "start", WaitsFor(p, kind))

Added(p, kind, n, r) ==
  /\ n = Len(ops) + 1 /\ n \in Nat /\ n <= MaxOps /\ n \notin DOMAIN ops
  /\ Len(ops') = n /\ DOMAIN ops' = DOMAIN ops \cup {n}
  /\ \A q \in DOMAIN ops : ops'[q] = ops[q] /\ q < n
  /\ ops'[n] = r /\ r \in OpRecs(Len(inodes)) /\ ops' = Append(ops, r)
  /\ r.at = "start" /\ r.kind = kind /\ r.proc = p
  /\ r.after \in {0, tail[p]} /\ (kind # "create" => r.after = tail[p]) /\ r.after \in 0..Len(ops)
  /\ tail' = (IF kind \in {"append", "title"} THEN [tail EXCEPT ![p] = n] ELSE tail)
  /\ UNCHANGED <<inodes, path, crashes, faults, overtaken>>

\* A call adds one operation, which waits for the end of the queue.
LEMMA CallAdds ==
  ASSUME TypesInv, NEW p \in Procs, NEW kind \in Kinds, Call(p, kind)
  PROVE  \E n, r : Added(p, kind, n, r)
<1> DEFINE n == Len(ops) + 1
           r == Called(p, kind)
           w == WaitsFor(p, kind)
<1>1. /\ Len(ops) < MaxOps /\ ops' = Append(ops, r)
      /\ UNCHANGED <<inodes, path, crashes, faults, overtaken>>
  BY DEF Call, Called
<1>2. w \in {0, tail[p]} /\ (kind # "create" => w = tail[p])
  BY DEF WaitsFor, Drains, QueueTail
<1>3. w \in 0..Len(ops) /\ w \in OpIds
  BY <1>2, Typed DEF OpIds
<1>4. r \in OpRecs(Len(inodes))
  <2>1. 0 \in 0..Attempts /\ 0 \in 0..Len(inodes) /\ <<>> \in Seq(Tokens) /\ "start" \in Steps
    BY AttemptsAssumption, Typed DEF Steps
  <2> HIDE DEF w
  <2>2. QED
    BY <1>3, <2>1 DEF Called, Op, OpRecs, w
<1>5. r.at = "start" /\ r.kind = kind /\ r.proc = p /\ r.after = w
  BY DEF Called, Op
<1> HIDE DEF r, w
<1>6. /\ Len(ops') = n /\ DOMAIN ops' = DOMAIN ops \cup {n} /\ n \notin DOMAIN ops /\ n <= MaxOps
      /\ \A q \in DOMAIN ops : ops'[q] = ops[q] /\ q < n
      /\ ops'[n] = r
  <2>1. ops \in Seq(OpRecs(Len(inodes))) /\ MaxOps \in Nat
    BY Typed
  <2> DEFINE R == OpRecs(Len(inodes))
  <2>2. ops \in Seq(R) /\ r \in R
    BY <1>4, <2>1
  <2> HIDE DEF R
  <2>3. QED
    BY <1>1, <2>1, <2>2
<1>7. n \in Nat /\ tail' = (IF kind \in {"append", "title"} THEN [tail EXCEPT ![p] = n] ELSE tail)
  BY Typed DEF Call
<1>8. Added(p, kind, n, r)
  BY <1>1, <1>2, <1>3, <1>4, <1>5, <1>6, <1>7 DEF Added
<1>9. QED
  BY <1>8

\* Calls keep the types.
LEMMA CallTypes ==
  ASSUME TypesInv, NEW p \in Procs, NEW kind \in Kinds, Call(p, kind)
  PROVE  TypesInv'
<1>0. PICK n, r : Added(p, kind, n, r)
  BY CallAdds
<1>1. /\ Len(ops') = n /\ DOMAIN ops' = DOMAIN ops \cup {n} /\ n \notin DOMAIN ops /\ n <= MaxOps
      /\ \A q \in DOMAIN ops : ops'[q] = ops[q] /\ q < n
      /\ ops'[n] = r /\ r \in OpRecs(Len(inodes)) /\ r.at = "start" /\ r.kind = kind /\ r.proc = p
      /\ r.after \in {0, tail[p]} /\ r.after \in 0..Len(ops)
      /\ UNCHANGED <<inodes, path, crashes, faults, overtaken>>
  BY <1>0 DEF Added
<1>2. ops' = Append(ops, r) /\ tail' = IF kind \in {"append", "title"} THEN [tail EXCEPT ![p] = n] ELSE tail
  BY <1>0 DEF Added
<1>3. Len(ops) \in Nat /\ DOMAIN ops = 1..Len(ops) /\ ops \in Seq(OpRecs(Len(inodes)))
  BY Typed
<1>4. ops' \in Seq(OpRecs(Len(inodes')))
  <2> DEFINE R == OpRecs(Len(inodes))
  <2>1. ops \in Seq(R) /\ r \in R
    BY <1>1, <1>3
  <2> HIDE DEF R
  <2>2. ops' \in Seq(R)
    BY <1>2, <2>1
  <2>3. QED
    BY <1>1, <2>2 DEF R
<1>5. ~Settled(n)' /\ \A q \in DOMAIN ops : ~Settled(q) => ~Settled(q)'
  BY <1>1 DEF Settled
<1>6. tail' \in [Procs -> {0} \cup {q \in DOMAIN ops' : ~Settled(q)'}]
  <2> DEFINE S == {0} \cup {q \in DOMAIN ops : ~Settled(q)}
             T == {0} \cup {q \in DOMAIN ops' : ~Settled(q)'}
  <2>1. tail \in [Procs -> S]
    BY DEF TypesInv, TypeOK
  <2>2. S \subseteq T /\ n \in T
    BY <1>1, <1>5
  <2> HIDE DEF S, T
  <2>3. tail' \in [Procs -> T]
    BY <1>2, <2>1, <2>2
  <2>4. QED
    BY <2>3 DEF T
<1>7. TypeOK'
  <2>1. inodes' \in Seq(Seq(Tokens)) /\ path' \in 0..Len(inodes')
        /\ crashes' \in 0..MaxCrashes /\ faults' \in 0..MaxFaults /\ overtaken' \in BOOLEAN
    BY <1>1 DEF TypesInv, TypeOK
  <2>2. QED
    BY <1>4, <1>6, <2>1 DEF TypeOK, OpRecs
<1>8. \A q \in Procs : tail[q] # 0 => tail[q] \in DOMAIN ops /\ Queues(tail[q]) /\ ops[tail[q]].proc = q
  BY Typed DEF TypesInv
<1>9. \A q \in Procs : tail'[q] # 0 =>
        ops'[tail'[q]].kind \in {"append", "title"} /\ ops'[tail'[q]].proc = q
  <2>1. tail \in [Procs -> {0} \cup DOMAIN ops]
    BY DEF TypesInv, TypeOK
  <2>2. CASE kind \in {"append", "title"}
    <3>1. \A q \in Procs : tail'[q] = IF q = p THEN n ELSE tail[q]
      BY <1>2, <2>1, <2>2
    <3>2. QED
      BY <1>1, <1>8, <2>2, <3>1 DEF Queues
  <2>3. CASE kind \notin {"append", "title"}
    BY <1>1, <1>2, <1>8, <2>3 DEF Queues
  <2>4. QED
    BY <2>2, <2>3
<1>10. \A q \in DOMAIN ops' :
        ops'[q].after < q /\ (ops'[q].after # 0 => ops'[ops'[q].after].kind \in {"append", "title"})
  <2>1. ASSUME NEW q \in DOMAIN ops
        PROVE  ops'[q].after < q /\ (ops'[q].after # 0 => ops'[ops'[q].after].kind \in {"append", "title"})
    <3>1. ops[q].after < q /\ (ops[q].after # 0 => Queues(ops[q].after)) /\ ops[q].after \in Nat
      BY OpTyped, Typed DEF TypesInv, OpIds
    <3>2. ops[q].after # 0 => ops[q].after \in DOMAIN ops
      BY <1>3, <3>1
    <3>3. QED
      BY <1>1, <3>1, <3>2 DEF Queues
  <2>2. r.after < n /\ (r.after # 0 => ops'[r.after].kind \in {"append", "title"})
    <3>1. r.after \in Nat /\ r.after < n
      BY <1>0, <1>3 DEF Added
    <3>2. r.after # 0 => r.after = tail[p] /\ r.after \in DOMAIN ops /\ Queues(r.after)
      BY <1>1, <1>8
    <3>3. QED
      BY <1>1, <3>1, <3>2 DEF Queues
  <2>3. QED
    BY <1>1, <2>1, <2>2
<1>11. QED
  BY <1>1, <1>7, <1>9, <1>10 DEF TypesInv, Queues

\* A call is at its start.
LEMMA CallSteps ==
  ASSUME TypesInv, StepsInv, NEW p \in Procs, NEW kind \in Kinds, Call(p, kind)
  PROVE  StepsInv'
<1>0. PICK n, r : Added(p, kind, n, r)
  BY CallAdds
<1>1. /\ DOMAIN ops' = DOMAIN ops \cup {n} /\ (\A q \in DOMAIN ops : ops'[q] = ops[q])
      /\ ops'[n] = r /\ r.at = "start" /\ inodes' = inodes
  BY <1>0 DEF Added
<1>2. InStep(n, r, inodes)
  BY <1>1 DEF InStep, StepsOf
<1>3. \A q \in DOMAIN ops' : InStep(q, ops'[q], inodes')
  BY <1>1, <1>2 DEF StepsInv
<1>4. QED
  BY <1>3 DEF StepsInv, InStep

\* A call deletes nothing.
LEMMA CallGone ==
  ASSUME TypesInv, NEW p \in Procs, NEW kind \in Kinds, Call(p, kind)
  PROVE  Gone' <=> Gone
<1>0. PICK n, r : Added(p, kind, n, r)
  BY CallAdds
<1>1. /\ DOMAIN ops' = DOMAIN ops \cup {n} /\ (\A q \in DOMAIN ops : ops'[q] = ops[q])
      /\ ops'[n].at = "start"
  BY <1>0 DEF Added
<1>2. QED
  BY <1>1 DEF Gone, Is

\* A call waits for everything queued before it.
LEMMA CallQueue ==
  ASSUME OneProcess, TypesInv, QueueInv, NEW p \in Procs, NEW kind \in Kinds, Call(p, kind)
  PROVE  QueueInv'
<1>0. PICK n, r : Added(p, kind, n, r)
  BY CallAdds
<1>1. /\ DOMAIN ops' = DOMAIN ops \cup {n} /\ (\A q \in DOMAIN ops : ops'[q] = ops[q] /\ q < n)
      /\ n \notin DOMAIN ops
      /\ ops'[n].at = "start" /\ ops'[n].kind = kind /\ ops'[n].proc = p
      /\ kind # "create" => ops'[n].after = tail[p]
  BY <1>0 DEF Added
<1>2. tail' = IF kind \in {"append", "title"} THEN [tail EXCEPT ![p] = n] ELSE tail
  BY <1>0 DEF Added
<1>3. \A q \in DOMAIN ops : ops[q].proc = p
  BY OpTyped DEF OneProcess
<1>4. \A q \in DOMAIN ops : (Settled(q)' <=> Settled(q)) /\ (Queues(q)' <=> Queues(q))
  BY <1>1 DEF Settled, Queues
<1>5. n \in Nat /\ \A q \in DOMAIN ops : q \in Nat
  BY <1>0, Typed DEF Added
<1>6. tail \in [Procs -> {0} \cup DOMAIN ops]
  BY DEF TypesInv, TypeOK
<1>7. ASSUME ~Gone
      PROVE  /\ \A i, j \in DOMAIN ops' : i < j /\ Queues(i)' /\ Queues(j)' /\ ops'[j].at # "start" => Settled(i)'
             /\ \A i, j \in DOMAIN ops' : i < j /\ Queues(i)' /\ ops'[j].kind # "create" =>
                  i <= ops'[j].after \/ Settled(i)'
             /\ \A i \in DOMAIN ops' : Queues(i)' /\ ~Settled(i)' => i <= tail'[ops'[i].proc]
  <2>1. /\ \A i, j \in DOMAIN ops : i < j /\ Queues(i) /\ Queues(j) /\ ops[j].at # "start" => Settled(i)
        /\ \A i, j \in DOMAIN ops : i < j /\ Queues(i) /\ ops[j].kind # "create" =>
             i <= ops[j].after \/ Settled(i)
        /\ \A i \in DOMAIN ops : Queues(i) /\ ~Settled(i) => i <= tail[p]
    BY <1>3, <1>7 DEF QueueInv
  <2>2. \A i, j \in DOMAIN ops' : i < j => i \in DOMAIN ops /\ (j \in DOMAIN ops \/ j = n)
    BY <1>1, <1>5
  <2>3. \A i, j \in DOMAIN ops' : i < j /\ Queues(i)' /\ Queues(j)' /\ ops'[j].at # "start" => Settled(i)'
    BY <1>1, <1>4, <2>1, <2>2
  <2>4. \A i, j \in DOMAIN ops' : i < j /\ Queues(i)' /\ ops'[j].kind # "create" =>
                  i <= ops'[j].after \/ Settled(i)'
    BY <1>1, <1>4, <2>1, <2>2
  <2>5. \A i \in DOMAIN ops' : ops'[i].proc = p
    BY <1>1, <1>3
  <2>6. CASE kind \in {"append", "title"}
    <3>1. tail'[p] = n
      BY <1>2, <1>6, <2>6
    <3>2. \A i \in DOMAIN ops' : i <= n
      BY <1>1, <1>5
    <3>3. QED
      BY <2>3, <2>4, <2>5, <3>1, <3>2
  <2>7. CASE kind \notin {"append", "title"}
    <3>1. ~Queues(n)'
      BY <1>1, <2>7 DEF Queues
    <3>2. \A i \in DOMAIN ops' : Queues(i)' /\ ~Settled(i)' => i <= tail'[p]
      BY <1>1, <1>2, <1>4, <2>1, <2>7, <3>1
    <3>3. QED
      BY <2>3, <2>4, <2>5, <3>2
  <2>8. QED
    BY <2>6, <2>7
<1>8. QED
  BY <1>7, CallGone DEF QueueInv

\* A call other than create finds a file that holds something.
LEMMA CallFiles ==
  ASSUME TypesInv, StepsInv, FilesInv, NEW p \in Procs, NEW kind \in Kinds, Call(p, kind)
  PROVE  FilesInv'
<1>0. PICK n, r : Added(p, kind, n, r)
  BY CallAdds
<1>1. /\ DOMAIN ops' = DOMAIN ops \cup {n} /\ (\A q \in DOMAIN ops : ops'[q] = ops[q])
      /\ ops'[n].at = "start" /\ ops'[n].kind = kind /\ inodes' = inodes /\ path' = path
  BY <1>0 DEF Added
<1>2. ASSUME ~Gone
      PROVE  FilesInv'
  <2>1. /\ \A i \in DOMAIN inodes : Headed(inodes[i])
        /\ path = 0 => /\ inodes = <<>>
              /\ \A i \in DOMAIN ops : ops[i].kind = "create" /\ ops[i].at \in {"start", "failed", "dead"}
        /\ path # 0 /\ (\A i \in DOMAIN ops : ops[i].kind = "create") => Len(inodes) = 1
        /\ (\E i \in DOMAIN ops : ops[i].kind # "create") => \A i \in DOMAIN inodes : inodes[i] # <<>>
    BY <1>2 DEF FilesInv
  <2>2. \A i \in DOMAIN inodes : Headed(inodes[i])'
    BY <1>1, <2>1 DEF Headed
  <2>3. CASE kind = "create"
    BY <1>1, <2>1, <2>2, <2>3 DEF FilesInv
  <2>4. CASE kind # "create"
    <3>1. (\E i \in DOMAIN ops : Is(i, "create", "done")) \/ HasLines(Content)
      BY <2>4 DEF Call, Usable
    <3>2. path # 0
      <4>1. ~HasLines(<<>>)
        BY DEF HasLines
      <4>2. QED
        BY <2>1, <3>1, <4>1 DEF Content, Is
    <3>3. \A i \in DOMAIN inodes : inodes[i] # <<>>
      <4>1. CASE \E i \in DOMAIN ops : ops[i].kind # "create"
        BY <2>1, <4>1
      <4>2. CASE \A i \in DOMAIN ops : ops[i].kind = "create"
        <5>1. Len(inodes) = 1 /\ path = 1 /\ DOMAIN inodes = {1}
          BY <2>1, <3>2, <4>2, Typed
        <5>2. CASE \E i \in DOMAIN ops : Is(i, "create", "done")
          <6>1. PICK i \in DOMAIN ops : ops[i].kind = "create" /\ ops[i].at = "done"
            BY <5>2 DEF Is
          <6>2. ops[i].handle # 0 /\ inodes[ops[i].handle] # <<>> /\ ops[i].handle \in 0..Len(inodes)
            BY <6>1, OpTyped DEF StepsInv, InStep
          <6>3. QED
            BY <5>1, <6>2
        <5>3. CASE HasLines(Content)
          BY <5>1, <5>3 DEF HasLines, Content
        <5>4. QED
          BY <3>1, <5>2, <5>3
      <4>3. QED
        BY <4>1, <4>2
    <3>4. QED
      BY <1>1, <2>2, <2>4, <3>2, <3>3 DEF FilesInv
  <2>5. QED
    BY <2>3, <2>4
<1>3. QED
  BY <1>2, CallGone DEF FilesInv

\* Nothing is created once a delete has been called.
LEMMA CallGoneInv ==
  ASSUME TypesInv, GoneInv, NEW p \in Procs, NEW kind \in Kinds, Call(p, kind)
  PROVE  GoneInv'
<1>0. PICK n, r : Added(p, kind, n, r)
  BY CallAdds
<1>1. /\ DOMAIN ops' = DOMAIN ops \cup {n} /\ (\A q \in DOMAIN ops : ops'[q] = ops[q])
      /\ ops'[n].at = "start" /\ ops'[n].kind = kind /\ UNCHANGED <<path, overtaken>>
  BY <1>0 DEF Added
<1>2. \A q \in DOMAIN ops : Settled(q)' <=> Settled(q)
  BY <1>1 DEF Settled
<1>3. Usable(kind)
  BY DEF Call
<1>4. ASSUME \E q \in DOMAIN ops' : ops'[q].kind = "delete"
      PROVE  \A q \in DOMAIN ops' : ops'[q].kind = "create" => Settled(q)'
  <2>1. kind # "create" /\ \A q \in DOMAIN ops : ops[q].kind = "create" => Settled(q)
    <3>1. CASE kind = "create"
      BY <1>1, <1>3, <1>4, <3>1 DEF Usable
    <3>2. CASE kind # "create"
      BY <1>3, <3>2 DEF Usable
    <3>3. QED
      BY <3>1, <3>2
  <2>2. QED
    BY <1>1, <1>2, <2>1
<1>5. ASSUME Gone', ~overtaken'
      PROVE  path' = 0 /\ \A q \in DOMAIN ops' : Settled(q)' \/ ops'[q].at = "start"
  <2>1. path = 0 /\ \A q \in DOMAIN ops : Settled(q) \/ ops[q].at = "start"
    BY <1>1, <1>5, CallGone DEF GoneInv
  <2>2. QED
    BY <1>1, <1>2, <2>1
<1>6. QED
  BY <1>4, <1>5 DEF GoneInv

-----------------------------------------------------------------------------
(* A delete, and a death. *)

\* Operations may settle, and nothing else about them changes but gone.
Stops ==
  /\ ops' = [q \in DOMAIN ops |-> ops'[q]]
  /\ \A q \in DOMAIN ops :
       /\ ops'[q] \in OpRecs(Len(inodes)) /\ ops'[q].kind = ops[q].kind /\ ops'[q].proc = ops[q].proc
       /\ ops'[q].after = ops[q].after /\ ops'[q].handle = ops[q].handle
       /\ ops'[q].start = ops[q].start /\ ops'[q].left = ops[q].left
       /\ \/ ops'[q].at = ops[q].at
          \/ ops'[q].at = "dead" /\ ops[q].at \notin Ended
          \/ ops'[q].at = "done" /\ ops[q].kind = "delete" /\ ops[q].at = "start"
  /\ tail' \in [Procs -> {0} \cup DOMAIN ops]
  /\ \A p \in Procs : tail'[p] = 0 \/ (tail'[p] = tail[p] /\ ops'[tail[p]].at = ops[tail[p]].at)
  /\ inodes' = inodes /\ path' \in 0..Len(inodes) /\ crashes' \in 0..MaxCrashes
  /\ faults' = faults /\ overtaken' \in BOOLEAN

\* They keep what an operation is.
LEMMA StopsKeep ==
  ASSUME TypesInv, Stops
  PROVE  Kept
<1>1. DOMAIN ops' = DOMAIN ops
  BY DEF Stops
<1>2. QED
  BY <1>1 DEF Stops, Kept, Ended

\* They keep the types.
LEMMA StopsTypes ==
  ASSUME TypesInv, Stops
  PROVE  TypesInv'
<1>1. ops' = [q \in DOMAIN ops |-> ops'[q]] /\ DOMAIN ops = 1..Len(ops) /\ Len(ops) \in Nat
  BY Typed DEF Stops
<1>2. DOMAIN ops' = DOMAIN ops /\ Len(ops') = Len(ops) /\ ops' \in Seq(OpRecs(Len(inodes')))
  <2> DEFINE R == OpRecs(Len(inodes))
  <2>1. inodes' = inodes /\ \A q \in DOMAIN ops : ops'[q] \in R
    BY DEF Stops
  <2> HIDE DEF R
  <2>2. \A q \in 1..Len(ops) : ops'[q] \in R
    BY <1>1, <2>1
  <2>3. ops' \in Seq(R) /\ Len(ops') = Len(ops)
    BY <1>1, <2>2
  <2>4. QED
    BY <1>1, <2>1, <2>3 DEF R
<1>3. tail' \in [Procs -> {0} \cup {q \in DOMAIN ops' : ~Settled(q)'}]
  <2> DEFINE T == {0} \cup {q \in DOMAIN ops' : ~Settled(q)'}
  <2>1. ASSUME NEW p \in Procs
        PROVE  tail'[p] \in T
    <3>1. tail[p] \in {0} \cup {q \in DOMAIN ops : ~Settled(q)}
      BY DEF TypesInv, TypeOK
    <3>2. tail'[p] = 0 \/ (tail'[p] = tail[p] /\ ops'[tail[p]].at = ops[tail[p]].at)
      BY DEF Stops
    <3>3. QED
      BY <1>2, <3>1, <3>2 DEF Settled
  <2>2. tail' \in [Procs -> {0} \cup DOMAIN ops]
    BY DEF Stops
  <2> HIDE DEF T
  <2>3. tail' \in [Procs -> T]
    BY <2>1, <2>2
  <2>4. QED
    BY <2>3 DEF T
<1>4. TypeOK'
  <2>1. inodes' \in Seq(Seq(Tokens)) /\ path' \in 0..Len(inodes')
        /\ crashes' \in 0..MaxCrashes /\ faults' \in 0..MaxFaults /\ overtaken' \in BOOLEAN
    BY DEF Stops, TypesInv, TypeOK
  <2>2. QED
    BY <1>2, <1>3, <2>1 DEF TypeOK, OpRecs
<1>5. \A p \in Procs : tail'[p] # 0 =>
        ops'[tail'[p]].kind \in {"append", "title"} /\ ops'[tail'[p]].proc = p
  <2>1. \A p \in Procs : tail[p] # 0 => tail[p] \in DOMAIN ops /\ Queues(tail[p]) /\ ops[tail[p]].proc = p
    BY Typed DEF TypesInv
  <2>2. QED
    BY <2>1 DEF Stops, Queues
<1>6. \A q \in DOMAIN ops' :
        ops'[q].after < q /\ (ops'[q].after # 0 => ops'[ops'[q].after].kind \in {"append", "title"})
  <2>1. \A q \in DOMAIN ops : ops[q].after < q /\ (ops[q].after # 0 => Queues(ops[q].after))
    BY DEF TypesInv
  <2>2. \A q \in DOMAIN ops : ops[q].after # 0 => ops[q].after \in DOMAIN ops
    <3>1. \A q \in DOMAIN ops : ops[q].after \in OpIds /\ q \in 1..Len(ops) /\ Len(ops) \in Nat
      BY OpTyped, Typed
    <3>2. QED
      BY <2>1, <3>1, Typed DEF OpIds
  <2>3. QED
    BY <1>2, <2>1, <2>2, StopsKeep DEF Kept, Queues
<1>7. Len(ops') <= MaxOps
  BY <1>2, Typed
<1>8. QED
  BY <1>4, <1>5, <1>6, <1>7 DEF TypesInv, Queues

\* They keep what each operation is in the middle of.
LEMMA StopsSteps ==
  ASSUME TypesInv, StepsInv, Stops
  PROVE  StepsInv'
<1>1. DOMAIN ops' = DOMAIN ops /\ inodes' = inodes
  BY DEF Stops
<1>2. ASSUME NEW q \in DOMAIN ops
      PROVE  InStep(q, ops'[q], inodes)
  <2>1. /\ ops'[q].kind = ops[q].kind /\ ops'[q].handle = ops[q].handle
        /\ ops'[q].start = ops[q].start /\ ops'[q].left = ops[q].left
        /\ \/ ops'[q].at = ops[q].at
           \/ ops'[q].at = "dead"
           \/ ops'[q].at = "done" /\ ops[q].kind = "delete"
    BY DEF Stops
  <2>2. InStep(q, ops[q], inodes)
    BY DEF StepsInv
  <2>3. CASE ops'[q].at = ops[q].at
    BY <2>1, <2>2, <2>3 DEF InStep
  <2>4. CASE ops'[q].at # ops[q].at
    BY <2>1, <2>4 DEF InStep, StepsOf
  <2>5. QED
    BY <2>3, <2>4
<1>3. \A q \in DOMAIN ops' : InStep(q, ops'[q], inodes')
  BY <1>1, <1>2
<1>4. QED
  BY <1>3 DEF StepsInv, InStep

\* A death is of this kind.
LEMMA CrashStops ==
  ASSUME TypesInv, NEW p \in Procs, Crash(p)
  PROVE  /\ Stops /\ path' = path /\ overtaken' = overtaken
         /\ \A q \in DOMAIN ops : ops'[q].at = IF ops[q].proc = p /\ ~Settled(q) THEN "dead" ELSE ops[q].at
<1>1. /\ ops' = [o \in DOMAIN ops |->
               IF ops[o].proc = p /\ ~Settled(o) THEN [ops[o] EXCEPT !.at = "dead"] ELSE ops[o]]
      /\ tail' = [tail EXCEPT ![p] = 0] /\ UNCHANGED <<inodes, path, faults, overtaken>>
      /\ crashes < MaxCrashes /\ crashes' = crashes + 1
  BY DEF Crash
<1>2. ASSUME NEW q \in DOMAIN ops
      PROVE  /\ ops'[q] \in OpRecs(Len(inodes)) /\ ops'[q].kind = ops[q].kind /\ ops'[q].proc = ops[q].proc
             /\ ops'[q].after = ops[q].after /\ ops'[q].handle = ops[q].handle
             /\ ops'[q].start = ops[q].start /\ ops'[q].left = ops[q].left
             /\ ops'[q].at = IF ops[q].proc = p /\ ~Settled(q) THEN "dead" ELSE ops[q].at
             /\ Settled(q) <=> ops[q].at \in Ended
  <2>1. ops[q] \in OpRecs(Len(inodes)) /\ Len(inodes) \in Nat
    BY OpTyped, Typed
  <2>2. [ops[q] EXCEPT !.at = "dead"] \in OpRecs(Len(inodes))
    BY <2>1, Recorded DEF Steps
  <2> DEFINE c == [ops[q] EXCEPT !.at = "dead"]
  <2>3. /\ c.at = "dead" /\ c.proc = ops[q].proc /\ c.kind = ops[q].kind /\ c.after = ops[q].after
        /\ c.start = ops[q].start /\ c.handle = ops[q].handle /\ c.left = ops[q].left
    BY <2>1, RecFields
  <2>4. ops'[q] = IF ops[q].proc = p /\ ~Settled(q) THEN c ELSE ops[q]
    BY <1>1
  <2> HIDE DEF c
  <2>5. c \in OpRecs(Len(inodes))
    BY <2>2 DEF c
  <2>6. Settled(q) <=> ops[q].at \in Ended
    BY EndedIsSettled
  <2>7. QED
    BY <2>1, <2>3, <2>4, <2>5, <2>6
<1>3. /\ ops' = [q \in DOMAIN ops |-> ops'[q]]
  BY <1>1
<1>4. tail \in [Procs -> {0} \cup {q \in DOMAIN ops : ~Settled(q)}]
  BY DEF TypesInv, TypeOK
<1>5. /\ tail' \in [Procs -> {0} \cup DOMAIN ops]
      /\ \A q \in Procs : tail'[q] = 0 \/ (tail'[q] = tail[q] /\ q # p)
  BY <1>1, <1>4
<1>6. \A q \in Procs : tail'[q] = 0 \/ (tail'[q] = tail[q] /\ ops'[tail[q]].at = ops[tail[q]].at)
  <2>1. \A q \in Procs : tail[q] # 0 => tail[q] \in DOMAIN ops /\ ops[tail[q]].proc = q
    BY Typed DEF TypesInv
  <2>2. QED
    BY <1>2, <1>5, <2>1
<1>7. crashes' \in 0..MaxCrashes /\ path' \in 0..Len(inodes) /\ overtaken' \in BOOLEAN
  <2>1. crashes \in 0..MaxCrashes /\ MaxCrashes \in Nat
    BY Typed, BoundsAssumption
  <2>2. crashes' \in 0..MaxCrashes
    BY <1>1, <2>1
  <2>3. QED
    BY <1>1, <2>2, Typed DEF TypesInv, TypeOK
<1>8. Stops
  BY <1>1, <1>2, <1>3, <1>5, <1>6, <1>7 DEF Stops
<1>9. QED
  BY <1>1, <1>2, <1>8

\* So is a delete.
LEMMA UnlinkStops ==
  ASSUME TypesInv, NEW o \in DOMAIN ops, Unlink(o)
  PROVE  /\ Stops /\ path' = 0 /\ overtaken' = (overtaken \/ Overtaken(o) # {})
         /\ ops[o].kind = "delete" /\ ops[o].at = "start" /\ ops'[o].at = "done" /\ Settled(ops[o].after)
         /\ \A q \in DOMAIN ops : q # o => ops'[q].at = ops[q].at
<1>1. /\ ops' = [i \in DOMAIN ops |->
               IF i = o THEN [ops[i] EXCEPT !.at = "done"]
               ELSE IF ops[i].at = "done" THEN [ops[i] EXCEPT !.gone = TRUE] ELSE ops[i]]
      /\ tail' = [tail EXCEPT ![ops[o].proc] = 0] /\ UNCHANGED <<inodes, crashes, faults>>
      /\ path' = 0 /\ overtaken' = (overtaken \/ Overtaken(o) # {})
      /\ ops[o].kind = "delete" /\ ops[o].at = "start" /\ Settled(ops[o].after)
  BY DEF Unlink, Is, Ready
<1>2. ASSUME NEW q \in DOMAIN ops
      PROVE  /\ ops'[q] \in OpRecs(Len(inodes)) /\ ops'[q].kind = ops[q].kind /\ ops'[q].proc = ops[q].proc
             /\ ops'[q].after = ops[q].after /\ ops'[q].handle = ops[q].handle
             /\ ops'[q].start = ops[q].start /\ ops'[q].left = ops[q].left
             /\ ops'[q].at = IF q = o THEN "done" ELSE ops[q].at
  <2>1. ops[q] \in OpRecs(Len(inodes)) /\ Len(inodes) \in Nat
    BY OpTyped, Typed
  <2>2. CASE q = o
    <3>1. ops'[q] = [ops[q] EXCEPT !.at = "done"]
      BY <1>1, <2>2
    <3>2. [ops[q] EXCEPT !.at = "done"] \in OpRecs(Len(inodes))
      BY <2>1, Recorded DEF Steps
    <3>3. QED
      BY <2>1, <2>2, <3>1, <3>2 DEF OpRecs
  <2>3. CASE q # o /\ ops[q].at = "done"
    <3>1. ops'[q] = [ops[q] EXCEPT !.gone = TRUE]
      BY <1>1, <2>3
    <3>2. [ops[q] EXCEPT !.gone = TRUE] \in OpRecs(Len(inodes))
      BY <2>1 DEF OpRecs
    <3>3. QED
      BY <2>1, <2>3, <3>1, <3>2 DEF OpRecs
  <2>4. CASE q # o /\ ops[q].at # "done"
    BY <1>1, <2>1, <2>4
  <2>5. QED
    BY <2>2, <2>3, <2>4
<1>3. /\ ops' = [q \in DOMAIN ops |-> ops'[q]]
  BY <1>1
<1>4. tail \in [Procs -> {0} \cup {q \in DOMAIN ops : ~Settled(q)}]
  BY DEF TypesInv, TypeOK
<1>5. /\ tail' \in [Procs -> {0} \cup DOMAIN ops]
      /\ \A q \in Procs : tail'[q] = 0 \/ tail'[q] = tail[q]
  BY <1>1, <1>4
<1>6. \A q \in Procs : tail'[q] = 0 \/ (tail'[q] = tail[q] /\ ops'[tail[q]].at = ops[tail[q]].at)
  <2>1. \A q \in Procs : tail[q] # 0 => tail[q] \in DOMAIN ops /\ ops[tail[q]].kind # "delete"
    BY Typed DEF TypesInv, Queues
  <2>2. QED
    BY <1>1, <1>2, <1>5, <2>1
<1>7. crashes' \in 0..MaxCrashes /\ path' \in 0..Len(inodes) /\ overtaken' \in BOOLEAN
  <2>1. overtaken \in BOOLEAN
    BY DEF TypesInv, TypeOK
  <2>2. overtaken' \in BOOLEAN
    BY <1>1, <2>1
  <2>3. QED
    BY <1>1, <2>2, Typed
<1>8. Stops
  <2>1. \A q \in DOMAIN ops :
          \/ ops'[q].at = ops[q].at
          \/ ops'[q].at = "done" /\ ops[q].kind = "delete" /\ ops[q].at = "start"
    BY <1>1, <1>2
  <2>2. inodes' = inodes /\ faults' = faults /\ crashes' \in 0..MaxCrashes
    BY <1>1, Typed
  <2>3. QED
    BY <1>2, <1>3, <1>5, <1>6, <1>7, <2>1, <2>2 DEF Stops
<1>9. QED
  BY <1>1, <1>2, <1>8

\* A death keeps the invariant.
LEMMA CrashKeeps ==
  ASSUME OneProcess, TypesInv, StepsInv, QueueInv, FilesInv, GoneInv, NEW p \in Procs, Crash(p)
  PROVE  TypesInv' /\ StepsInv' /\ QueueInv' /\ FilesInv' /\ GoneInv'
<1>1. /\ Stops /\ path' = path /\ overtaken' = overtaken
      /\ \A q \in DOMAIN ops : ops'[q].at = IF ops[q].proc = p /\ ~Settled(q) THEN "dead" ELSE ops[q].at
  BY CrashStops
<1>2. Kept /\ DOMAIN ops' = DOMAIN ops /\ inodes' = inodes
      /\ \A q \in DOMAIN ops : ops'[q].kind = ops[q].kind /\ ops'[q].after = ops[q].after
  BY <1>1, StopsKeep DEF Stops, Kept
<1>3. \A q \in DOMAIN ops : Settled(q)' /\ (ops'[q].at = "dead" \/ ops'[q].at = ops[q].at)
  <2>1. \A q \in DOMAIN ops : ops[q].proc = p
    BY OpTyped DEF OneProcess
  <2>2. QED
    BY <1>1, <1>2, <2>1, EndedIsSettled DEF Settled, Ended
<1>4. Gone' <=> Gone
  <2>1. \A q \in DOMAIN ops : Is(q, "delete", "done")' <=> Is(q, "delete", "done")
    BY <1>1, <1>2, EndedIsSettled DEF Is, Ended
  <2>2. QED
    BY <1>2, <2>1 DEF Gone
<1>5. QueueInv'
  BY <1>2, <1>3 DEF QueueInv
<1>6. FilesInv'
  <2>1. \A i \in DOMAIN inodes : Headed(inodes[i]) => Headed(inodes[i])'
    BY <1>2 DEF Headed
  <2>2. QED
    BY <1>1, <1>2, <1>3, <1>4, <2>1 DEF FilesInv
<1>7. GoneInv'
  BY <1>1, <1>2, <1>3, <1>4 DEF GoneInv
<1>8. QED
  BY <1>1, <1>5, <1>6, <1>7, StopsTypes, StopsSteps

\* A delete finds every writer called before it settled, and removes the path.
LEMMA UnlinkKeeps ==
  ASSUME OneProcess, TypesInv, StepsInv, QueueInv, FilesInv, GoneInv, NEW o \in DOMAIN ops, Unlink(o)
  PROVE  TypesInv' /\ StepsInv' /\ QueueInv' /\ FilesInv' /\ GoneInv'
<1>1. /\ Stops /\ path' = 0 /\ overtaken' = (overtaken \/ Overtaken(o) # {})
      /\ ops[o].kind = "delete" /\ ops[o].at = "start" /\ ops'[o].at = "done" /\ Settled(ops[o].after)
      /\ \A q \in DOMAIN ops : q # o => ops'[q].at = ops[q].at
  BY UnlinkStops
<1>2. Kept /\ DOMAIN ops' = DOMAIN ops
      /\ \A q \in DOMAIN ops : ops'[q].kind = ops[q].kind
  BY <1>1, StopsKeep DEF Kept
<1>3. \A q \in DOMAIN ops : Settled(q) => Settled(q)'
  BY <1>2, SettledLater
<1>4. Gone'
  BY <1>1, <1>2 DEF Gone, Is
<1>5. \A q \in DOMAIN ops : ops[q].kind = "create" => Settled(q)
  BY <1>1 DEF GoneInv
<1>6. ASSUME ~overtaken', NEW q \in DOMAIN ops
      PROVE  Settled(q)' \/ ops'[q].at = "start"
  <2>1. path # 0 /\ ~overtaken /\ Overtaken(o) = {}
    BY <1>1, <1>6 DEF Unlink
  <2>2. ~Gone
    BY <2>1 DEF GoneInv
  <2>3. CASE q = o
    BY <1>1, <2>3 DEF Settled
  <2>4. CASE q # o /\ ops[q].kind = "create"
    BY <1>3, <1>5, <2>4
  <2>5. CASE q # o /\ ops[q].kind = "delete"
    <3>1. ops[q].at \in {"start"} \cup Ended
      BY <2>5 DEF StepsInv, InStep, StepsOf, Ended
    <3>2. QED
      BY <1>1, <1>3, <2>5, <3>1, EndedIsSettled
  <2>6. CASE q # o /\ Queues(q)
    <3>1. CASE q < o
      <4>1. Settled(q)
        BY <1>1, <2>2, <2>6, <3>1, ServedInOrder
      <4>2. QED
        BY <1>3, <4>1
    <3>2. CASE q > o
      BY <1>1, <1>3, <2>1, <2>6, <3>2 DEF Overtaken, Queues
    <3>3. q \in Nat /\ o \in Nat
      BY Typed
    <3>4. QED
      BY <2>6, <3>1, <3>2, <3>3
  <2>7. ops[q].kind \in {"create", "append", "title", "delete"}
    BY OpTyped, KindsAssumption
  <2>8. QED
    BY <2>3, <2>4, <2>5, <2>6, <2>7 DEF Queues
<1>7. GoneInv'
  BY <1>1, <1>2, <1>3, <1>5, <1>6 DEF GoneInv
<1>8. QueueInv' /\ FilesInv'
  BY <1>4 DEF QueueInv, FilesInv
<1>9. QED
  BY <1>1, <1>7, <1>8, StopsTypes, StopsSteps

-----------------------------------------------------------------------------
(* The theorems. *)

\* The invariant holds at first.
LEMMA InitHolds == Init => IInv
<1> SUFFICES ASSUME Init PROVE IInv
  OBVIOUS
<1>1. ops = <<>> /\ DOMAIN ops = {} /\ Len(ops) = 0 /\ inodes = <<>> /\ DOMAIN inodes = {} /\ path = 0
  BY DEF Init
<1>2. TypeOK
  <2>1. inodes \in Seq(Seq(Tokens)) /\ path \in 0..Len(inodes)
    BY <1>1
  <2>2. \A S : ops \in Seq(S)
    BY <1>1
  <2>3. tail \in [Procs -> {0} \cup {o \in DOMAIN ops : ~Settled(o)}]
    BY DEF Init
  <2>4. crashes \in 0..MaxCrashes /\ faults \in 0..MaxFaults /\ overtaken \in BOOLEAN
    <3>1. crashes = 0 /\ faults = 0 /\ overtaken = FALSE
      BY DEF Init
    <3>2. MaxCrashes \in Nat /\ MaxFaults \in Nat
      BY BoundsAssumption
    <3>3. 0 \in 0..MaxCrashes /\ 0 \in 0..MaxFaults
      BY <3>2
    <3>4. QED
      BY <3>1, <3>3
  <2>5. QED
    BY <2>1, <2>2, <2>3, <2>4 DEF TypeOK
<1>3. TypesInv
  BY <1>1, <1>2, BoundsAssumption DEF TypesInv, Init
<1>4. StepsInv /\ QueueInv /\ FilesInv /\ GoneInv
  BY <1>1 DEF StepsInv, QueueInv, FilesInv, GoneInv, Gone
<1>5. QED
  BY <1>3, <1>4 DEF IInv

\* Every step keeps it.
LEMMA NextKeeps ==
  ASSUME OneProcess, IInv, [Next]_vars
  PROVE  IInv'
<1>0. TypesInv /\ StepsInv /\ QueueInv /\ FilesInv /\ GoneInv
  BY DEF IInv
<1>1. ASSUME NEW p \in Procs, Crash(p)
      PROVE  IInv'
  BY <1>0, <1>1, CrashKeeps DEF IInv
<1>2. ASSUME NEW p \in Procs, NEW kind \in Kinds, Call(p, kind)
      PROVE  IInv'
  BY <1>0, <1>2, CallTypes, CallSteps, CallQueue, CallFiles, CallGoneInv DEF IInv
<1>3. ASSUME NEW o \in DOMAIN ops, Step(o)
      PROVE  IInv'
  <2>1. CASE Unlink(o)
    BY <1>0, <2>1, UnlinkKeeps DEF IInv
  <2>2. CASE ~Unlink(o)
    <3>1. Effect(o)
      BY <1>0, <1>3, <2>2, StepEffect
    <3>2. QED
      BY <1>0, <3>1, TypesMove, StepsMove, QueueMove, FilesMove, GoneMove DEF IInv
  <2>3. QED
    BY <2>1, <2>2
<1>4. CASE UNCHANGED vars
  BY <1>0, <1>4 DEF vars, IInv, TypesInv, TypeOK, StepsInv, QueueInv, FilesInv, GoneInv, Headed, InStep,
     Gone, Is, Settled, Queues
<1>5. QED
  BY <1>1, <1>2, <1>3, <1>4 DEF Next

\* It implies the property.
LEMMA HeaderFromInv ==
  ASSUME IInv
  PROVE  HeaderFirst
<1> SUFFICES ASSUME ~overtaken, HasLines(Content) PROVE NoOrphan
  BY DEF HeaderFirst, NoOrphan
<1>1. TypesInv /\ FilesInv /\ GoneInv
  BY DEF IInv
<1>2. path # 0
  BY DEF Content, HasLines
<1>3. ~Gone
  BY <1>1, <1>2 DEF GoneInv
<1>4. path \in DOMAIN inodes /\ Content = inodes[path]
  BY <1>1, <1>2, Typed DEF Content
<1>5. Headed(Content)
  BY <1>1, <1>3, <1>4 DEF FilesInv
<1>6. Content \in Seq(Tokens) /\ Content # <<>>
  BY <1>1, ContentTyped DEF HasLines
<1>7. FirstLine(Content)[1] = Content[1]
  BY <1>5, <1>6, FirstLineBegins DEF Headed
<1>8. QED
  BY <1>5, <1>6, <1>7 DEF Headed, NoOrphan

\* A file that holds anything begins with the header of a create or a retitle,
\* whatever dies or is written short, as long as no delete overtakes a writer:
\* for one process, whose queue a delete waits for (delete, jsonl-store.ts:410-422).
THEOREM HeadersComeFirst ==
  ASSUME OneProcess
  PROVE  Spec => []HeaderFirst
<1>1. Init => IInv
  BY InitHolds
<1>2. IInv /\ [Next]_vars => IInv'
  BY NextKeeps
<1>3. IInv => HeaderFirst
  BY HeaderFromInv
<1>4. QED
  BY <1>1, <1>2, <1>3, PTL DEF Spec

\* The types hold, of any number of processes: a process's queue names only
\* operations that have not settled.
THEOREM TypeCorrect == Spec => []TypeOK
<1> DEFINE Inv == TypesInv /\ StepsInv
<1>1. Init => Inv
  BY InitHolds DEF IInv
<1>2. Inv /\ [Next]_vars => Inv'
  <2> SUFFICES ASSUME Inv, [Next]_vars PROVE Inv'
    OBVIOUS
  <2>1. ASSUME NEW p \in Procs, Crash(p)
        PROVE  Inv'
    BY <2>1, CrashStops, StopsTypes, StopsSteps
  <2>2. ASSUME NEW p \in Procs, NEW kind \in Kinds, Call(p, kind)
        PROVE  Inv'
    BY <2>2, CallTypes, CallSteps
  <2>3. ASSUME NEW o \in DOMAIN ops, Step(o)
        PROVE  Inv'
    <3>1. CASE Unlink(o)
      BY <3>1, UnlinkStops, StopsTypes, StopsSteps
    <3>2. CASE ~Unlink(o)
      <4>1. Effect(o)
        BY <2>3, <3>2, StepEffect
      <4>2. QED
        BY <4>1, TypesMove, StepsMove
    <3>3. QED
      BY <3>1, <3>2
  <2>4. CASE UNCHANGED vars
    BY <2>4 DEF vars, TypesInv, TypeOK, StepsInv, InStep, Settled, Queues
  <2>5. QED
    BY <2>1, <2>2, <2>3, <2>4 DEF Next
<1>3. Inv => TypeOK
  BY DEF TypesInv
<1>4. QED
  BY <1>1, <1>2, <1>3, PTL DEF Spec

-----------------------------------------------------------------------------
(* Lines of three tokens. *)

\* Where the n-th line begins its two halves and its end: lines of three tokens, the
\* last one perhaps torn.
Shaped(c) ==
  \A i \in DOMAIN c :
    /\ i % 3 = 1 => c[i] = Half(c[i][1], 1)
    /\ i % 3 = 2 => c[i] = Half(c[i - 1][1], 2)
    /\ i % 3 = 0 => c[i] = Newline

\* Where the lines after the header begin.
EntryPlaces(c) == {i \in DOMAIN c : i > 3 /\ i % 3 = 1}

\* A file of len tokens holds n whole entries.
Holds(n, len) == n \in Nat /\ (n = 0 \/ 3 * n + 2 <= len) /\ len < 3 * n + 5

\* Counting by threes.
LEMMA Threes ==
  ASSUME NEW i \in Nat
  PROVE  /\ i % 3 \in {0, 1, 2}
         /\ i % 3 = 0 => (i + 1) % 3 = 1
         /\ i % 3 = 1 => (i + 1) % 3 = 2 /\ (i + 1 + 1) % 3 = 0
         /\ i % 3 = 2 => (i + 1) % 3 = 0
  OBVIOUS

\* Where line breaks are.
LEMMA ShapedBreaks ==
  ASSUME NEW c \in Seq(Tokens), Shaped(c)
  PROVE  \A i \in DOMAIN c : c[i] = Newline <=> i % 3 = 0
<1>1. ASSUME NEW i \in DOMAIN c, c[i] = Newline
      PROVE  i % 3 = 0
  <2>1. \A n, k : Half(n, k) = Newline => k = 0
    BY DEF Half, Newline
  <2>2. i \in Nat /\ i % 3 \in {0, 1, 2}
    OBVIOUS
  <2>3. i % 3 # 1
    <3> SUFFICES ASSUME i % 3 = 1 PROVE FALSE
      OBVIOUS
    <3>1. c[i] = Half(c[i][1], 1)
      BY DEF Shaped
    <3>2. QED
      BY <1>1, <2>1, <3>1
  <2>4. i % 3 # 2
    <3> SUFFICES ASSUME i % 3 = 2 PROVE FALSE
      OBVIOUS
    <3>1. c[i] = Half(c[i - 1][1], 2)
      BY DEF Shaped
    <3>2. QED
      BY <1>1, <2>1, <3>1
  <2>5. QED
    BY <2>2, <2>3, <2>4
<1>2. QED
  BY <1>1 DEF Shaped

\* Where lines begin.
LEMMA ShapedStarts ==
  ASSUME NEW c \in Seq(Tokens), Shaped(c)
  PROVE  Starts(c) = {i \in DOMAIN c : i % 3 = 1}
<1>1. \A i \in DOMAIN c : c[i] = Newline <=> i % 3 = 0
  BY ShapedBreaks
<1>2. ASSUME NEW i \in DOMAIN c
      PROVE  (c[i] # Newline /\ (i = 1 \/ c[i - 1] = Newline)) <=> i % 3 = 1
  <2>1. i \in Nat /\ i >= 1 /\ (i # 1 => i - 1 \in DOMAIN c)
    OBVIOUS
  <2>2. i # 1 => (c[i - 1] = Newline <=> (i - 1) % 3 = 0)
    BY <1>1, <2>1
  <2>3. c[i] = Newline <=> i % 3 = 0
    BY <1>1
  <2>4. QED
    BY <2>1, <2>2, <2>3
<1>3. QED
  BY <1>2 DEF Starts

\* A least number is the minimum.
LEMMA MinIs ==
  ASSUME NEW B \in SUBSET Nat, NEW m \in B, \A j \in B : m <= j
  PROVE  Min(B) = m
<1>1. Min(B) \in B /\ Min(B) <= m
  BY LeastOf
<1>2. m <= Min(B) /\ Min(B) \in Nat /\ m \in Nat
  BY <1>1
<1> DEFINE x == Min(B)
<1>3. x <= m /\ m <= x /\ x \in Nat /\ m \in Nat
  BY <1>1, <1>2
<1> HIDE DEF x
<1>4. x = m
  BY <1>3
<1>5. QED
  BY <1>4 DEF x

\* A greatest number is the maximum.
LEMMA MaxIs ==
  ASSUME NEW n \in Nat, NEW B \in SUBSET (0..n), NEW m \in B, \A j \in B : j <= m
  PROVE  Max(B) = m
<1>1. Max(B) \in B /\ Max(B) >= m
  BY GreatestOf
<1>2. Max(B) <= m /\ Max(B) \in Nat /\ m \in Nat
  <2>1. Max(B) \in 0..n /\ m \in 0..n
    BY <1>1
  <2>2. QED
    BY <1>1, <2>1
<1> DEFINE x == Max(B)
<1>3. x <= m /\ m <= x /\ x \in Nat /\ m \in Nat
  BY <1>1, <1>2
<1> HIDE DEF x
<1>4. x = m
  BY <1>3
<1>5. QED
  BY <1>4 DEF x

\* A piece of two halves of one number is whole.
LEMMA WholePiece ==
  ASSUME NEW c \in Seq(Tokens), Shaped(c), NEW i \in DOMAIN c, i % 3 = 1, i + 1 \in DOMAIN c
  PROVE  Whole(SubSeq(c, i, i + 1))
<1> DEFINE s == SubSeq(c, i, i + 1)
<1>1. /\ s \in Seq(Tokens) /\ Len(s) = 2 /\ s[1] = c[i] /\ s[2] = c[i + 1]
  <2>1. i \in 1..Len(c) /\ i + 1 \in 1..Len(c) /\ Len(c) \in Nat
    OBVIOUS
  <2>2. s \in Seq(Tokens) /\ Len(s) = 2
    BY <2>1
  <2>3. s[1] = c[i + 1 - 1] /\ s[2] = c[i + 2 - 1]
    BY <2>1
  <2>4. i + 1 - 1 = i /\ i + 2 - 1 = i + 1
    BY <2>1
  <2>5. QED
    BY <2>2, <2>3, <2>4
<1>2. c[i] = Half(c[i][1], 1) /\ c[i + 1] = Half(c[i][1], 2)
  <2> DEFINE j == i + 1
  <2>1. j \in DOMAIN c /\ j % 3 = 2 /\ j - 1 = i
    BY Threes
  <2> HIDE DEF j
  <2>2. c[j] = Half(c[j - 1][1], 2)
    BY <2>1 DEF Shaped
  <2>3. c[j] = Half(c[i][1], 2)
    BY <2>1, <2>2
  <2>4. QED
    BY <2>3 DEF Shaped, j
<1> HIDE DEF s
<1>3. s = <<Half(s[1][1], 1), Half(s[1][1], 2)>>
  BY <1>1, <1>2
<1>4. QED
  BY <1>1, <1>3 DEF Whole, s

\* The line that begins at a place.
LEMMA ShapedLine ==
  ASSUME NEW c \in Seq(Tokens), Shaped(c), NEW i \in DOMAIN c, i % 3 = 1
  PROVE  Whole(LineAt(c, i)) <=> i + 1 \in DOMAIN c
<1> DEFINE E == {j \in i..Len(c) : j = Len(c) \/ c[j + 1] = Newline}
<1>1. E \in SUBSET Nat /\ i \in Nat /\ Len(c) \in Nat /\ i <= Len(c)
  OBVIOUS
<1>2. \A j \in DOMAIN c : c[j] = Newline <=> j % 3 = 0
  BY ShapedBreaks
<1>3. CASE i + 1 \in DOMAIN c
  <2>1. i + 1 \in E
    <3>1. i + 1 # Len(c) => i + 1 + 1 \in DOMAIN c
      BY <1>1, <1>3
    <3>2. (i + 1 + 1) % 3 = 0
      BY <1>1, Threes
    <3>3. i + 1 # Len(c) => c[i + 1 + 1] = Newline
      BY <1>2, <3>1, <3>2
    <3>4. i + 1 \in i..Len(c)
      BY <1>1, <1>3
    <3>5. QED
      BY <3>3, <3>4
  <2>2. i \notin E
    BY <1>1, <1>2, <1>3
  <2>3. \A j \in E : i + 1 <= j
    BY <1>1, <2>2
  <2> HIDE DEF E
  <2>4. Min(E) = i + 1
    BY <1>1, <2>1, <2>3, MinIs
  <2>5. LineAt(c, i) = SubSeq(c, i, i + 1)
    BY <2>4 DEF LineAt, E
  <2>6. QED
    BY <1>3, <2>5, WholePiece
<1>4. CASE i + 1 \notin DOMAIN c
  <2>1. i = Len(c)
    BY <1>1, <1>4
  <2>2. i \in E /\ \A j \in E : i <= j
    BY <2>1
  <2> HIDE DEF E
  <2>3. Min(E) = i
    BY <1>1, <2>2, MinIs
  <2>4. LineAt(c, i) = SubSeq(c, i, i)
    BY <2>3 DEF LineAt, E
  <2>5. Len(SubSeq(c, i, i)) = 1
    OBVIOUS
  <2>6. QED
    BY <1>4, <2>4, <2>5 DEF Whole
<1>5. QED
  BY <1>3, <1>4

\* Numbers n steps of three apart are n.
LEMMA ThreeApart ==
  ASSUME NEW n \in Nat
  PROVE  LET W == {i \in Nat : \E k \in 1..n : i = 3 * k + 1} IN IsFiniteSet(W) /\ Cardinality(W) = n
<1> DEFINE W == {i \in Nat : \E k \in 1..n : i = 3 * k + 1}
           f == [k \in 1..n |-> 3 * k + 1]
<1>1. f \in Bijection(1..n, W)
  <2>1. f \in [1..n -> W]
    OBVIOUS
  <2>2. \A k, l \in 1..n : f[k] = f[l] => k = l
    OBVIOUS
  <2>3. \A i \in W : \E k \in 1..n : f[k] = i
    OBVIOUS
  <2> HIDE DEF f, W
  <2>4. QED
    BY <2>1, <2>2, <2>3 DEF Bijection, Injection, Surjection, IsInjective
<1>2. IsFiniteSet(1..n) /\ Cardinality(1..n) = n
  BY FS_Interval
<1> HIDE DEF f, W
<1>3. IsFiniteSet(W) /\ Cardinality(W) = n
  <2>1. ExistsBijection(1..n, W)
    BY <1>1 DEF ExistsBijection
  <2>2. QED
    BY <1>2, <2>1, FS_Bijection
<1>4. QED
  BY <1>3 DEF W

-----------------------------------------------------------------------------
(* What a reader finds in such a file. *)

\* The place of the k-th of the n entries.
Places(n) == {i \in Nat : \E k \in 1..n : i = 3 * k + 1}

LEMMA PlacesCount ==
  ASSUME NEW n \in Nat
  PROVE  /\ Cardinality(Places(n)) = n
         /\ \A k \in 1..n : (CHOOSE i \in Places(n) : Cardinality(Places(n) \cap (1..i)) = k) = 3 * k + 1
<1>1. \A k \in Nat : Cardinality(Places(k)) = k
  BY ThreeApart DEF Places
<1>2. ASSUME NEW k \in 1..n
      PROVE  /\ 3 * k + 1 \in Places(n)
             /\ Cardinality(Places(n) \cap (1..(3 * k + 1))) = k
  <2>1. Places(n) \cap (1..(3 * k + 1)) = Places(k)
    BY DEF Places
  <2>2. 3 * k + 1 \in Places(n)
    BY DEF Places
  <2>3. k \in Nat
    OBVIOUS
  <2>4. QED
    BY <1>1, <2>1, <2>2, <2>3
<1>3. ASSUME NEW k \in 1..n
      PROVE  (CHOOSE i \in Places(n) : Cardinality(Places(n) \cap (1..i)) = k) = 3 * k + 1
  <2> DEFINE P(i) == i \in Places(n) /\ Cardinality(Places(n) \cap (1..i)) = k
             x == CHOOSE i : P(i)
  <2>1. P(3 * k + 1)
    BY <1>2
  <2>2. P(x)
    BY <2>1
  <2> HIDE DEF x
  <2>3. PICK l \in 1..n : x = 3 * l + 1
    BY <2>2 DEF Places
  <2>4. Cardinality(Places(n) \cap (1..x)) = l
    BY <1>2, <2>3
  <2>5. l = k
    BY <2>2, <2>4
  <2>6. x = 3 * k + 1
    BY <2>3, <2>5
  <2>7. QED
    BY <2>6 DEF x
<1>4. QED
  BY <1>1, <1>3

\* What a reader finds, by position.
LEMMA EntriesAre ==
  ASSUME TypesInv, Shaped(Content)
  PROVE  /\ EntryStarts = EntryPlaces(Content)
         /\ WholeEntries = {i \in EntryPlaces(Content) : i + 1 \in DOMAIN Content}
         /\ ~Corrupt
<1> DEFINE c == Content
<1>1. c \in Seq(Tokens) /\ Len(c) \in Nat /\ Shaped(c) /\ DOMAIN c = 1..Len(c)
  BY ContentTyped
<1>2. Starts(c) = {i \in DOMAIN c : i % 3 = 1}
  BY <1>1, ShapedStarts
<1>3. \A i \in DOMAIN c : i % 3 = 1 => (Whole(LineAt(c, i)) <=> i + 1 \in DOMAIN c)
  BY <1>1, ShapedLine
<1>4. EntryStarts = {i \in Starts(c) : \E j \in Starts(c) : j < i}
  BY DEF EntryStarts
<1>5. WholeEntries = {i \in EntryStarts : Whole(LineAt(c, i))}
  BY DEF WholeEntries
<1> HIDE DEF c
<1>6. \A i \in DOMAIN c : i % 3 = 1 => ((\E j \in Starts(c) : j < i) <=> i > 3)
  <2>1. ASSUME NEW i \in DOMAIN c, i % 3 = 1, NEW j \in Starts(c), j < i
        PROVE  i > 3
    BY <1>1, <1>2, <2>1
  <2>2. ASSUME NEW i \in DOMAIN c, i > 3
        PROVE  1 \in Starts(c) /\ 1 < i
    BY <1>1, <1>2, <2>2
  <2>3. QED
    BY <2>1, <2>2
<1>7. EntryStarts = EntryPlaces(c)
  BY <1>2, <1>4, <1>6 DEF EntryPlaces
<1>8. WholeEntries = {i \in EntryPlaces(c) : i + 1 \in DOMAIN c}
  BY <1>3, <1>5, <1>7 DEF EntryPlaces
<1>9. ASSUME NEW i \in EntryPlaces(c), NEW j \in EntryPlaces(c), i < j
      PROVE  i + 1 \in DOMAIN c
  BY <1>1, <1>9 DEF EntryPlaces
<1>10. ~Corrupt
  BY <1>7, <1>8, <1>9 DEF Corrupt
<1>11. QED
  BY <1>7, <1>8, <1>10 DEF c

\* A file that holds n entries is read as n numbers.
LEMMA ReadableIs ==
  ASSUME TypesInv, Shaped(Content), ~Gone, NEW n, Holds(n, Len(Content))
  PROVE  Readable = [k \in 1..n |-> Content[3 * k + 1][1]]
<1>1. n \in Nat /\ (n = 0 \/ 3 * n + 2 <= Len(Content)) /\ Len(Content) < 3 * n + 5
      /\ Len(Content) \in Nat /\ DOMAIN Content = 1..Len(Content)
  BY ContentTyped DEF Holds
<1>2. WholeEntries = Places(n)
  <2>1. WholeEntries = {i \in EntryPlaces(Content) : i + 1 \in DOMAIN Content}
    BY EntriesAre
  <2> DEFINE len == Len(Content)
  <2>2. WholeEntries = {i \in 1..len : i > 3 /\ i % 3 = 1 /\ i + 1 \in 1..len}
    BY <1>1, <2>1 DEF EntryPlaces
  <2>3. n \in Nat /\ (n = 0 \/ 3 * n + 2 <= len) /\ len < 3 * n + 5 /\ len \in Nat
    BY <1>1
  <2> HIDE DEF len
  <2>4. ASSUME NEW i \in 1..len, i > 3, i % 3 = 1, i + 1 \in 1..len
        PROVE  \E k \in 1..n : i = 3 * k + 1
    <3>1. i = 3 * (i \div 3) + 1
      BY <2>3, <2>4
    <3>2. i \div 3 \in 1..n
      BY <2>3, <2>4
    <3>3. QED
      BY <3>1, <3>2
  <2>5. ASSUME NEW k \in 1..n
        PROVE  3 * k + 1 \in 1..len /\ 3 * k + 1 > 3 /\ (3 * k + 1) % 3 = 1 /\ 3 * k + 1 + 1 \in 1..len
    BY <2>3
  <2>6. WholeEntries \subseteq Places(n)
    BY <2>2, <2>4 DEF Places
  <2>7. Places(n) \subseteq WholeEntries
    <3>1. ASSUME NEW i \in Places(n)
          PROVE  i \in WholeEntries
      <4>1. PICK k \in 1..n : i = 3 * k + 1
        BY DEF Places
      <4>2. i \in 1..len /\ i > 3 /\ i % 3 = 1 /\ i + 1 \in 1..len
        BY <2>5, <4>1
      <4>3. QED
        BY <2>2, <4>2
    <3>2. QED
      BY <3>1
  <2>8. QED
    BY <2>6, <2>7
<1>3. /\ Cardinality(Places(n)) = n
      /\ \A k \in 1..n : (CHOOSE i \in Places(n) : Cardinality(Places(n) \cap (1..i)) = k) = 3 * k + 1
  BY <1>1, PlacesCount
<1>4. ~Deleted /\ ~Corrupt
  BY EntriesAre DEF Deleted, Gone
<1>5. Readable = [k \in 1..Cardinality(Places(n)) |->
                    Content[CHOOSE i \in Places(n) : Cardinality(Places(n) \cap (1..i)) = k][1]]
  BY <1>2, <1>4 DEF Readable
<1> DEFINE at(k) == CHOOSE i \in Places(n) : Cardinality(Places(n) \cap (1..i)) = k
<1>6. \A k \in 1..n : at(k) = 3 * k + 1
  BY <1>3
<1>7. Readable = [k \in 1..n |-> Content[at(k)][1]]
  BY <1>3, <1>5
<1> HIDE DEF at
<1>8. QED
  BY <1>6, <1>7

\* Some number of entries is held.
LEMMA SomeHeld ==
  ASSUME NEW len \in Nat
  PROVE  \E n : Holds(n, len)
<1>1. CASE len < 5
  <2>1. Holds(0, len)
    BY <1>1 DEF Holds
  <2>2. QED
    BY <2>1
<1>2. CASE len >= 5
  <2> DEFINE n == (len - 2) \div 3
  <2>1. n \in Nat /\ 3 * n + 2 <= len /\ len < 3 * n + 5
    BY <1>2
  <2> HIDE DEF n
  <2>2. QED
    BY <2>1 DEF Holds
<1>3. QED
  BY <1>1, <1>2

-----------------------------------------------------------------------------
(* Tails, headers and retitles of such a file. *)

\* The tail of a file, by its length.
LEMMA ShapedTail ==
  ASSUME NEW c \in Seq(Tokens), Shaped(c), Len(c) >= 2
  PROVE  /\ Len(c) % 3 = 0 => TailKind(c) = "clean"
         /\ Len(c) % 3 = 2 => TailKind(c) = "keep"
         /\ Len(c) % 3 = 1 => TailKind(c) = "torn" /\ LastLineStart(c) = Len(c) - 1 /\ Len(c) > 3
<1> DEFINE n == Len(c)
<1>1. n \in Nat /\ n >= 2 /\ n \in DOMAIN c /\ DOMAIN c = 1..n /\ c # <<>> /\ Last(c) = c[n]
  BY DEF Last
<1>2. \A i \in DOMAIN c : c[i] = Newline <=> i % 3 = 0
  BY ShapedBreaks
<1>3. Breaks(c) = {i \in 1..n : i % 3 = 0}
  BY <1>2 DEF Breaks
<1>4. CASE n % 3 = 0
  BY <1>1, <1>2, <1>4 DEF TailKind
<1>5. CASE n % 3 = 2
  <2>1. Last(c) # Newline
    BY <1>1, <1>2, <1>5
  <2> DEFINE B == {0} \cup Breaks(c)
  <2>2. B \in SUBSET (0..n) /\ n - 2 \in B /\ \A j \in B : j <= n - 2
    BY <1>1, <1>3, <1>5
  <2> HIDE DEF B
  <2>3. Max(B) = n - 2
    BY <1>1, <2>2, MaxIs
  <2>4. LastLineStart(c) = n - 2
    BY <2>3 DEF LastLineStart, B
  <2>5. n - 1 \in DOMAIN c /\ (n - 1) % 3 = 1 /\ n - 1 + 1 \in DOMAIN c /\ n - 2 + 1 = n - 1 /\ n - 1 + 1 = n
    BY <1>1, <1>5
  <2>6. Whole(SubSeq(c, n - 1, n - 1 + 1))
    BY <2>5, WholePiece
  <2>7. Whole(SubSeq(c, LastLineStart(c) + 1, Len(c)))
    BY <2>4, <2>5, <2>6
  <2>8. QED
    BY <1>1, <1>5, <2>1, <2>7 DEF TailKind
<1>6. CASE n % 3 = 1
  <2>1. Last(c) # Newline
    BY <1>1, <1>2, <1>6
  <2> DEFINE B == {0} \cup Breaks(c)
  <2>2. B \in SUBSET (0..n) /\ n - 1 \in B /\ \A j \in B : j <= n - 1
    BY <1>1, <1>3, <1>6
  <2> HIDE DEF B
  <2>3. Max(B) = n - 1
    BY <1>1, <2>2, MaxIs
  <2>4. LastLineStart(c) = n - 1
    BY <2>3 DEF LastLineStart, B
  <2>5. n - 1 + 1 = n /\ n - 1 # 0 /\ n > 3
    BY <1>1, <1>6
  <2>6. Len(SubSeq(c, n, n)) = 1
    BY <1>1
  <2>7. ~Whole(SubSeq(c, LastLineStart(c) + 1, Len(c)))
    BY <2>4, <2>5, <2>6 DEF Whole
  <2>8. QED
    BY <1>1, <1>6, <2>1, <2>4, <2>5, <2>7 DEF TailKind
<1>7. QED
  BY <1>1, <1>4, <1>5, <1>6, Threes

\* A file whose first line is whole has two tokens.
LEMMA HeaderLength ==
  ASSUME NEW c \in Seq(Tokens), HasLines(c), Whole(FirstLine(c))
  PROVE  Len(c) >= 2
<1> DEFINE A == {i \in DOMAIN c : c[i] # Newline}
           s == Min(A)
           E == {i \in s..Len(c) : i = Len(c) \/ c[i + 1] = Newline}
<1>1. A \in SUBSET Nat /\ A # {} /\ A \subseteq 1..Len(c) /\ Len(c) \in Nat
  BY DEF HasLines
<1>2. FirstLine(c) = SubSeq(c, s, Min(E))
  BY DEF FirstLine, LineAt
<1>3. s \in 1..Len(c)
  <2> HIDE DEF A
  <2>1. Min(A) \in A
    BY <1>1, LeastOf
  <2>2. QED
    BY <1>1, <2>1 DEF A
<1> HIDE DEF s
<1>4. E \in SUBSET Nat /\ Len(c) \in E /\ E \subseteq s..Len(c)
  BY <1>1, <1>3
<1>5. Min(E) \in s..Len(c)
  <2> HIDE DEF E
  <2>1. Min(E) \in E
    BY <1>4, LeastOf
  <2>2. QED
    BY <1>4, <2>1
<1> DEFINE e == Min(E)
<1>6. e \in s..Len(c) /\ FirstLine(c) = SubSeq(c, s, e)
  BY <1>2, <1>5
<1> HIDE DEF e
<1>7. Len(FirstLine(c)) = e - s + 1
  BY <1>1, <1>3, <1>6
<1>8. Len(FirstLine(c)) = 2
  BY DEF Whole
<1>9. QED
  BY <1>1, <1>3, <1>6, <1>7, <1>8

\* A concatenation, element by element.
LEMMA Concat ==
  ASSUME NEW S, NEW s \in Seq(S), NEW t \in Seq(S)
  PROVE  /\ s \o t \in Seq(S) /\ Len(s \o t) = Len(s) + Len(t) /\ DOMAIN (s \o t) = 1..(Len(s) + Len(t))
         /\ \A i \in 1..(Len(s) + Len(t)) : (s \o t)[i] = IF i <= Len(s) THEN s[i] ELSE t[i - Len(s)]
  OBVIOUS

\* A retitle replaces the first line and nothing else.
LEMMA RetitleShape ==
  ASSUME NEW c \in Seq(Tokens), Shaped(c), Len(c) >= 2, NEW o \in OpIds
  PROVE  LET d == Line(o) \o Body(c) IN
           /\ Len(d) = IF Len(c) = 2 THEN 3 ELSE Len(c)
           /\ \A i \in DOMAIN d : d[i] = IF i <= 3 THEN Line(o)[i] ELSE c[i]
<1> DEFINE n == Len(c)
           b == Body(c)
           l == Line(o)
<1>1. n \in Nat /\ n >= 2 /\ DOMAIN c = 1..n
  OBVIOUS
<1>2. l \in Seq(Tokens) /\ Len(l) = 3
  BY DEF Line, Tokens, Half, Newline, OpIds
<1>3. \A i \in DOMAIN c : c[i] = Newline <=> i % 3 = 0
  BY ShapedBreaks
<1>4. Breaks(c) = {i \in 1..n : i % 3 = 0}
  BY <1>3 DEF Breaks
<1>5. CASE n = 2
  <2>1. Breaks(c) = {}
    BY <1>4, <1>5
  <2>2. b = <<>>
    BY <2>1 DEF Body
  <2> HIDE DEF l, n, b
  <2>3. l \o b = l
    BY <1>2, <2>2
  <2>4. QED
    BY <1>2, <1>5, <2>3 DEF l, b, n
<1>6. CASE n > 2
  <2> DEFINE B == Breaks(c)
  <2>1. B \in SUBSET Nat /\ 3 \in B /\ \A j \in B : 3 <= j
    BY <1>1, <1>4, <1>6
  <2>2. B # {}
    BY <2>1
  <2> HIDE DEF B
  <2>3. Min(B) = 3
    BY <2>1, MinIs
  <2>4. b = SubSeq(c, 4, n)
    BY <2>2, <2>3 DEF Body, B
  <2> HIDE DEF n
  <2>5. b \in Seq(Tokens) /\ Len(b) = n - 3 /\ \A i \in 1..(n - 3) : b[i] = c[i + 3]
    <3>1. c \in Seq(Tokens) /\ Len(c) = n
      BY DEF n
    <3>2. QED
      BY <1>1, <1>6, <2>4, <3>1
  <2> HIDE DEF b, l
  <2>6. Len(l \o b) = n /\ DOMAIN (l \o b) = 1..n
        /\ \A i \in 1..n : (l \o b)[i] = IF i <= 3 THEN l[i] ELSE b[i - 3]
    <3>0. l \in Seq(Tokens) /\ b \in Seq(Tokens)
      BY <1>2, <2>5
    <3>1. 3 + (n - 3) = n /\ n - 3 \in Nat
      BY <1>1, <1>6
    <3>2. Len(l \o b) = Len(l) + Len(b) /\ DOMAIN (l \o b) = 1..(Len(l) + Len(b))
      BY ONLY <3>0, Concat
    <3>3. \A i \in 1..(Len(l) + Len(b)) : (l \o b)[i] = IF i <= Len(l) THEN l[i] ELSE b[i - Len(l)]
      BY ONLY <3>0, Concat
    <3>4. Len(l) + Len(b) = n
      BY <1>2, <2>5, <3>1
    <3>5. QED
      BY <1>2, <3>2, <3>3, <3>4
  <2>7. \A i \in 1..n : i > 3 => b[i - 3] = c[i]
    <3>1. ASSUME NEW i \in 1..n, i > 3
          PROVE  i - 3 \in 1..(n - 3) /\ i - 3 + 3 = i
      BY <1>1, <3>1
    <3>2. QED
      BY <2>5, <3>1
  <2>8. n # 2 /\ \A i \in 1..n : i \in Nat /\ (i <= 3 \/ i > 3)
    BY <1>1, <1>6
  <2>9. \A i \in 1..n : (l \o b)[i] = IF i <= 3 THEN l[i] ELSE c[i]
    BY <2>6, <2>7, <2>8
  <2>10. Len(l \o b) = (IF n = 2 THEN 3 ELSE n)
         /\ \A i \in DOMAIN (l \o b) : (l \o b)[i] = IF i <= 3 THEN l[i] ELSE c[i]
    BY <2>6, <2>8, <2>9
  <2>11. QED
    BY <2>10 DEF l, b, n
<1>7. QED
  BY <1>1, <1>5, <1>6

-----------------------------------------------------------------------------
(* The invariant of the file as a log. *)

\* Past its guard, and not at its end.
Working(o) == ops[o].at \notin Ended \cup {"start"}

\* Before a delete one operation works at a time, and no create beside the others.
AloneInv ==
  ~Gone =>
    /\ \A o, q \in DOMAIN ops : Working(o) /\ Working(q) => o = q
    /\ (\E o \in DOMAIN ops : ops[o].kind # "create") =>
         \A o \in DOMAIN ops : ops[o].kind = "create" => ~Working(o)

\* The entries in the file are of appends that wrote them, and who is given the
\* session finds its header.
LinesInv ==
  ~Gone =>
    /\ Shaped(Content)
    /\ \A i \in EntryPlaces(Content) :
         LET n == Content[i][1] IN
           /\ n \in DOMAIN ops /\ ops[n].kind = "append"
           /\ ops[n].at \in {"write", "done", "failed", "dead"}
    /\ (\E o \in DOMAIN ops : ops[o].kind # "create" \/ ops[o].at = "done") => Len(Content) >= 2

\* What is left to write of a line.
Rest(o, left) ==
  \A j \in DOMAIN left :
    /\ Len(left) - j = 1 => left[j] = Half(o, 2)
    /\ Len(left) - j = 2 => left[j] = Half(o, 1)
    /\ Len(left) - j \in {0, 3} => left[j] = Newline

\* What operation o, recorded as r, knows of the file at h that holds c.
Job(o, r, c, h) ==
  /\ r.at = "look" => r.tries = 0
  /\ r.at \in {"settle", "stat", "cut"} =>
       r.size = Len(c) /\ r.start = Len(c) - 1 /\ Len(c) > 3 /\ Len(c) % 3 = 1
  /\ r.at \in {"cut", "write"} => r.handle = h
  /\ r.at \in {"open", "write"} =>
       Rest(o, r.left) /\ Len(r.left) \in 1..4 /\ (Len(c) + Len(r.left)) % 3 = 0
  /\ r.at = "open" => Len(r.left) >= 3
  /\ r.kind = "create" => Len(c) + Len(r.left) = 3 /\ (c # <<>> => c[1][1] = o)
  /\ r.kind = "append" /\ r.at = "write" =>
       /\ Len(r.left) <= 2 => Len(c) > 3
       /\ \A i \in EntryPlaces(c) : c[i][1] = o <=> Len(r.left) <= 2 /\ i + 1 >= Len(c)
  /\ r.at = "rename" =>
       /\ Len(r.left) = IF Len(c) = 2 THEN 3 ELSE Len(c)
       /\ \A i \in DOMAIN r.left : r.left[i] = IF i <= 3 THEN Line(o)[i] ELSE c[i]

JobsInv ==
  ~Gone => \A o \in DOMAIN ops : /\ ops[o].at = "start" => ops[o].tries = 0
                                 /\ Working(o) => Job(o, ops[o], Content, path)

\* The same entries; one more, of o, which is behind the others.
SameEntries(c, d) ==
  \E n : /\ Holds(n, Len(c)) /\ Holds(n, Len(d))
         /\ \A k \in 1..n : c[3 * k + 1][1] = d[3 * k + 1][1]

OneMore(c, d, o) ==
  \E n : /\ Holds(n, Len(c)) /\ Holds(n + 1, Len(d))
         /\ \A k \in 1..n : c[3 * k + 1][1] = d[3 * k + 1][1] /\ c[3 * k + 1][1] < o
         /\ d[3 * n + 4][1] = o

\* What a step of o does to the file and to the entries in it.
Turned(o) ==
  /\ ops'[o].at # "start"
  /\ ops'[o].at \notin Ended => Job(o, ops'[o], Content', path')
  /\ ops[o].at = "write" => ops'[o].at \in {"write", "done", "failed"}
  /\ Shaped(Content')
  /\ \A i \in EntryPlaces(Content') :
       \/ i \in EntryPlaces(Content) /\ Content[i][1] = Content'[i][1]
       \/ Content'[i][1] = o /\ ops[o].kind = "append" /\ ops'[o].at \in {"write", "done", "failed"}
  /\ ops[o].kind # "create" \/ ops'[o].at = "done" \/ Len(Content) >= 2 => Len(Content') >= 2
  /\ \/ /\ SameEntries(Content, Content')
        /\ ops[o].kind = "append" /\ ops'[o].at = "done" =>
             \E i \in EntryPlaces(Content) : i + 1 \in DOMAIN Content /\ Content[i][1] = o
     \/ OneMore(Content, Content', o) /\ ops[o].kind = "append" /\ ops'[o].at \in {"write", "done", "failed"}

SInv == TypesInv /\ StepsInv /\ QueueInv /\ FilesInv /\ AloneInv /\ LinesInv /\ JobsInv

\* The same file holds the same entries.
LEMMA SameSelf ==
  ASSUME NEW c \in Seq(Tokens)
  PROVE  SameEntries(c, c)
<1>1. PICK n : Holds(n, Len(c))
  BY SomeHeld
<1>2. QED
  BY <1>1 DEF SameEntries

\* A step that leaves the file alone.
LEMMA QuietTurn ==
  ASSUME SInv, ~Gone, NEW o \in DOMAIN ops, Content' = Content, ops'[o].at # "start",
         ops'[o].at \notin Ended => Job(o, ops'[o], Content, path'),
         ops[o].at = "write" => ops'[o].at \in {"write", "done", "failed"},
         ops'[o].at = "done" => FALSE
  PROVE  Turned(o)
<1>1. /\ Shaped(Content) /\ (ops[o].kind # "create" => Len(Content) >= 2)
  BY DEF SInv, LinesInv
<1>2. SameEntries(Content, Content)
  BY ContentTyped, SameSelf DEF SInv
<1>3. QED
  BY <1>1, <1>2 DEF Turned

\* What is known of an operation at work.
LEMMA AtWork ==
  ASSUME SInv, ~Gone, NEW o \in DOMAIN ops, Working(o)
  PROVE  Job(o, ops[o], Content, path)
  BY DEF SInv, JobsInv

\* What is known of the file of one that is no create.
LEMMA FileThere ==
  ASSUME SInv, ~Gone, NEW o \in DOMAIN ops, ops[o].kind # "create"
  PROVE  /\ path # 0 /\ Content = inodes[path] /\ path \in DOMAIN inodes
         /\ Content \in Seq(Tokens) /\ Shaped(Content) /\ Len(Content) >= 2 /\ Len(Content) \in Nat
<1>1. path # 0
  BY DEF SInv, FilesInv
<1>2. Content = inodes[path] /\ path \in DOMAIN inodes
  BY <1>1, Typed DEF Content, SInv
<1>3. Content \in Seq(Tokens) /\ Len(Content) \in Nat
  BY ContentTyped DEF SInv
<1>4. QED
  BY <1>1, <1>2, <1>3 DEF SInv, LinesInv

\* Steps that fail, or throw.
LEMMA FailTurns ==
  ASSUME SInv, ~Gone, NEW o \in DOMAIN ops, Fail(o) \/ Throws(o)
  PROVE  Turned(o) /\ ops'[o].at = "failed"
<1>1. ops' = Set(o, [ops[o] EXCEPT !.at = "failed"]) /\ UNCHANGED <<inodes, path>>
  BY DEF Fail, Throws
<1>2. ops'[o] = [ops[o] EXCEPT !.at = "failed"]
  BY <1>1 DEF Set
<1>3. ops[o] \in OpRecs(Len(inodes))
  BY OpTyped DEF SInv
<1>4. ops'[o].at = "failed"
  BY <1>2, <1>3, RecFields
<1>5. Content' = Content
  BY <1>1 DEF Content
<1>6. QED
  BY <1>4, <1>5, QuietTurn DEF Ended

\* append's access.
LEMMA AccessTurns ==
  ASSUME SInv, ~Gone, NEW o \in DOMAIN ops, Access(o)
  PROVE  Turned(o)
<1>1. /\ ops[o].kind = "append" /\ ops[o].at = "start"
      /\ ops' = Set(o, [ops[o] EXCEPT !.at = "look"]) /\ UNCHANGED <<inodes, path>>
  BY DEF Access, Is, Advance
<1>2. ops'[o] = [ops[o] EXCEPT !.at = "look"]
  BY <1>1 DEF Set
<1>3. ops[o] \in OpRecs(Len(inodes))
  BY OpTyped DEF SInv
<1>4. ops'[o].at = "look" /\ ops'[o].tries = 0 /\ ops'[o].kind = "append"
  BY <1>1, <1>2, <1>3 DEF OpRecs, SInv, JobsInv
<1>5. Content' = Content /\ path' = path
  BY <1>1 DEF Content
<1>6. Job(o, ops'[o], Content, path)
  BY <1>4 DEF Job
<1>7. QED
  BY <1>1, <1>4, <1>5, <1>6, QuietTurn DEF Ended

-----------------------------------------------------------------------------
(* Steps of an append before it writes. *)

\* What a line of an operation consists of.
LEMMA LineIs ==
  ASSUME NEW o \in OpIds
  PROVE  /\ Line(o) \in Seq(Tokens) /\ Len(Line(o)) = 3 /\ Rest(o, Line(o))
         /\ Line(o)[1] = Half(o, 1) /\ Line(o)[2] = Half(o, 2) /\ Line(o)[3] = Newline
         /\ <<Newline>> \o Line(o) \in Seq(Tokens) /\ Len(<<Newline>> \o Line(o)) = 4
         /\ Rest(o, <<Newline>> \o Line(o)) /\ <<>> \o Line(o) = Line(o)
<1>1. Newline \in Tokens /\ Half(o, 1) \in Tokens /\ Half(o, 2) \in Tokens
  BY DEF Tokens, Half, Newline
<1>2. /\ Line(o) \in Seq(Tokens) /\ Len(Line(o)) = 3
      /\ Line(o)[1] = Half(o, 1) /\ Line(o)[2] = Half(o, 2) /\ Line(o)[3] = Newline
  BY <1>1 DEF Line
<1>3. Rest(o, Line(o))
  <2> DEFINE l == Line(o)
  <2>1. DOMAIN l = 1..3 /\ Len(l) = 3 /\ l[1] = Half(o, 1) /\ l[2] = Half(o, 2) /\ l[3] = Newline
    BY <1>2
  <2> HIDE DEF l
  <2>2. ASSUME NEW j \in DOMAIN l
        PROVE  /\ Len(l) - j = 1 => l[j] = Half(o, 2)
               /\ Len(l) - j = 2 => l[j] = Half(o, 1)
               /\ Len(l) - j \in {0, 3} => l[j] = Newline
    <3>1. j = 1 \/ j = 2 \/ j = 3
      BY <2>1
    <3>2. QED
      BY <2>1, <3>1
  <2>3. Rest(o, l)
    BY <2>2 DEF Rest
  <2>4. QED
    BY <2>3 DEF l
<1> DEFINE p == <<Newline>> \o Line(o)
<1>4. /\ p \in Seq(Tokens) /\ Len(p) = 4
      /\ p[1] = Newline /\ p[2] = Half(o, 1) /\ p[3] = Half(o, 2) /\ p[4] = Newline
  <2> DEFINE s == <<Newline>>
             l == Line(o)
  <2>1. s \in Seq(Tokens) /\ Len(s) = 1 /\ s[1] = Newline
    BY <1>1
  <2>2. l \in Seq(Tokens) /\ Len(l) = 3 /\ l[1] = Half(o, 1) /\ l[2] = Half(o, 2) /\ l[3] = Newline
    BY <1>2
  <2>3. p = s \o l
    OBVIOUS
  <2> HIDE DEF s, l, p
  <2>4. /\ s \o l \in Seq(Tokens) /\ Len(s \o l) = Len(s) + Len(l)
        /\ \A i \in 1..(Len(s) + Len(l)) : (s \o l)[i] = IF i <= Len(s) THEN s[i] ELSE l[i - Len(s)]
    BY ONLY <2>1, <2>2, Concat
  <2>5. Len(p) = 4 /\ \A i \in 1..4 : p[i] = IF i <= 1 THEN s[i] ELSE l[i - 1]
    BY <2>1, <2>2, <2>3, <2>4
  <2>6. p[1] = s[1] /\ p[2] = l[1] /\ p[3] = l[2] /\ p[4] = l[3]
    BY <2>5
  <2>7. QED
    BY <2>1, <2>2, <2>3, <2>4, <2>5, <2>6
<1> HIDE DEF p
<1>5. Rest(o, p)
  <2>1. ASSUME NEW j \in DOMAIN p
        PROVE  /\ Len(p) - j = 1 => p[j] = Half(o, 2)
               /\ Len(p) - j = 2 => p[j] = Half(o, 1)
               /\ Len(p) - j \in {0, 3} => p[j] = Newline
    <3>1. j = 1 \/ j = 2 \/ j = 3 \/ j = 4
      BY <1>4
    <3>2. QED
      BY <1>4, <3>1
  <2>2. QED
    BY <2>1 DEF Rest
<1>6. <<>> \o Line(o) = Line(o)
  <2> DEFINE l == Line(o)
  <2>1. l \in Seq(Tokens)
    BY <1>2
  <2> HIDE DEF l
  <2>2. <<>> \o l = l
    BY <2>1
  <2>3. QED
    BY <2>2 DEF l
<1>7. QED
  BY <1>2, <1>3, <1>4, <1>5, <1>6 DEF p

\* Three or four tokens fill a file up to a multiple of three.
LEMMA FillsUp ==
  ASSUME NEW n \in Nat, n % 3 # 1, NEW m, m = IF n % 3 = 0 THEN 3 ELSE 4
  PROVE  (n + m) % 3 = 0 /\ m \in 1..4 /\ m >= 3
<1>1. CASE n % 3 = 0
  BY <1>1
<1>2. CASE n % 3 = 2
  BY <1>2
<1>3. QED
  BY <1>1, <1>2, Threes

\* The first look: by the length, the tail is clean, kept, or torn.
LEMMA LookTurns ==
  ASSUME SInv, ~Gone, NEW o \in DOMAIN ops, Look(o)
  PROVE  Turned(o)
<1>1. ops[o].kind = "append" /\ ops[o].at = "look" /\ path # 0 /\ UNCHANGED <<inodes, path>>
  BY DEF Look, Is, Advance
<1>2. ops[o].tries = 0 /\ o \in OpIds /\ Attempts \in Nat \ {0}
  <2>1. Working(o)
    BY <1>1 DEF Working, Ended
  <2>2. QED
    BY <1>1, <2>1, AtWork, Typed, AttemptsAssumption DEF Job, SInv
<1>3. Content' = Content /\ path' = path
  BY <1>1 DEF Content
<1>4. /\ Content \in Seq(Tokens) /\ Shaped(Content) /\ Len(Content) >= 2 /\ Len(Content) \in Nat
  BY <1>1, FileThere
<1>5. ops[o] \in OpRecs(Len(inodes))
  BY OpTyped DEF SInv
<1>6. /\ Len(Content) % 3 = 0 => TailKind(Content) = "clean"
      /\ Len(Content) % 3 = 2 => TailKind(Content) = "keep"
      /\ Len(Content) % 3 = 1 => /\ TailKind(Content) = "torn" /\ LastLineStart(Content) = Len(Content) - 1
                                 /\ Len(Content) > 3
  BY <1>4, ShapedTail
<1>7. Len(Content) % 3 \in {0, 1, 2}
  BY <1>4, Threes
<1>8. CASE Len(Content) % 3 = 1
  <2> DEFINE r == [ops[o] EXCEPT !.at = "settle", !.size = Len(Content),
                        !.start = LastLineStart(Content), !.tries = @ + 1]
  <2>1. Advance(o, r)
    BY <1>1, <1>2, <1>6, <1>8 DEF Look
  <2>2. ops'[o] = r
    BY <2>1 DEF Advance, Set
  <2>3. /\ r.at = "settle" /\ r.kind = "append" /\ r.size = Len(Content)
        /\ r.start = LastLineStart(Content)
    BY <1>1, <1>5 DEF OpRecs
  <2> HIDE DEF r
  <2>4. Job(o, r, Content, path)
    BY <1>6, <1>8, <2>3 DEF Job
  <2>5. QED
    BY <1>1, <1>3, <2>2, <2>3, <2>4, QuietTurn DEF Ended
<1>9. CASE Len(Content) % 3 # 1
  <2> DEFINE left == Prefix(Content) \o Line(o)
             r == [ops[o] EXCEPT !.at = "open", !.left = left]
  <2>1. Advance(o, r)
    BY <1>1, <1>2, <1>6, <1>7, <1>9 DEF Look
  <2>2. ops'[o] = r
    BY <2>1 DEF Advance, Set
  <2>3. Rest(o, left) /\ Len(left) = (IF Len(Content) % 3 = 0 THEN 3 ELSE 4)
    <3>1. CASE Len(Content) % 3 = 0
      <4>1. left = <<>> \o Line(o)
        BY <1>6, <3>1 DEF Prefix
      <4>2. QED
        BY <1>2, <3>1, <4>1, LineIs
    <3>2. CASE Len(Content) % 3 = 2
      <4>1. left = <<Newline>> \o Line(o)
        BY <1>6, <3>2 DEF Prefix
      <4>2. QED
        BY <1>2, <3>2, <4>1, LineIs
    <3>3. QED
      BY <1>7, <1>9, <3>1, <3>2
  <2> HIDE DEF left
  <2>4. r.at = "open" /\ r.kind = "append" /\ r.left = left
    BY <1>1, <1>5, RecFields
  <2> HIDE DEF r
  <2>5. (Len(Content) + Len(left)) % 3 = 0 /\ Len(left) \in 1..4 /\ Len(left) >= 3
    BY <1>4, <1>9, <2>3, FillsUp
  <2>6. Rest(o, r.left) /\ (Len(Content) + Len(r.left)) % 3 = 0 /\ Len(r.left) \in 1..4
        /\ Len(r.left) >= 3
    BY <2>3, <2>4, <2>5
  <2>7. Job(o, r, Content, path)
    BY <2>4, <2>6 DEF Job
  <2>8. QED
    BY <1>1, <1>3, <2>2, <2>4, <2>7, QuietTurn DEF Ended
<1>10. QED
  BY <1>8, <1>9

\* The second look agrees with the first.
LEMMA SettleTurns ==
  ASSUME SInv, ~Gone, NEW o \in DOMAIN ops, Settle(o)
  PROVE  Turned(o)
<1>1. ops[o].kind = "append" /\ ops[o].at = "settle" /\ path # 0 /\ UNCHANGED <<inodes, path>>
  BY DEF Settle, Is, Advance
<1>2. Working(o)
  BY <1>1 DEF Working, Ended
<1>3. Content' = Content /\ path' = path
  BY <1>1 DEF Content
<1>4. /\ ops[o].size = Len(Content) /\ ops[o].start = Len(Content) - 1 /\ Len(Content) > 3
      /\ Len(Content) % 3 = 1
  BY <1>1, <1>2, AtWork DEF Job
<1>5. TailKind(Content) = "torn" /\ LastLineStart(Content) = Len(Content) - 1
  BY <1>1, <1>4, FileThere, ShapedTail
<1> DEFINE r == [ops[o] EXCEPT !.at = "stat"]
<1>6. Advance(o, r)
  BY <1>4, <1>5 DEF Settle
<1>7. ops'[o] = r
  BY <1>6 DEF Advance, Set
<1>8. r.at = "stat" /\ r.kind = "append" /\ r.size = ops[o].size /\ r.start = ops[o].start
  BY <1>1, OpTyped DEF OpRecs, SInv
<1> HIDE DEF r
<1>9. Job(o, r, Content, path)
  BY <1>4, <1>8 DEF Job
<1>10. QED
  BY <1>1, <1>3, <1>7, <1>8, <1>9, QuietTurn DEF Ended

\* The look through the handle agrees too.
LEMMA StatTurns ==
  ASSUME SInv, ~Gone, NEW o \in DOMAIN ops, Stat(o)
  PROVE  Turned(o)
<1>1. ops[o].kind = "append" /\ ops[o].at = "stat" /\ path # 0 /\ UNCHANGED <<inodes, path>>
  BY DEF Stat, Is, Advance
<1>2. Working(o)
  BY <1>1 DEF Working, Ended
<1>3. Content' = Content /\ path' = path
  BY <1>1 DEF Content
<1>4. /\ ops[o].size = Len(Content) /\ ops[o].start = Len(Content) - 1 /\ Len(Content) > 3
      /\ Len(Content) % 3 = 1
  BY <1>1, <1>2, AtWork DEF Job
<1> DEFINE r == [ops[o] EXCEPT !.handle = path, !.at = "cut"]
<1>5. Advance(o, r)
  BY <1>4 DEF Stat
<1>6. ops'[o] = r
  BY <1>5 DEF Advance, Set
<1>7. r.at = "cut" /\ r.kind = "append" /\ r.size = ops[o].size /\ r.start = ops[o].start /\ r.handle = path
  BY <1>1, OpTyped DEF OpRecs, SInv
<1> HIDE DEF r
<1>8. Job(o, r, Content, path)
  BY <1>4, <1>7 DEF Job
<1>9. QED
  BY <1>1, <1>3, <1>6, <1>7, <1>8, QuietTurn DEF Ended

\* Opening finds the file, which holds no entry of the append yet.
LEMMA OpenTurns ==
  ASSUME SInv, ~Gone, NEW o \in DOMAIN ops, Open(o)
  PROVE  Turned(o)
<1>1. ops[o].kind = "append" /\ ops[o].at = "open"
  BY DEF Open, Is
<1>2. Working(o) /\ path # 0
  BY <1>1, FileThere DEF Working, Ended
<1> DEFINE r == [ops[o] EXCEPT !.at = "write", !.handle = path]
<1>3. path' = path /\ inodes' = inodes /\ ops' = Set(o, r)
  BY <1>2 DEF Open
<1>4. ops'[o] = r
  BY <1>3 DEF Set
<1>5. r.at = "write" /\ r.kind = "append" /\ r.left = ops[o].left /\ r.handle = path
  BY <1>1, OpTyped, RecFields DEF SInv
<1> HIDE DEF r
<1>6. Content' = Content
  BY <1>3 DEF Content
<1>7. /\ Rest(o, ops[o].left) /\ Len(ops[o].left) \in 1..4 /\ (Len(Content) + Len(ops[o].left)) % 3 = 0
      /\ Len(ops[o].left) >= 3
  BY <1>1, <1>2, AtWork DEF Job
<1>8. \A i \in EntryPlaces(Content) : Content[i][1] # o
  BY <1>1 DEF SInv, LinesInv
<1>9. /\ Rest(o, r.left) /\ Len(r.left) \in 1..4 /\ (Len(Content) + Len(r.left)) % 3 = 0
      /\ ~(Len(r.left) <= 2)
  <2>1. \A n \in 1..4 : n >= 3 => ~(n <= 2)
    OBVIOUS
  <2>2. ~(Len(ops[o].left) <= 2)
    BY ONLY <1>7, <2>1
  <2>3. QED
    BY ONLY <1>5, <1>7, <2>2
<1>10. Job(o, r, Content, path)
  BY <1>5, <1>8, <1>9 DEF Job
<1>11. QED
  BY <1>1, <1>3, <1>4, <1>5, <1>6, <1>10, QuietTurn DEF Ended

-----------------------------------------------------------------------------
(* Steps of the others. *)

\* Reading for a retitle.
LEMMA TitleReadsTurns ==
  ASSUME SInv, ~Gone, NEW o \in DOMAIN ops, TitleReads(o)
  PROVE  Turned(o)
<1> DEFINE left == Line(o) \o Body(Content)
           r == [ops[o] EXCEPT !.at = "rename", !.left = left]
<1>1. ops[o].kind = "title" /\ ops[o].at = "start" /\ path # 0 /\ Advance(o, r)
  BY DEF TitleReads, Is
<1>2. ops'[o] = r /\ UNCHANGED <<inodes, path>>
  BY <1>1 DEF Advance, Set
<1>3. Content' = Content /\ path' = path
  BY <1>2 DEF Content
<1>4. o \in OpIds
  BY Typed DEF SInv
<1>5. /\ Len(left) = IF Len(Content) = 2 THEN 3 ELSE Len(Content)
      /\ \A i \in DOMAIN left : left[i] = IF i <= 3 THEN Line(o)[i] ELSE Content[i]
  BY <1>1, <1>4, FileThere, RetitleShape
<1> HIDE DEF left
<1>6. r.at = "rename" /\ r.kind = "title" /\ r.left = left
  BY <1>1, OpTyped, RecFields DEF SInv
<1> HIDE DEF r
<1>7. Job(o, r, Content, path)
  BY <1>5, <1>6 DEF Job
<1>8. QED
  BY <1>1, <1>2, <1>3, <1>6, <1>7, QuietTurn DEF Ended

\* The steps that only fail.
LEMMA FailedTurns ==
  ASSUME SInv, ~Gone, NEW o \in DOMAIN ops,
         CreateExists(o) \/ MissingFile(o) \/ TitleCorrupt(o) \/ UnlinkMissing(o) \/ Throws(o)
  PROVE  Turned(o) /\ ops'[o].at = "failed"
<1>1. Fail(o) \/ Throws(o)
  BY DEF CreateExists, MissingFile, TitleCorrupt, UnlinkMissing, Is
<1>2. QED
  BY <1>1, FailTurns

\* create's file is empty.
LEMMA CreateOpensTurns ==
  ASSUME SInv, ~Gone, NEW o \in DOMAIN ops, CreateOpens(o)
  PROVE  Turned(o)
<1> DEFINE n == Len(inodes) + 1
           left == Line(o)
           r == [ops[o] EXCEPT !.at = "write", !.handle = n, !.left = left]
<1>1. ops[o].kind = "create" /\ ops[o].at = "start" /\ path = 0
  BY DEF CreateOpens, Is
<1>2. inodes' = Append(inodes, <<>>) /\ path' = n /\ ops'[o] = r
  BY DEF CreateOpens, Set
<1>3. Len(left) = 3 /\ Rest(o, left)
  BY LineIs, Typed DEF SInv
<1> HIDE DEF left
<1>4. r.at = "write" /\ r.kind = "create" /\ r.left = left /\ r.handle = n
  BY <1>1, OpTyped, RecFields DEF SInv
<1> HIDE DEF r
<1>5. Content = <<>> /\ Content' = <<>>
  <2>1. n # 0 /\ inodes'[n] = <<>>
    BY <1>2, Typed DEF SInv
  <2>2. QED
    BY <1>1, <1>2, <2>1 DEF Content
<1>6. Job(o, r, <<>>, n)
  <2>1. /\ Len(<<>>) = 0 /\ (0 + 3) % 3 = 0 /\ 0 + 3 = 3 /\ 3 \in 1..4
    OBVIOUS
  <2> DEFINE x == Len(r.left)
             y == Len(<<>>)
  <2>0. x = 3 /\ y = 0
    BY <1>3, <1>4, <2>1
  <2> HIDE DEF x, y
  <2>4. (y + x) % 3 = 0 /\ y + x = 3 /\ x \in 1..4
    BY ONLY <2>0
  <2>2. (Len(<<>>) + Len(r.left)) % 3 = 0 /\ Len(<<>>) + Len(r.left) = 3 /\ Len(r.left) \in 1..4
    BY <2>4 DEF x, y
  <2>3. QED
    BY <1>3, <1>4, <2>2 DEF Job
<1>7. Shaped(<<>>) /\ EntryPlaces(<<>>) = {} /\ Len(<<>>) = 0
  BY DEF Shaped, EntryPlaces
<1>8. SameEntries(<<>>, <<>>)
  <2>1. <<>> \in Seq(Tokens)
    OBVIOUS
  <2>2. QED
    BY <2>1, SameSelf
<1>9. Job(o, ops'[o], Content', path')
  BY <1>2, <1>5, <1>6
<1>10. ops'[o].at = "write"
  BY <1>2, <1>4
<1>11. QED
  BY <1>1, <1>5, <1>7, <1>8, <1>9, <1>10 DEF Turned

\* The cut takes away a first half, and no entry.
LEMMA TruncateTurns ==
  ASSUME SInv, ~Gone, NEW o \in DOMAIN ops, Truncate(o)
  PROVE  Turned(o)
<1>0. PICK at \in {"open", "failed"} : ops' = Set(o, [ops[o] EXCEPT !.at = at, !.left = Line(o)])
  BY DEF Truncate
<1> DEFINE left == Line(o)
           r == [ops[o] EXCEPT !.at = at, !.left = left]
           c == Content
           d == CutAt(o)
           m == Len(Content)
<1>1. ops[o].kind = "append" /\ ops[o].at = "cut"
  BY DEF Truncate, Is
<1>2. Job(o, ops[o], Content, path)
  BY <1>1, AtWork DEF Working, Ended
<1>3. ops[o].start = m - 1 /\ m > 3 /\ m % 3 = 1 /\ ops[o].handle = path
  BY <1>1, <1>2 DEF Job
<1>4. path # 0 /\ c = inodes[path] /\ path \in DOMAIN inodes /\ c \in Seq(Tokens) /\ Shaped(c) /\ m \in Nat
  BY <1>1, FileThere
<1>5. inodes' = [inodes EXCEPT ![path] = d] /\ path' = path /\ ops'[o] = r
  BY <1>0, <1>3 DEF Truncate, Set
<1>6. d = [i \in 1..(m - 1) |-> c[i]]
  <2>1. d = [i \in 1..(m - 1) |-> IF i <= m THEN c[i] ELSE Fill]
    BY <1>3, <1>4 DEF CutAt
  <2> HIDE DEF c, d, m
  <2>2. \A i \in 1..(m - 1) : i <= m
    BY <1>4
  <2>3. QED
    BY <2>1, <2>2
<1>7. Content' = d
  BY <1>4, <1>5 DEF Content
<1>8. Len(left) = 3 /\ Rest(o, left)
  BY LineIs, Typed DEF SInv
<1> HIDE DEF left
<1>9. r.at = at /\ r.kind = "append" /\ r.left = left
  BY <1>1, OpTyped, RecFields DEF SInv
<1>10. DOMAIN c = 1..Len(c) /\ m = Len(c)
  BY <1>4
<1> HIDE DEF r, c, d, m
<1>11. Len(d) = m - 1 /\ DOMAIN d = 1..(m - 1) /\ \A i \in 1..(m - 1) : d[i] = c[i] /\ i \in DOMAIN c
  <2>1. m - 1 \in Nat /\ \A i \in 1..(m - 1) : i \in 1..m
    BY <1>3, <1>4
  <2>2. DOMAIN d = 1..(m - 1)
    BY <1>6
  <2>3. Len(d) = m - 1
    BY ONLY <1>6, <2>1
  <2>4. QED
    BY <1>6, <1>10, <2>1, <2>2, <2>3
<1>12. Job(o, r, d, path) \/ at = "failed"
  <2>1. (m - 1 + 3) % 3 = 0 /\ 3 \in 1..4
    BY <1>3, <1>4
  <2> DEFINE x == Len(r.left)
             y == Len(d)
  <2>0. x = 3 /\ y = m - 1
    BY <1>8, <1>9, <1>11
  <2> HIDE DEF x, y
  <2>4. (y + x) % 3 = 0 /\ x \in 1..4 /\ x >= 3
    BY ONLY <2>0, <2>1
  <2>2. (Len(d) + Len(r.left)) % 3 = 0 /\ Len(r.left) \in 1..4 /\ Len(r.left) >= 3
    BY <2>4 DEF x, y
  <2>3. QED
    BY <1>8, <1>9, <2>2 DEF Job
<1>13. Shaped(d)
  <2>1. ASSUME NEW i \in DOMAIN d
        PROVE  /\ i % 3 = 1 => d[i] = Half(d[i][1], 1)
               /\ i % 3 = 2 => d[i] = Half(d[i - 1][1], 2)
               /\ i % 3 = 0 => d[i] = Newline
    <3>1. i \in 1..(m - 1) /\ d[i] = c[i] /\ i \in DOMAIN c
      BY <1>11, <2>1
    <3>2. i % 3 = 2 => i - 1 \in 1..(m - 1)
      BY <1>4, <3>1
    <3>3. i % 3 = 2 => d[i - 1] = c[i - 1]
      BY <1>11, <3>2
    <3>4. QED
      BY <1>4, <3>1, <3>3 DEF Shaped
  <2>2. QED
    BY <2>1 DEF Shaped
<1>14. \A i \in EntryPlaces(d) : i \in EntryPlaces(c) /\ c[i][1] = d[i][1]
  BY <1>11 DEF EntryPlaces
<1>15. Len(d) >= 2
  BY <1>3, <1>4, <1>11
<1>16. SameEntries(c, d)
  <2>1. PICK n : Holds(n, m)
    BY <1>4, SomeHeld
  <2>2. Holds(n, m - 1)
    BY <1>3, <1>4, <2>1 DEF Holds
  <2>3. ASSUME NEW k \in 1..n
        PROVE  c[3 * k + 1][1] = d[3 * k + 1][1]
    <3>1. 3 * k + 1 \in 1..(m - 1)
      BY <1>3, <1>4, <2>2 DEF Holds
    <3>2. QED
      BY <1>11, <3>1
  <2>4. QED
    BY <1>10, <1>11, <2>1, <2>2, <2>3 DEF SameEntries
<1>17. (Job(o, ops'[o], Content', path') \/ ops'[o].at = "failed") /\ ops'[o].at \in {"open", "failed"}
  BY <1>5, <1>7, <1>9, <1>12
<1>18. Shaped(Content') /\ Len(Content') >= 2
  BY <1>7, <1>13, <1>15
<1>19. SameEntries(Content, Content')
  BY <1>7, <1>16 DEF c
<1>20. \A i \in EntryPlaces(Content') : i \in EntryPlaces(Content) /\ Content[i][1] = Content'[i][1]
  BY <1>7, <1>14 DEF c
<1>21. QED
  BY <1>1, <1>17, <1>18, <1>19, <1>20 DEF Turned, Ended

\* The rename changes the header and no entry.
LEMMA RenameTurns ==
  ASSUME SInv, ~Gone, NEW o \in DOMAIN ops, Rename(o)
  PROVE  Turned(o)
<1> DEFINE d == ops[o].left
           r == [ops[o] EXCEPT !.at = "done", !.left = <<>>]
           c == Content
           m == Len(Content)
<1>1. ops[o].kind = "title" /\ ops[o].at = "rename"
  BY DEF Rename, Is
<1>2. Job(o, ops[o], Content, path)
  BY <1>1, AtWork DEF Working, Ended
<1>3. /\ Len(d) = (IF m = 2 THEN 3 ELSE m)
      /\ \A i \in DOMAIN d : d[i] = IF i <= 3 THEN Line(o)[i] ELSE c[i]
  BY <1>1, <1>2 DEF Job
<1>4. c \in Seq(Tokens) /\ Shaped(c) /\ m \in Nat /\ m >= 2 /\ DOMAIN c = 1..m /\ m = Len(c)
  BY <1>1, FileThere
<1>5. inodes' = Append(inodes, d) /\ path' = Len(inodes) + 1 /\ ops'[o] = r
  BY DEF Rename, Set
<1>6. d \in Seq(Tokens) /\ DOMAIN d = 1..Len(d)
  BY OpTyped DEF SInv
<1>7. Content' = d
  <2>1. Len(inodes) + 1 # 0 /\ inodes'[Len(inodes) + 1] = d
    BY <1>5, <1>6, Typed DEF SInv
  <2>2. QED
    BY <1>5, <2>1 DEF Content
<1>8. r.at = "done"
  BY OpTyped, RecFields DEF SInv
<1>9. Line(o)[1] = Half(o, 1) /\ Line(o)[2] = Half(o, 2) /\ Line(o)[3] = Newline
  BY LineIs, Typed DEF SInv
<1> HIDE DEF c, d, m, r
<1>10. d[1] = Half(o, 1) /\ d[2] = Half(o, 2) /\ d[3] = Newline /\ Len(d) >= 3 /\ Len(d) \in Nat
  <2>1. Len(d) >= 3 /\ Len(d) \in Nat
    BY <1>3, <1>4
  <2>2. 1 \in DOMAIN d /\ 2 \in DOMAIN d /\ 3 \in DOMAIN d
    BY <1>6, <2>1
  <2>3. QED
    BY <1>3, <1>9, <2>1, <2>2
<1>11. \A i \in DOMAIN d : i > 3 => i \in DOMAIN c /\ d[i] = c[i]
  <2>1. ASSUME NEW i \in DOMAIN d, i > 3
        PROVE  i \in DOMAIN c /\ d[i] = c[i]
    <3>1. i \in 1..Len(d) /\ i \in Nat /\ ~(i <= 3)
      BY <1>6, <1>10, <2>1
    <3>2. i \in 1..m
      BY <1>3, <1>4, <2>1, <3>1
    <3>3. QED
      BY <1>3, <1>4, <3>1, <3>2
  <2>2. QED
    BY <2>1
<1>12. Shaped(d)
  <2>1. ASSUME NEW i \in DOMAIN d
        PROVE  /\ i % 3 = 1 => d[i] = Half(d[i][1], 1)
               /\ i % 3 = 2 => d[i] = Half(d[i - 1][1], 2)
               /\ i % 3 = 0 => d[i] = Newline
    <3>0. i \in Nat /\ i # 0 /\ i <= Len(d) /\ Len(d) \in Nat
      BY <1>6, <1>10
    <3>1. CASE i <= 3
      <4>1. i = 1 \/ i = 2 \/ i = 3
        BY <3>0, <3>1
      <4>2. 1 % 3 = 1 /\ 2 % 3 = 2 /\ 3 % 3 = 0 /\ 2 - 1 = 1
        OBVIOUS
      <4>3. d[1] = Half(d[1][1], 1) /\ d[2] = Half(d[1][1], 2) /\ d[3] = Newline
        BY <1>10 DEF Half
      <4>4. QED
        BY <4>1, <4>2, <4>3
    <3>2. CASE i > 3
      <4>1. i \in DOMAIN c /\ d[i] = c[i]
        BY <1>11, <3>2
      <4>2. i % 3 = 2 => i - 1 > 3 /\ i - 1 \in DOMAIN d
        BY <1>6, <3>0, <3>2
      <4>3. i % 3 = 2 => d[i - 1] = c[i - 1]
        BY <1>11, <4>2
      <4>4. QED
        BY <1>4, <4>1, <4>3 DEF Shaped
    <3>3. QED
      BY <3>0, <3>1, <3>2
  <2>2. QED
    BY <2>1 DEF Shaped
<1>13. \A i \in EntryPlaces(d) : i \in EntryPlaces(c) /\ c[i][1] = d[i][1]
  BY <1>11 DEF EntryPlaces
<1>14. SameEntries(c, d)
  <2>1. PICK n : Holds(n, m)
    BY <1>4, SomeHeld
  <2>2. Holds(n, Len(d)) /\ n \in Nat
    BY <1>3, <1>4, <2>1 DEF Holds
  <2>3. ASSUME NEW k \in 1..n
        PROVE  c[3 * k + 1][1] = d[3 * k + 1][1]
    <3>1. 3 * k + 1 \in 1..Len(d) /\ 3 * k + 1 > 3
      BY <1>10, <2>2 DEF Holds
    <3>2. QED
      BY <1>6, <1>11, <3>1
  <2>4. QED
    BY <1>4, <2>1, <2>2, <2>3 DEF SameEntries
<1>15. Len(d) >= 2
  BY <1>10
<1>16. ops'[o].at = "done"
  BY <1>5, <1>8
<1>17. Shaped(Content') /\ Len(Content') >= 2
  BY <1>7, <1>12, <1>15
<1>18. SameEntries(Content, Content')
  BY <1>7, <1>14 DEF c
<1>19. \A i \in EntryPlaces(Content') : i \in EntryPlaces(Content) /\ Content[i][1] = Content'[i][1]
  BY <1>7, <1>13 DEF c
<1>20. QED
  BY <1>1, <1>16, <1>17, <1>18, <1>19 DEF Turned, Ended

-----------------------------------------------------------------------------
(* A write. *)

\* What follows from a place of a line of three.
Placed(o, d, i) ==
  /\ i % 3 = 1 => d[i] = Half(o, 1)
  /\ i % 3 = 2 => d[i] = Half(o, 2)
  /\ i % 3 = 0 => d[i] = Newline

\* Writing the first k tokens of what is left of a line that ends at 3 * t.
LEMMA Grown ==
  ASSUME NEW c \in Seq(Tokens), NEW left \in Seq(Tokens), NEW o, NEW t \in Nat,
         NEW k \in 1..Len(left), Len(left) \in 1..4, Len(c) + Len(left) = 3 * t, Rest(o, left)
  PROVE  LET d == c \o SubSeq(left, 1, k)
             rest == SubSeq(left, k + 1, Len(left))
         IN  /\ DOMAIN d = 1..(Len(c) + k) /\ Len(d) = Len(c) + k /\ Len(rest) = Len(left) - k
             /\ Rest(o, rest)
             /\ \A i \in 1..Len(c) : d[i] = c[i]
             /\ \A i \in (Len(c) + 1)..(Len(c) + k) : Placed(o, d, i)
<1> DEFINE m == Len(left)
           n == Len(c)
           piece == SubSeq(left, 1, k)
           rest == SubSeq(left, k + 1, m)
           d == c \o piece
<1>1. m \in 1..4 /\ n \in Nat /\ n + m = 3 * t /\ k \in 1..m /\ DOMAIN left = 1..m /\ m \in Nat
  OBVIOUS
<1>2. piece \in Seq(Tokens) /\ Len(piece) = k /\ \A j \in 1..k : piece[j] = left[j]
  OBVIOUS
<1>3. Len(rest) = m - k /\ DOMAIN rest = 1..(m - k) /\ \A j \in 1..(m - k) : rest[j] = left[k + j]
  OBVIOUS
<1>4. /\ DOMAIN d = 1..(n + k) /\ Len(d) = n + k
      /\ \A i \in 1..(n + k) : d[i] = IF i <= n THEN c[i] ELSE piece[i - n]
  <2>1. c \in Seq(Tokens) /\ piece \in Seq(Tokens) /\ Len(piece) = k /\ n = Len(c)
    BY <1>2
  <2> HIDE DEF piece, n
  <2>2. /\ DOMAIN (c \o piece) = 1..(Len(c) + Len(piece)) /\ Len(c \o piece) = Len(c) + Len(piece)
        /\ \A i \in 1..(Len(c) + Len(piece)) :
             (c \o piece)[i] = IF i <= Len(c) THEN c[i] ELSE piece[i - Len(c)]
    BY ONLY <2>1, Concat
  <2>3. QED
    BY ONLY <2>1, <2>2
<1>5. \A j \in 1..m : /\ m - j = 1 => left[j] = Half(o, 2)
                      /\ m - j = 2 => left[j] = Half(o, 1)
                      /\ m - j \in {0, 3} => left[j] = Newline
  BY <1>1 DEF Rest
<1> HIDE DEF m, n, piece, rest, d
<1>6. Rest(o, rest)
  <2>1. ASSUME NEW j \in DOMAIN rest
        PROVE  /\ Len(rest) - j = 1 => rest[j] = Half(o, 2)
               /\ Len(rest) - j = 2 => rest[j] = Half(o, 1)
               /\ Len(rest) - j \in {0, 3} => rest[j] = Newline
    <3>1. j \in 1..(m - k) /\ rest[j] = left[k + j]
      BY <1>3, <2>1
    <3>2. k + j \in 1..m /\ m - (k + j) = (m - k) - j
      BY <1>1, <3>1
    <3>3. QED
      BY <1>3, <1>5, <3>1, <3>2
  <2>2. QED
    BY <2>1 DEF Rest
<1>7. \A i \in 1..n : d[i] = c[i]
  BY <1>1, <1>4
<1>8. ASSUME NEW i \in (n + 1)..(n + k)
      PROVE  Placed(o, d, i)
  <2> DEFINE j == i - n
  <2>1. j \in 1..k /\ j \in 1..m /\ i \in 1..(n + k) /\ ~(i <= n) /\ i \in Nat
    BY <1>1, <1>8
  <2>2. d[i] = left[j]
    BY <1>2, <1>4, <2>1
  <2>3. m - j = 3 * t - i /\ m - j \in 0..3
    BY <1>1, <2>1
  <2> HIDE DEF j
  <2>4. /\ i % 3 = 1 => m - j = 2
        /\ i % 3 = 2 => m - j = 1
        /\ i % 3 = 0 => m - j \in {0, 3}
    <3> DEFINE x == m - j
    <3>1. x \in 0..3 /\ i = 3 * t - x /\ i \in Nat
      BY <2>1, <2>3
    <3> HIDE DEF x
    <3>2. QED
      <4>1. x = 0 \/ x = 1 \/ x = 2 \/ x = 3
        BY <3>1
      <4>2. x = 0 => i % 3 = 0
        BY <3>1
      <4>3. x = 1 => i % 3 = 2
        BY <3>1
      <4>4. x = 2 => i % 3 = 1
        BY <3>1
      <4>5. x = 3 => i % 3 = 0
        BY <3>1
      <4>6. QED
        BY <4>1, <4>2, <4>3, <4>4, <4>5 DEF x
  <2>5. QED
    BY <1>5, <2>1, <2>2, <2>4 DEF Placed
<1>9. QED
  BY <1>3, <1>4, <1>6, <1>7, <1>8 DEF d, rest, piece, m, n

\* A multiple of three.
LEMMA Thrice ==
  ASSUME NEW n \in Nat, n % 3 = 0
  PROVE  \E t \in Nat : n = 3 * t
<1>1. n = 3 * (n \div 3) /\ n \div 3 \in Nat
  OBVIOUS
<1>2. QED
  BY <1>1

\* What a write does, in terms of the file it finds.
Writes(o, c, left, k, t, d, rest, r) ==
  /\ c = Content /\ c \in Seq(Tokens) /\ Shaped(c) /\ left = ops[o].left
  /\ Len(left) \in 1..4 /\ k \in 1..Len(left) /\ t \in Nat /\ Len(c) + Len(left) = 3 * t
  /\ DOMAIN c = 1..Len(c) /\ Len(c) \in Nat
  /\ DOMAIN d = 1..(Len(c) + k) /\ Len(d) = Len(c) + k /\ Len(rest) = Len(left) - k /\ Rest(o, rest)
  /\ \A i \in 1..Len(c) : d[i] = c[i]
  /\ \A i \in (Len(c) + 1)..(Len(c) + k) : Placed(o, d, i)
  /\ Content' = d /\ path' = path /\ ops'[o] = r
  /\ r.at \in {"write", "done", "failed"} /\ (r.at = "write" => k # Len(left)) /\ (r.at = "done" => k = Len(left))
  /\ r.kind = ops[o].kind /\ r.left = rest /\ r.handle = path

LEMMA WriteWrites ==
  ASSUME SInv, ~Gone, NEW o \in DOMAIN ops, Write(o)
  PROVE  /\ \E c, left, k, t, d, rest, r : Writes(o, c, left, k, t, d, rest, r)
         /\ ops[o].at = "write" /\ ops[o].kind \in {"create", "append"} /\ Job(o, ops[o], Content, path)
<1> DEFINE left == ops[o].left
           c == Content
<1>1. ops[o].at = "write" /\ ops[o].kind \in {"create", "append"}
  <2>1. ops[o].at = "write"
    BY DEF Write
  <2>2. ops[o].at \in StepsOf(ops[o].kind) /\ ops[o].kind \in {"create", "append", "title", "delete"}
    BY OpTyped, KindsAssumption DEF SInv, StepsInv, InStep
  <2>3. QED
    BY <2>1, <2>2 DEF StepsOf
<1>2. Job(o, ops[o], Content, path)
  BY <1>1, AtWork DEF Working, Ended
<1>3. /\ ops[o].handle = path /\ Rest(o, left) /\ Len(left) \in 1..4 /\ (Len(c) + Len(left)) % 3 = 0
  BY <1>1, <1>2 DEF Job
<1>4. path # 0 /\ path \in DOMAIN inodes /\ c = inodes[path]
  <2>1. path # 0
    BY <1>1, <1>3 DEF SInv, StepsInv, InStep
  <2>2. QED
    BY <2>1, Typed DEF Content, SInv
<1>5. c \in Seq(Tokens) /\ Shaped(c) /\ left \in Seq(Tokens) /\ Len(c) \in Nat /\ DOMAIN c = 1..Len(c)
  <2>1. c \in Seq(Tokens) /\ Len(c) \in Nat
    BY ContentTyped DEF SInv
  <2>2. Shaped(c) /\ left \in Seq(Tokens)
    BY OpTyped DEF SInv, LinesInv
  <2>3. DOMAIN c = 1..Len(c)
    BY <2>1
  <2>4. QED
    BY <2>1, <2>2, <2>3
<1>6. PICK k \in 1..Len(left), at \in {"write", "done", "failed"} :
        /\ at = "write" => k < Len(left)
        /\ at = "done" => k = Len(left)
        /\ inodes' = [inodes EXCEPT ![path] = @ \o SubSeq(left, 1, k)]
        /\ ops' = Set(o, [ops[o] EXCEPT !.left = SubSeq(@, k + 1, Len(@)), !.at = at])
  BY <1>3 DEF Write
<1> DEFINE d == c \o SubSeq(left, 1, k)
           rest == SubSeq(left, k + 1, Len(left))
           r == [ops[o] EXCEPT !.at = at, !.left = rest]
<1>7. Content' = d /\ path' = path
  <2>1. path' = path
    BY DEF Write
  <2>2. QED
    BY <1>4, <1>6, <2>1 DEF Content
<1>8. ops'[o] = r
  BY <1>6 DEF Set
<1>9. PICK t \in Nat : Len(c) + Len(left) = 3 * t
  <2>1. Len(c) + Len(left) \in Nat
    BY <1>3, <1>5
  <2>2. QED
    BY <1>3, <2>1, Thrice
<1> HIDE DEF left, c, rest, d
<1>10. r.at = at /\ r.kind = ops[o].kind /\ r.left = rest /\ r.handle = path
  BY <1>3, OpTyped, RecFields DEF SInv
<1> HIDE DEF r
<1>11. /\ DOMAIN d = 1..(Len(c) + k) /\ Len(d) = Len(c) + k /\ Len(rest) = Len(left) - k
       /\ Rest(o, rest)
       /\ \A i \in 1..Len(c) : d[i] = c[i]
       /\ \A i \in (Len(c) + 1)..(Len(c) + k) : Placed(o, d, i)
  BY <1>3, <1>5, <1>6, <1>9, Grown DEF d, rest
<1>12. /\ c = Content /\ left = ops[o].left
       /\ (at = "write" => k # Len(left)) /\ (at = "done" => k = Len(left))
  BY <1>3, <1>6 DEF c, left
<1>13. Writes(o, c, left, k, t, d, rest, r)
  BY <1>3, <1>5, <1>6, <1>7, <1>8, <1>9, <1>10, <1>11, <1>12 DEF Writes
<1>14. QED
  BY <1>1, <1>2, <1>13

\* create's write makes the header.
LEMMA WriteCreateTurns ==
  ASSUME SInv, ~Gone, NEW o \in DOMAIN ops, Write(o), ops[o].kind = "create"
  PROVE  Turned(o)
<1>1. PICK c, left, k, t, d, rest, r : Writes(o, c, left, k, t, d, rest, r)
  BY WriteWrites
<1>2. /\ ops[o].at = "write" /\ Job(o, ops[o], c, path)
  BY <1>1, WriteWrites DEF Writes
<1>3. Len(c) + Len(left) = 3 /\ (c # <<>> => c[1][1] = o) /\ ops[o].at = "write"
  BY <1>1, <1>2 DEF Job, Writes
<1> DEFINE n == Len(c)
           m == Len(left)
<1>4. n \in Nat /\ n + m = 3 /\ m \in 1..4 /\ k \in 1..m
      /\ DOMAIN d = 1..(n + k) /\ Len(d) = n + k /\ Len(rest) = m - k /\ DOMAIN c = 1..n
  BY <1>1, <1>3 DEF Writes
<1>5. /\ \A i \in 1..n : d[i] = c[i]
      /\ \A i \in (n + 1)..(n + k) : Placed(o, d, i)
      /\ c \in Seq(Tokens) /\ Shaped(c)
  BY <1>1 DEF Writes
<1>6. \A i \in 1..n : Placed(o, c, i)
  <2>1. n >= 1 => c # <<>> /\ 1 \in DOMAIN c
    BY <1>4
  <2>2. n >= 1 => c[1] = Half(o, 1)
    <3>1. 1 % 3 = 1
      OBVIOUS
    <3>2. QED
      BY <1>3, <1>5, <2>1, <3>1 DEF Shaped
  <2>3. n >= 2 => c[2] = Half(o, 2)
    <3>1. 2 % 3 = 2 /\ 2 - 1 = 1 /\ (n >= 2 => 2 \in DOMAIN c /\ n >= 1)
      BY <1>4
    <3>2. Half(o, 1)[1] = o
      BY DEF Half
    <3>3. n >= 2 => c[1][1] = o
      BY <2>2, <3>1, <3>2
    <3>4. QED
      BY <1>5, <3>1, <3>3 DEF Shaped
  <2>4. ASSUME NEW i \in 1..n
        PROVE  Placed(o, c, i)
    <3>1. i = 1 \/ i = 2
      BY <1>4, <2>4
    <3>2. 1 % 3 = 1 /\ 2 % 3 = 2 /\ n >= i
      BY <1>4, <2>4
    <3>3. CASE i = 1
      BY <2>2, <3>2, <3>3 DEF Placed
    <3>4. CASE i = 2
      BY <2>3, <3>2, <3>4 DEF Placed
    <3>5. QED
      BY <3>1, <3>3, <3>4
  <2>5. QED
    BY <2>4
<1>7. \A i \in 1..(n + k) : Placed(o, d, i)
  <2>1. ASSUME NEW i \in 1..(n + k)
        PROVE  Placed(o, d, i)
    <3>1. i \in 1..n \/ i \in (n + 1)..(n + k)
      BY <1>4, <2>1
    <3>2. i \in 1..n => d[i] = c[i]
      BY <1>5
    <3>3. QED
      BY <1>5, <1>6, <3>1, <3>2 DEF Placed
  <2>2. QED
    BY <2>1
<1>8. n + k \in 1..3 /\ m - k \in 0..3
  BY <1>4
<1>9. Shaped(d)
  <2>1. ASSUME NEW i \in DOMAIN d
        PROVE  /\ i % 3 = 1 => d[i] = Half(d[i][1], 1)
               /\ i % 3 = 2 => d[i] = Half(d[i - 1][1], 2)
               /\ i % 3 = 0 => d[i] = Newline
    <3>1. i \in 1..(n + k) /\ Placed(o, d, i) /\ i \in Nat
      BY <1>4, <1>7, <2>1
    <3>2. \A j \in {1, 2} : Half(o, j)[1] = o
      BY DEF Half
    <3>3. i % 3 = 2 => i - 1 \in 1..(n + k) /\ (i - 1) % 3 = 1
      BY <1>4, <3>1
    <3>4. i % 3 = 2 => d[i - 1] = Half(o, 1)
      BY <1>7, <3>3 DEF Placed
    <3>5. QED
      BY <3>1, <3>2, <3>4 DEF Placed
  <2>2. QED
    BY <2>1 DEF Shaped
<1>10. EntryPlaces(d) = {}
  BY <1>4, <1>8 DEF EntryPlaces
<1>11. SameEntries(c, d)
  <2>1. Holds(0, Len(c)) /\ Holds(0, Len(d)) /\ \A j \in 1..0 : FALSE
    BY <1>4, <1>8 DEF Holds
  <2>2. QED
    BY <2>1 DEF SameEntries
<1>12. r.at = "write" => Job(o, r, d, path)
  <2>1. r.at = "write" => k # m
    BY <1>1 DEF Writes
  <2>2. r.left = rest /\ r.kind = "create" /\ r.handle = path /\ Rest(o, rest)
    BY <1>1 DEF Writes
  <2> DEFINE x == Len(rest)
             y == Len(d)
  <2>3. x = m - k /\ y = n + k
    BY <1>4
  <2> HIDE DEF x, y, n, m
  <2>4. k # m => x \in 1..4 /\ y + x = 3 /\ (y + x) % 3 = 0
    BY <1>4, <2>3
  <2>5. d[1][1] = o
    <3>1. 1 \in 1..(n + k) /\ 1 % 3 = 1
      BY <1>8
    <3>2. d[1] = Half(o, 1)
      BY <1>7, <3>1 DEF Placed
    <3>3. QED
      BY <3>2 DEF Half
  <2>6. k # m => Len(rest) \in 1..4 /\ Len(d) + Len(rest) = 3 /\ (Len(d) + Len(rest)) % 3 = 0
    BY <2>4 DEF x, y
  <2>7. QED
    BY <2>1, <2>2, <2>5, <2>6 DEF Job
<1>13. r.at = "done" \/ Len(c) >= 2 => Len(d) >= 2
  <2>1. r.at = "done" => k = m
    BY <1>1 DEF Writes
  <2>2. QED
    BY <1>4, <2>1
<1>14. r.at \in {"done", "write", "failed"}
  BY <1>1 DEF Writes
<1>15. ops'[o] = r /\ Content' = d /\ Content = c /\ path' = path
  BY <1>1 DEF Writes
<1>16. Job(o, ops'[o], Content', path') \/ ops'[o].at \in {"done", "failed"}
  BY <1>12, <1>14, <1>15
<1>17. ops'[o].at \in {"done", "write", "failed"} /\ (ops'[o].at = "done" \/ Len(Content) >= 2 => Len(Content') >= 2)
  BY <1>13, <1>14, <1>15
<1>18. Shaped(Content') /\ EntryPlaces(Content') = {} /\ SameEntries(Content, Content')
  BY <1>9, <1>10, <1>11, <1>15
<1>19. ops'[o].at \in {"done", "failed"} => ops'[o].at \in Ended
  BY DEF Ended
<1>20. QED
  BY <1>16, <1>17, <1>18, <1>19 DEF Turned

\* The numbers in an append's write: c of n tokens, m to go, k of them written now.
Counts(n, m, k, t) ==
  /\ n \in Nat /\ m \in 1..4 /\ k \in 1..m /\ t \in Nat /\ n + m = 3 * t
  /\ n >= 2 /\ (m <= 2 => n > 3)

\* A line after the header is being written.
LEMMA BehindHeader ==
  ASSUME NEW n, NEW m, NEW k, NEW t, Counts(n, m, k, t)
  PROVE  t >= 2 /\ t \in Nat
  BY DEF Counts

\* Its entries come to be whole when the second half is written.
LEMMA Countings ==
  ASSUME NEW n, NEW m, NEW k, NEW t, Counts(n, m, k, t)
  PROVE  /\ m = 1 => Holds(t - 1, n) /\ Holds(t - 1, n + k)
         /\ m > 1 => Holds(t - 2, n)
         /\ m > 1 /\ k < m - 1 => Holds(t - 2, n + k)
         /\ m > 1 /\ k >= m - 1 => Holds(t - 1, n + k)
<1>1. t >= 2 /\ t \in Nat
  BY BehindHeader
<1>2. n = 3 * t - m /\ m \in 1..4 /\ k \in 1..m /\ n \in Nat
  BY DEF Counts
<1>3. QED
  BY <1>1, <1>2 DEF Holds

\* Who wrote an entry that is in the file was called before the one that writes now.
LEMMA WrittenBefore ==
  ASSUME SInv, ~Gone, NEW o \in DOMAIN ops, ops[o].at = "write", ops[o].kind = "append",
         NEW i \in EntryPlaces(Content), Content[i][1] # o
  PROVE  Content[i][1] < o
<1> DEFINE x == Content[i][1]
<1>1. x \in DOMAIN ops /\ ops[x].kind = "append" /\ ops[x].at \in {"write", "done", "failed", "dead"}
  BY DEF SInv, LinesInv
<1>2. x # o
  OBVIOUS
<1> HIDE DEF x
<1>3. x \in Nat /\ o \in Nat
  BY <1>1, Typed DEF SInv
<1>4. ASSUME o < x
      PROVE  FALSE
  <2>1. Queues(o) /\ Queues(x) /\ ops[x].at # "start"
    BY <1>1 DEF Queues
  <2>2. Settled(o)
    BY <1>1, <1>4, <2>1 DEF SInv, QueueInv
  <2>3. QED
    BY <2>2 DEF Settled
<1>5. x < o
  BY <1>2, <1>3, <1>4
<1>6. QED
  BY <1>5 DEF x

\* append's write makes an entry of its own.
LEMMA WriteAppendTurns ==
  ASSUME SInv, ~Gone, NEW o \in DOMAIN ops, Write(o), ops[o].kind = "append"
  PROVE  Turned(o)
<1>1. PICK c, left, k, t, d, rest, r : Writes(o, c, left, k, t, d, rest, r)
  BY WriteWrites
<1>2. /\ ops[o].at = "write" /\ Job(o, ops[o], c, path)
  BY <1>1, WriteWrites DEF Writes
<1> DEFINE n == Len(c)
           m == Len(left)
<1>3. /\ m <= 2 => n > 3
      /\ \A i \in EntryPlaces(c) : c[i][1] = o <=> m <= 2 /\ i + 1 >= n
  BY <1>1, <1>2 DEF Job, Writes
<1>4. /\ DOMAIN d = 1..(n + k) /\ Len(d) = n + k /\ Len(rest) = m - k /\ DOMAIN c = 1..n
      /\ Counts(n, m, k, t)
  <2>1. n >= 2
    BY <1>1, FileThere DEF Writes
  <2>2. QED
    BY <1>1, <1>3, <2>1 DEF Writes, Counts
<1>5. /\ \A i \in 1..n : d[i] = c[i]
      /\ \A i \in (n + 1)..(n + k) : Placed(o, d, i)
      /\ c \in Seq(Tokens) /\ Shaped(c)
  BY <1>1 DEF Writes
<1> HIDE DEF n, m
<1>6. /\ n \in Nat /\ m \in 1..4 /\ m \in Nat /\ k \in 1..m /\ k \in Nat /\ n = 3 * t - m /\ n >= 2
      /\ t >= 2 /\ t \in Nat
  BY <1>4, BehindHeader DEF Counts
<1>7. \A i \in EntryPlaces(d) : i \in Nat /\ i > 3 /\ i % 3 = 1 /\ i <= n + k
                                 /\ (i <= n => i \in EntryPlaces(c) /\ d[i] = c[i])
                                 /\ (i > n => i = 3 * t - 2 /\ d[i] = Half(o, 1) /\ m >= 3)
  <2>1. ASSUME NEW i \in EntryPlaces(d)
        PROVE  /\ i \in Nat /\ i > 3 /\ i % 3 = 1 /\ i <= n + k
               /\ i <= n => i \in EntryPlaces(c) /\ d[i] = c[i]
               /\ i > n => i = 3 * t - 2 /\ d[i] = Half(o, 1) /\ m >= 3
    <3>1. i \in 1..(n + k) /\ i > 3 /\ i % 3 = 1 /\ i \in Nat /\ i <= n + k
      BY <1>4, <1>6, <2>1 DEF EntryPlaces
    <3>2. i <= n => i \in 1..n /\ i \in EntryPlaces(c)
      BY <1>4, <1>6, <3>1 DEF EntryPlaces
    <3>3. i > n => i \in (n + 1)..(n + k)
      BY <1>6, <3>1
    <3>4. i > n => i = 3 * t - 2 /\ m >= 3
      BY ONLY <1>6, <3>1
    <3>5. QED
      BY <1>5, <3>1, <3>2, <3>3, <3>4 DEF Placed
  <2>2. QED
    BY <2>1
<1>8. m = 2 => 3 * t - 2 = n /\ 3 * t - 2 \in EntryPlaces(c) /\ c[3 * t - 2][1] = o
  <2>1. m = 2 => 3 * t - 2 = n /\ n \in 1..n /\ n > 3 /\ n % 3 = 1 /\ n + 1 >= n
    BY <1>3, <1>6
  <2>2. QED
    BY <1>3, <1>4, <2>1 DEF EntryPlaces
<1>9. Shaped(d)
  <2>1. ASSUME NEW i \in DOMAIN d
        PROVE  /\ i % 3 = 1 => d[i] = Half(d[i][1], 1)
               /\ i % 3 = 2 => d[i] = Half(d[i - 1][1], 2)
               /\ i % 3 = 0 => d[i] = Newline
    <3>1. i \in 1..(n + k) /\ i \in Nat /\ i # 0
      BY <1>4, <1>6, <2>1
    <3>2. CASE i <= n
      <4>1. i \in DOMAIN c /\ i \in 1..n
        BY <1>4, <3>1, <3>2
      <4>2. i % 3 = 2 => i - 1 \in 1..n
        BY <1>6, <3>1, <3>2
      <4>3. QED
        BY <1>5, <4>1, <4>2 DEF Shaped
    <3>3. CASE i > n
      <4>1. i \in (n + 1)..(n + k)
        BY <1>6, <3>1, <3>3
      <4>2. Placed(o, d, i)
        BY <1>5, <4>1
      <4>3. \A j \in {1, 2} : Half(o, j)[1] = o
        BY DEF Half
      <4>4. CASE i % 3 = 2
        <5>1. CASE i - 1 > n
          <6>1. i - 1 \in (n + 1)..(n + k) /\ (i - 1) % 3 = 1
            BY <1>6, <3>1, <4>4, <5>1
          <6>2. d[i - 1] = Half(o, 1)
            BY <1>5, <6>1 DEF Placed
          <6>3. QED
            BY <4>2, <4>3, <4>4, <6>2 DEF Placed
        <5>2. CASE i - 1 <= n
          <6>1. i - 1 = n /\ m = 2 /\ n \in 1..n
            BY ONLY <1>6, <3>1, <3>3, <4>4, <5>2
          <6>2. d[i - 1][1] = o
            BY <1>5, <1>8, <6>1
          <6>3. QED
            BY <4>2, <4>4, <6>2 DEF Placed
        <5>3. QED
          BY <1>6, <3>1, <5>1, <5>2
      <4>5. QED
        BY <4>2, <4>3, <4>4 DEF Placed
    <3>4. QED
      BY <1>6, <3>1, <3>2, <3>3
  <2>2. QED
    BY <2>1 DEF Shaped
<1>10. \A i \in EntryPlaces(d) : (i \in EntryPlaces(c) /\ c[i][1] = d[i][1]) \/ d[i][1] = o
  <2>1. Half(o, 1)[1] = o
    BY DEF Half
  <2>2. \A i \in EntryPlaces(d) : i <= n \/ i > n
    BY <1>6, <1>7
  <2>3. QED
    BY <1>7, <2>1, <2>2
<1>11. /\ ops'[o] = r /\ Content' = d /\ Content = c /\ path' = path
       /\ r.at \in {"write", "done", "failed"} /\ (r.at = "write" => k # m) /\ (r.at = "done" => k = m)
       /\ r.kind = "append" /\ r.left = rest /\ r.handle = path /\ Rest(o, rest)
  BY <1>1 DEF Writes, m
<1>12. \A i \in EntryPlaces(c) : c[i][1] # o => c[i][1] < o
  BY <1>2, <1>11, WrittenBefore
<1>13. k # m => \A i \in EntryPlaces(d) : d[i][1] = o <=> m - k <= 2 /\ i + 1 >= n + k
  <2>1. ASSUME k # m, NEW i \in EntryPlaces(d)
        PROVE  d[i][1] = o <=> m - k <= 2 /\ i + 1 >= n + k
    <3>1. m >= 2 /\ m - k \in 1..3
      BY <1>6, <2>1
    <3>2. CASE i > n
      <4>1. i = 3 * t - 2 /\ d[i] = Half(o, 1) /\ m >= 3
        BY <1>7, <2>1, <3>2
      <4>2. d[i][1] = o
        BY <4>1 DEF Half
      <4>3. m - k <= 2 /\ i + 1 >= n + k
        <5>1. i <= n + k
          BY <1>7, <2>1
        <5>2. QED
          BY ONLY <1>6, <3>1, <4>1, <5>1
      <4>4. QED
        BY <4>2, <4>3
    <3>3. CASE i <= n
      <4>1. i \in EntryPlaces(c) /\ d[i] = c[i] /\ i % 3 = 1 /\ i \in Nat
        BY <1>7, <2>1, <3>3
      <4>2. d[i][1] = o <=> m <= 2 /\ i + 1 >= n
        BY <1>3, <4>1
      <4>3. (m <= 2 /\ i + 1 >= n) <=> (m - k <= 2 /\ i + 1 >= n + k)
        <5>1. CASE m = 2
          BY ONLY <1>6, <2>1, <3>1, <3>3, <4>1, <5>1
        <5>2. CASE m = 3
          BY ONLY <1>6, <2>1, <3>1, <3>3, <4>1, <5>2
        <5>3. CASE m = 4
          BY ONLY <1>6, <2>1, <3>1, <3>3, <4>1, <5>3
        <5>4. QED
          BY <1>6, <3>1, <5>1, <5>2, <5>3
      <4>4. QED
        BY <4>2, <4>3
    <3>4. QED
      BY <1>6, <1>7, <2>1, <3>2, <3>3
  <2>2. QED
    BY <2>1
<1>14. r.at = "write" => Job(o, r, d, path)
  <2>0. ASSUME r.at = "write"
        PROVE  Job(o, r, d, path)
    <3>1. r.at = "write" /\ k # m
      BY <1>11, <2>0
    <3> DEFINE x == Len(rest)
               y == Len(d)
    <3>2. x = m - k /\ y = n + k
      BY <1>4
    <3> HIDE DEF x, y
    <3>3. x \in 1..4 /\ (y + x) % 3 = 0 /\ (x <= 2 => y > 3)
      <4>1. y + x = 3 * t /\ x \in 1..3
        BY <1>6, <3>1, <3>2
      <4>2. (y + x) % 3 = 0
        BY <1>6, <4>1
      <4>3. x <= 2 => y > 3
        BY <1>6, <3>2, <4>1
      <4>4. QED
        BY <4>1, <4>2, <4>3
    <3>4. \A i \in EntryPlaces(d) : d[i][1] = o <=> x <= 2 /\ i + 1 >= y
      BY <1>13, <3>1, <3>2
    <3>5. QED
      BY <1>11, <3>1, <3>3, <3>4 DEF Job, x, y
  <2>2. QED
    BY <2>0
<1>15. Holds(t - 1, n + k) \/ (m > 1 /\ Holds(t - 2, n + k))
  BY <1>4, <1>6, Countings
<1>16. ASSUME m = 1
       PROVE  \/ SameEntries(c, d) /\ (k = m => \E i \in EntryPlaces(c) : i + 1 \in DOMAIN c /\ c[i][1] = o)
             \/ OneMore(c, d, o)
  <2>1. SameEntries(c, d)
    <3>1. Holds(t - 1, n) /\ Holds(t - 1, n + k)
      BY <1>4, <1>16, Countings
    <3>2. ASSUME NEW j \in 1..(t - 1)
          PROVE  c[3 * j + 1][1] = d[3 * j + 1][1]
      <4>1. 3 * j + 1 \in 1..n
        BY <1>6, <1>16, <3>2
      <4>2. QED
        BY <1>5, <4>1
    <3>3. Holds(t - 1, Len(c)) /\ Holds(t - 1, Len(d))
      BY <1>4, <3>1 DEF n
    <3>4. QED
      BY <3>2, <3>3 DEF SameEntries
  <2>2. \E i \in EntryPlaces(c) : i + 1 \in DOMAIN c /\ c[i][1] = o
    <3>1. /\ n - 1 \in 1..n /\ n - 1 > 3 /\ (n - 1) % 3 = 1 /\ n - 1 + 1 >= n /\ n - 1 + 1 \in 1..n
      BY ONLY <1>3, <1>6, <1>16
    <3>2. n - 1 \in EntryPlaces(c)
      BY <1>4, <3>1 DEF EntryPlaces
    <3>3. c[n - 1][1] = o
      BY <1>3, <1>16, <3>1, <3>2
    <3>4. QED
      BY <1>4, <3>1, <3>2, <3>3
  <2>3. QED
    BY <2>1, <2>2
<1>17. ASSUME m > 1 /\ k < m - 1
       PROVE  \/ SameEntries(c, d) /\ (k = m => \E i \in EntryPlaces(c) : i + 1 \in DOMAIN c /\ c[i][1] = o)
             \/ OneMore(c, d, o)
  <2>1. SameEntries(c, d)
    <3>1. Holds(t - 2, n) /\ Holds(t - 2, n + k)
      BY <1>4, <1>17, Countings
    <3>2. ASSUME NEW j \in 1..(t - 2)
          PROVE  c[3 * j + 1][1] = d[3 * j + 1][1]
      <4>1. 3 * j + 1 \in 1..n
        BY <1>6, <3>2
      <4>2. QED
        BY <1>5, <4>1
    <3>3. Holds(t - 2, Len(c)) /\ Holds(t - 2, Len(d))
      BY <1>4, <3>1 DEF n
    <3>4. QED
      BY <3>2, <3>3 DEF SameEntries
  <2>2. k # m
    BY <1>6, <1>17
  <2>3. QED
    BY <2>1, <2>2
<1>18. ASSUME m > 1 /\ k >= m - 1
       PROVE  \/ SameEntries(c, d) /\ (k = m => \E i \in EntryPlaces(c) : i + 1 \in DOMAIN c /\ c[i][1] = o)
             \/ OneMore(c, d, o)
  <2>1. Holds(t - 2, Len(c)) /\ Holds(t - 2 + 1, Len(d))
    <3>1. Holds(t - 2, n) /\ Holds(t - 1, n + k) /\ t - 2 + 1 = t - 1
      BY <1>4, <1>6, <1>18, Countings
    <3>2. QED
      BY <1>4, <3>1 DEF n
  <2>2. ASSUME NEW j \in 1..(t - 2)
        PROVE  c[3 * j + 1][1] = d[3 * j + 1][1] /\ c[3 * j + 1][1] < o
    <3>1. 3 * j + 1 \in 1..n /\ 3 * j + 1 > 3 /\ (3 * j + 1) % 3 = 1 /\ ~(m <= 2 /\ 3 * j + 1 + 1 >= n)
      BY ONLY <1>6, <1>18, <2>2
    <3>2. 3 * j + 1 \in EntryPlaces(c)
      BY <1>4, <3>1 DEF EntryPlaces
    <3>3. c[3 * j + 1][1] # o
      BY <1>3, <3>1, <3>2
    <3>4. QED
      BY <1>5, <1>12, <3>1, <3>2, <3>3
  <2>3. d[3 * (t - 2) + 4][1] = o
    <3>1. 3 * (t - 2) + 4 = 3 * t - 2
      BY <1>6
    <3>2. CASE m = 2
      <4>1. n \in 1..n /\ 3 * t - 2 = n
        BY <1>6, <1>8, <3>2
      <4>2. QED
        BY <1>5, <1>8, <3>1, <3>2, <4>1
    <3>3. CASE m # 2
      <4>1. 3 * t - 2 \in (n + 1)..(n + k) /\ (3 * t - 2) % 3 = 1
        BY ONLY <1>6, <1>18, <3>3
      <4>2. d[3 * t - 2] = Half(o, 1)
        BY <1>5, <4>1 DEF Placed
      <4>3. QED
        BY <3>1, <4>2 DEF Half
    <3>4. QED
      BY <3>2, <3>3
  <2>4. OneMore(c, d, o)
    BY <2>1, <2>2, <2>3 DEF OneMore
  <2>5. QED
    BY <2>4
<1>19. \/ SameEntries(c, d) /\ (k = m => \E i \in EntryPlaces(c) : i + 1 \in DOMAIN c /\ c[i][1] = o)
       \/ OneMore(c, d, o)
  <2>1. CASE m = 1
    BY <1>16, <2>1
  <2>2. CASE m > 1 /\ k < m - 1
    BY <1>6, <1>17, <2>2
  <2>3. CASE m > 1 /\ k >= m - 1
    BY <1>18, <2>3
  <2>4. QED
    BY <1>6, <2>1, <2>2, <2>3
<1>20. ops'[o].at \in {"done", "write", "failed"} /\ (ops'[o].at = "done" => k = m) /\ (ops'[o].at = "write" => k # m)
  BY <1>11
<1>21. ops'[o].at \notin Ended => Job(o, ops'[o], Content', path')
  BY <1>11, <1>14, <1>20 DEF Ended
<1>22. Shaped(Content') /\ Len(Content') >= 2
  <2>1. Len(d) >= 2
    BY <1>4, <1>6
  <2>2. QED
    BY <1>9, <1>11, <2>1
<1>23. \A i \in EntryPlaces(Content') :
         (i \in EntryPlaces(Content) /\ Content[i][1] = Content'[i][1]) \/ Content'[i][1] = o
  BY <1>10, <1>11
<1>24. \/ /\ SameEntries(Content, Content')
          /\ ops'[o].at = "done" => \E i \in EntryPlaces(Content) : i + 1 \in DOMAIN Content /\ Content[i][1] = o
       \/ OneMore(Content, Content', o)
  BY <1>11, <1>19, <1>20
<1>25. QED
  BY <1>20, <1>21, <1>22, <1>23, <1>24 DEF Turned

\* A write.
LEMMA WriteTurns ==
  ASSUME SInv, ~Gone, NEW o \in DOMAIN ops, Write(o)
  PROVE  Turned(o)
<1>1. ops[o].kind \in {"create", "append"}
  BY WriteWrites
<1>2. QED
  BY <1>1, WriteCreateTurns, WriteAppendTurns

\* Every step but a delete's.
LEMMA StepTurns ==
  ASSUME SInv, ~Gone, NEW o \in DOMAIN ops, Step(o), ~Unlink(o)
  PROVE  Turned(o)
  BY CreateOpensTurns, FailedTurns, AccessTurns, LookTurns, SettleTurns, StatTurns,
     TruncateTurns, OpenTurns, WriteTurns, TitleReadsTurns, RenameTurns DEF Step

-----------------------------------------------------------------------------
(* Every step keeps the invariant. *)

\* The invariant of the file as a log.
LogInv == IInv /\ AloneInv /\ LinesInv /\ JobsInv

LEMMA LogParts ==
  ASSUME LogInv
  PROVE  /\ SInv /\ TypesInv /\ StepsInv /\ QueueInv /\ FilesInv /\ GoneInv
         /\ AloneInv /\ LinesInv /\ JobsInv /\ IInv
  BY DEF LogInv, IInv, SInv

\* What a first step does: only a create's makes a file.
LEMMA FirstSteps ==
  ASSUME SInv, NEW o \in DOMAIN ops, Step(o), ~Unlink(o), ops[o].at = "start"
  PROVE  \/ CreateOpens(o) /\ path = 0 /\ ops[o].kind = "create"
         \/ UNCHANGED <<inodes, path>> /\ (ops[o].kind = "create" => ops'[o].at = "failed")
<1>1. CASE CreateOpens(o)
  BY <1>1 DEF CreateOpens, Is
<1>2. ASSUME Fail(o) \/ Throws(o)
      PROVE  UNCHANGED <<inodes, path>> /\ ops'[o].at = "failed"
  <2>1. ops'[o] = [ops[o] EXCEPT !.at = "failed"]
    BY <1>2 DEF Fail, Throws, Set
  <2>2. ops[o] \in OpRecs(Len(inodes))
    BY OpTyped DEF SInv
  <2>3. ops'[o].at = "failed"
    BY <2>1, <2>2, RecFields
  <2>4. QED
    BY <1>2, <2>3 DEF Fail, Throws
<1>3. CASE CreateExists(o) \/ MissingFile(o) \/ TitleCorrupt(o) \/ UnlinkMissing(o) \/ Throws(o)
  BY <1>2, <1>3 DEF CreateExists, MissingFile, TitleCorrupt, UnlinkMissing
<1>4. CASE Access(o)
  BY <1>4 DEF Access, Is, Advance
<1>5. CASE TitleReads(o)
  BY <1>5 DEF TitleReads, Is, Advance
<1>6. CASE Look(o) \/ Settle(o) \/ Stat(o) \/ Truncate(o) \/ Open(o) \/ Write(o) \/ Rename(o)
  BY <1>6 DEF Look, Settle, Stat, Truncate, Open, Write, Rename, Is
<1>7. QED
  BY <1>1, <1>3, <1>4, <1>5, <1>6 DEF Step

\* Nobody else is at work when an operation takes its first step and goes on.
LEMMA GoesOnAlone ==
  ASSUME SInv, ~Gone, NEW o \in DOMAIN ops, Step(o), ~Unlink(o), ops[o].at = "start",
         ops'[o].at \notin Ended, NEW q \in DOMAIN ops, Working(q)
  PROVE  FALSE
<1>1. TypesInv /\ StepsInv /\ QueueInv /\ FilesInv /\ AloneInv
  BY DEF SInv
<1>2. PICK r : Moves(o, r)
  BY <1>1, StepEffect, EffectMoves
<1>3. ops'[o] = r /\ Served(o) /\ (r.kind = "delete" => r.at = "failed") /\ r.kind = ops[o].kind
  BY <1>1, <1>2, MovesKeep DEF Moves
<1>4. ops[o].kind # "delete"
  BY <1>3 DEF Ended
<1>5. ops[q].at # "start" /\ ops[q].at \notin Ended /\ ~Settled(q)
  BY <1>1, EndedIsSettled DEF Working
<1>6. ops[q].kind \in {"create", "append", "title", "delete"} /\ ops[o].kind \in {"create", "append", "title", "delete"}
  BY <1>1, OpTyped, KindsAssumption
<1>7. ops[q].kind # "delete"
  BY <1>1, <1>5 DEF StepsInv, InStep, StepsOf, Ended
<1>8. CASE ops[o].kind = "create"
  <2>1. path = 0
    BY <1>8, FirstSteps DEF Ended
  <2>2. ops[q].at \in {"start", "failed", "dead"}
    BY <1>1, <2>1 DEF FilesInv
  <2>3. QED
    BY <1>5, <2>2 DEF Ended
<1>9. CASE ops[o].kind # "create"
  <2>1. ops[q].kind # "create"
    BY <1>1, <1>9 DEF AloneInv
  <2>2. Queues(q) /\ Queues(o) /\ Settled(ops[o].after)
    BY <1>3, <1>4, <1>6, <1>7, <1>9, <2>1 DEF Queues, Served, Ready
  <2>3. ~(q < o)
    BY <1>1, <1>5, <1>9, <2>2, ServedInOrder
  <2>4. ~(o < q)
    <3>1. ~Settled(o)
      BY DEF Settled
    <3>2. QED
      BY <1>1, <1>5, <2>2, <3>1 DEF QueueInv
  <2>5. o # q
    BY <1>5
  <2>6. o \in Nat /\ q \in Nat
    BY <1>1, Typed
  <2>7. QED
    BY <2>3, <2>4, <2>5, <2>6
<1>10. QED
  BY <1>8, <1>9

\* Steps keep it.
LEMMA StepKeepsLog ==
  ASSUME OneProcess, LogInv, NEW o \in DOMAIN ops, Step(o), ~Unlink(o)
  PROVE  AloneInv' /\ LinesInv' /\ JobsInv'
<1>1. /\ SInv /\ TypesInv /\ StepsInv /\ QueueInv /\ FilesInv /\ AloneInv /\ LinesInv /\ JobsInv
  BY LogParts
<1>2. PICK r : Moves(o, r)
  BY <1>1, StepEffect, EffectMoves
<1>3. /\ Kept /\ (\A q \in DOMAIN ops : q # o => ops'[q] = ops[q]) /\ ops[o].at \notin Ended
      /\ DOMAIN ops' = DOMAIN ops /\ \A q \in DOMAIN ops : ops'[q].kind = ops[q].kind
  BY <1>1, <1>2, MovesKeep DEF Kept
<1>4. Gone' <=> Gone
  BY <1>1, <1>2, GoneMoves
<1> SUFFICES ASSUME ~Gone PROVE AloneInv' /\ LinesInv' /\ JobsInv'
  BY <1>4 DEF AloneInv, LinesInv, JobsInv
<1>5. Turned(o)
  BY <1>1, StepTurns
<1>6. Working(o) \/ ops[o].at = "start"
  BY <1>3 DEF Working
<1>7. \A q \in DOMAIN ops : q # o => (Working(q)' <=> Working(q))
  BY <1>3 DEF Working
<1>8. ASSUME NEW q \in DOMAIN ops, q # o, Working(q)
      PROVE  ~Working(o)' /\ UNCHANGED <<inodes, path>>
  <2>1. ops[o].at = "start"
    BY <1>1, <1>6, <1>8 DEF AloneInv
  <2>2. ops'[o].at \in Ended
    BY <1>1, <1>8, <2>1, GoesOnAlone
  <2>3. path # 0
    BY <1>1, <1>8 DEF FilesInv, Working, Ended
  <2>4. QED
    BY <1>1, <2>1, <2>2, <2>3, FirstSteps DEF Working
<1>9. AloneInv'
  <2>1. ASSUME NEW p \in DOMAIN ops, NEW q \in DOMAIN ops, Working(p)', Working(q)'
        PROVE  p = q
    <3>1. CASE p = o /\ q # o
      BY <1>7, <1>8, <2>1, <3>1
    <3>2. CASE p # o /\ q = o
      BY <1>7, <1>8, <2>1, <3>2
    <3>3. CASE p # o /\ q # o
      BY <1>1, <1>7, <2>1, <3>3 DEF AloneInv
    <3>4. QED
      BY <3>1, <3>2, <3>3
  <2>2. ASSUME NEW p \in DOMAIN ops, ops[p].kind # "create", NEW q \in DOMAIN ops, ops[q].kind = "create"
        PROVE  ~Working(q)'
    <3>1. ~Working(q)
      BY <1>1, <2>2 DEF AloneInv
    <3>2. CASE q # o
      BY <1>7, <3>1, <3>2
    <3>3. CASE q = o
      <4>1. ops[o].at = "start"
        BY <1>6, <3>1, <3>3
      <4>2. path # 0
        BY <1>1, <2>2 DEF FilesInv
      <4>3. ops'[o].at = "failed"
        BY <1>1, <2>2, <3>3, <4>1, <4>2, FirstSteps
      <4>4. QED
        BY <3>3, <4>3 DEF Working, Ended
    <3>4. QED
      BY <3>2, <3>3
  <2>3. QED
    BY <1>3, <2>1, <2>2 DEF AloneInv
<1>10. LinesInv'
  <2>1. Shaped(Content')
    BY <1>5 DEF Turned
  <2>2. ASSUME NEW i \in EntryPlaces(Content')
        PROVE  LET n == Content'[i][1] IN
                 n \in DOMAIN ops /\ ops[n].kind = "append" /\ ops'[n].at \in {"write", "done", "failed", "dead"}
    <3>1. CASE i \in EntryPlaces(Content) /\ Content[i][1] = Content'[i][1]
      <4> DEFINE n == Content[i][1]
      <4>1. n \in DOMAIN ops /\ ops[n].kind = "append" /\ ops[n].at \in {"write", "done", "failed", "dead"}
        BY <1>1, <3>1 DEF LinesInv
      <4> HIDE DEF n
      <4>2. ops'[n].at \in {"write", "done", "failed", "dead"}
        <5>1. CASE n = o
          BY <1>3, <1>5, <4>1, <5>1 DEF Turned, Ended
        <5>2. CASE n # o
          BY <1>3, <4>1, <5>2
        <5>3. QED
          BY <5>1, <5>2
      <4>3. QED
        BY <3>1, <4>1, <4>2 DEF n
    <3>2. CASE Content'[i][1] = o /\ ops[o].kind = "append" /\ ops'[o].at \in {"write", "done", "failed"}
      BY <3>2
    <3>3. QED
      BY <1>5, <3>1, <3>2 DEF Turned
  <2>3. ASSUME NEW q \in DOMAIN ops, ops[q].kind # "create" \/ ops'[q].at = "done"
        PROVE  Len(Content') >= 2
    <3>1. CASE q = o
      BY <1>5, <2>3, <3>1 DEF Turned
    <3>2. CASE q # o
      <4>1. Len(Content) >= 2
        BY <1>1, <1>3, <2>3, <3>2 DEF LinesInv
      <4>2. QED
        BY <1>5, <4>1 DEF Turned
    <3>3. QED
      BY <3>1, <3>2
  <2>4. QED
    BY <1>3, <2>1, <2>2, <2>3 DEF LinesInv, Shaped, EntryPlaces
<1>11. JobsInv'
  <2>1. ASSUME NEW q \in DOMAIN ops
        PROVE  /\ ops'[q].at = "start" => ops'[q].tries = 0
               /\ Working(q)' => Job(q, ops'[q], Content', path')
    <3>1. CASE q = o
      BY <1>5, <3>1 DEF Turned, Working
    <3>2. CASE q # o
      <4>1. ops'[q] = ops[q] /\ (ops[q].at = "start" => ops[q].tries = 0)
            /\ (Working(q) => Job(q, ops[q], Content, path))
        BY <1>1, <1>3, <3>2 DEF JobsInv
      <4>2. Working(q) => Content' = Content /\ path' = path
        BY <1>8, <3>2 DEF Content
      <4>3. QED
        BY <1>7, <3>2, <4>1, <4>2
    <3>3. QED
      BY <3>1, <3>2
  <2>2. QED
    BY <1>3, <2>1 DEF JobsInv
<1>12. QED
  BY <1>9, <1>10, <1>11

\* A call changes no file; who is given the session finds its header.
LEMMA CallKeepsLog ==
  ASSUME LogInv, NEW p \in Procs, NEW kind \in Kinds, Call(p, kind)
  PROVE  AloneInv' /\ LinesInv' /\ JobsInv'
<1>1. /\ SInv /\ TypesInv /\ AloneInv /\ LinesInv /\ JobsInv
  BY LogParts
<1>2. PICK n, r : Added(p, kind, n, r)
  BY <1>1, CallAdds
<1>3. /\ DOMAIN ops' = DOMAIN ops \cup {n} /\ n \notin DOMAIN ops /\ (\A q \in DOMAIN ops : ops'[q] = ops[q])
      /\ ops'[n] = r /\ r.at = "start" /\ r.kind = kind /\ inodes' = inodes /\ path' = path
  BY <1>2 DEF Added
<1>4. r.tries = 0
  <2>1. n = Len(ops) + 1 /\ ops' = Append(ops, Op(p, kind, "start", WaitsFor(p, kind)))
    BY <1>2 DEF Added, Call
  <2> DEFINE x == Op(p, kind, "start", WaitsFor(p, kind))
  <2>2. x.tries = 0
    BY DEF Op
  <2> HIDE DEF x
  <2>3. \A R : ops \in Seq(R) => ops'[Len(ops) + 1] = x
    BY <2>1 DEF x
  <2>4. ops'[n] = x
    BY <1>1, <2>1, <2>3, Typed
  <2>5. QED
    BY <1>3, <2>2, <2>4
<1>5. Content' = Content
  BY <1>3 DEF Content
<1>6. Gone' <=> Gone
  BY <1>1, CallGone
<1> SUFFICES ASSUME ~Gone PROVE AloneInv' /\ LinesInv' /\ JobsInv'
  BY <1>6 DEF AloneInv, LinesInv, JobsInv
<1>7. ~Working(n)' /\ \A q \in DOMAIN ops : Working(q)' <=> Working(q)
  BY <1>3 DEF Working
<1>8. kind # "create" =>
        /\ \A q \in DOMAIN ops : ops[q].kind = "create" => ~Working(q)
        /\ Len(Content) >= 2
  <2>1. ASSUME kind # "create"
        PROVE  /\ \A q \in DOMAIN ops : ops[q].kind = "create" => Settled(q)
               /\ (\E q \in DOMAIN ops : Is(q, "create", "done")) \/ (HasLines(Content) /\ Whole(FirstLine(Content)))
    BY <2>1 DEF Call, Usable
  <2>2. \A q \in DOMAIN ops : Settled(q) => ~Working(q)
    BY <1>1, EndedIsSettled DEF Working
  <2>3. (\E q \in DOMAIN ops : Is(q, "create", "done")) => Len(Content) >= 2
    BY <1>1 DEF LinesInv, Is
  <2>4. HasLines(Content) /\ Whole(FirstLine(Content)) => Len(Content) >= 2
    BY <1>1, ContentTyped, HeaderLength
  <2>5. QED
    BY <2>1, <2>2, <2>3, <2>4
<1>9. AloneInv'
  <2>1. ASSUME NEW i \in DOMAIN ops', NEW j \in DOMAIN ops', Working(i)', Working(j)'
        PROVE  i = j
    BY <1>1, <1>3, <1>7, <2>1 DEF AloneInv
  <2>2. ASSUME NEW i \in DOMAIN ops', ops'[i].kind # "create", NEW j \in DOMAIN ops', ops'[j].kind = "create"
        PROVE  ~Working(j)'
    <3>1. CASE j = n
      BY <1>7, <3>1
    <3>2. CASE j # n
      <4>1. j \in DOMAIN ops /\ ops[j].kind = "create"
        BY <1>3, <2>2, <3>2
      <4>2. ~Working(j)
        BY <1>1, <1>3, <1>8, <2>2, <4>1 DEF AloneInv
      <4>3. QED
        BY <1>7, <4>1, <4>2
    <3>3. QED
      BY <3>1, <3>2
  <2>3. QED
    BY <2>1, <2>2 DEF AloneInv
<1>10. LinesInv'
  <2>1. Shaped(Content') /\ EntryPlaces(Content') = EntryPlaces(Content)
    BY <1>1, <1>5 DEF LinesInv
  <2>2. ASSUME NEW i \in EntryPlaces(Content')
        PROVE  LET x == Content'[i][1] IN
                 x \in DOMAIN ops' /\ ops'[x].kind = "append" /\ ops'[x].at \in {"write", "done", "failed", "dead"}
    <3> DEFINE x == Content[i][1]
    <3>1. x \in DOMAIN ops /\ ops[x].kind = "append" /\ ops[x].at \in {"write", "done", "failed", "dead"}
      BY <1>1, <2>1, <2>2 DEF LinesInv
    <3> HIDE DEF x
    <3>2. x \in DOMAIN ops' /\ ops'[x].kind = "append" /\ ops'[x].at \in {"write", "done", "failed", "dead"}
      BY <1>3, <3>1
    <3>3. QED
      BY <1>5, <3>2 DEF x
  <2>3. ASSUME NEW q \in DOMAIN ops', ops'[q].kind # "create" \/ ops'[q].at = "done"
        PROVE  Len(Content') >= 2
    BY <1>1, <1>3, <1>5, <1>8, <2>3 DEF LinesInv
  <2>4. QED
    BY <2>1, <2>2, <2>3 DEF LinesInv
<1>11. JobsInv'
  <2>1. ASSUME NEW q \in DOMAIN ops'
        PROVE  /\ ops'[q].at = "start" => ops'[q].tries = 0
               /\ Working(q)' => Job(q, ops'[q], Content', path')
    <3>1. CASE q = n
      BY <1>3, <1>4, <1>7, <3>1
    <3>2. CASE q # n
      <4>1. q \in DOMAIN ops /\ ops'[q] = ops[q]
        BY <1>3, <3>2
      <4>2. QED
        BY <1>1, <1>3, <1>5, <1>7, <4>1 DEF JobsInv
    <3>3. QED
      BY <3>1, <3>2
  <2>2. QED
    BY <2>1 DEF JobsInv
<1>12. QED
  BY <1>9, <1>10, <1>11

\* A death leaves nobody at work and the file as it is.
LEMMA CrashKeepsLog ==
  ASSUME OneProcess, LogInv, NEW p \in Procs, Crash(p)
  PROVE  /\ AloneInv' /\ LinesInv' /\ JobsInv' /\ Content' = Content /\ (Gone' <=> Gone)
         /\ DOMAIN ops' = DOMAIN ops
         /\ \A q \in DOMAIN ops : /\ ops'[q].kind = ops[q].kind /\ ops'[q].gone = ops[q].gone
                                  /\ ops[q].at \in Ended => ops'[q].at = ops[q].at
                                  /\ ops[q].at \notin Ended => ops'[q].at = "dead"
<1>1. /\ SInv /\ TypesInv /\ AloneInv /\ LinesInv /\ JobsInv
  BY LogParts
<1>2. /\ Stops /\ path' = path
      /\ \A q \in DOMAIN ops : ops'[q].at = IF ops[q].proc = p /\ ~Settled(q) THEN "dead" ELSE ops[q].at
  BY <1>1, CrashStops
<1>3. /\ DOMAIN ops' = DOMAIN ops /\ inodes' = inodes
      /\ \A q \in DOMAIN ops : ops'[q].kind = ops[q].kind
  BY <1>1, <1>2, StopsKeep DEF Kept, Stops
<1>4. \A q \in DOMAIN ops : /\ ops[q].at \in Ended => ops'[q].at = ops[q].at
                            /\ ops[q].at \notin Ended => ops'[q].at = "dead"
  <2>1. \A q \in DOMAIN ops : ops[q].proc = p
    BY <1>1, OpTyped DEF OneProcess
  <2>2. QED
    BY <1>1, <1>2, <2>1, EndedIsSettled
<1>5. Content' = Content
  BY <1>2, <1>3 DEF Content
<1>6. \A q \in DOMAIN ops : ops'[q].gone = ops[q].gone
  <2>1. ASSUME NEW q \in DOMAIN ops
        PROVE  ops'[q].gone = ops[q].gone
    <3>1. ops'[q] = (IF ops[q].proc = p /\ ~Settled(q) THEN [ops[q] EXCEPT !.at = "dead"] ELSE ops[q])
      BY <2>1 DEF Crash
    <3>2. ops[q] \in OpRecs(Len(inodes))
      BY <1>1, OpTyped
    <3>3. [ops[q] EXCEPT !.at = "dead"].gone = ops[q].gone
      BY <3>2, RecFields
    <3>4. QED
      BY <3>1, <3>3
  <2>2. QED
    BY <2>1
<1>7. Gone' <=> Gone
  <2>1. \A q \in DOMAIN ops : Is(q, "delete", "done")' <=> Is(q, "delete", "done")
    BY <1>3, <1>4 DEF Is, Ended
  <2>2. QED
    BY <1>3, <2>1 DEF Gone
<1>8. \A q \in DOMAIN ops : ops'[q].at \in Ended /\ ~Working(q)' /\ ops'[q].at # "start"
  BY <1>4 DEF Working, Ended
<1>9. AloneInv' /\ JobsInv'
  BY <1>3, <1>8 DEF AloneInv, JobsInv
<1>10. LinesInv'
  <2> SUFFICES ASSUME ~Gone PROVE LinesInv'
    BY <1>7 DEF LinesInv
  <2>1. Shaped(Content') /\ EntryPlaces(Content') = EntryPlaces(Content)
    BY <1>1, <1>5 DEF LinesInv
  <2>2. ASSUME NEW i \in EntryPlaces(Content')
        PROVE  LET x == Content'[i][1] IN
                 x \in DOMAIN ops' /\ ops'[x].kind = "append" /\ ops'[x].at \in {"write", "done", "failed", "dead"}
    <3> DEFINE x == Content[i][1]
    <3>1. x \in DOMAIN ops /\ ops[x].kind = "append" /\ ops[x].at \in {"write", "done", "failed", "dead"}
      BY <1>1, <2>1, <2>2 DEF LinesInv
    <3> HIDE DEF x
    <3>2. x \in DOMAIN ops' /\ ops'[x].kind = "append" /\ ops'[x].at \in {"write", "done", "failed", "dead"}
      BY <1>3, <1>4, <3>1
    <3>3. QED
      BY <1>5, <3>2 DEF x
  <2>3. ASSUME NEW q \in DOMAIN ops', ops'[q].kind # "create" \/ ops'[q].at = "done"
        PROVE  Len(Content') >= 2
    <3>1. ops[q].kind # "create" \/ ops[q].at = "done"
      BY <1>3, <1>4, <2>3 DEF Ended
    <3>2. QED
      BY <1>1, <1>3, <1>5, <2>3, <3>1 DEF LinesInv
  <2>4. QED
    BY <2>1, <2>2, <2>3 DEF LinesInv
<1>11. QED
  BY <1>3, <1>4, <1>5, <1>6, <1>7, <1>9, <1>10

\* It holds at first.
LEMMA LogInit == Init => LogInv
<1> SUFFICES ASSUME Init PROVE LogInv
  OBVIOUS
<1>1. ops = <<>> /\ DOMAIN ops = {} /\ path = 0 /\ Content = <<>> /\ DOMAIN <<>> = {}
  BY DEF Init, Content
<1>2. AloneInv /\ JobsInv
  BY <1>1 DEF AloneInv, JobsInv
<1>3. LinesInv
  BY <1>1 DEF LinesInv, Shaped, EntryPlaces
<1>4. QED
  BY <1>2, <1>3, InitHolds DEF LogInv

\* Every step keeps it.
LEMMA LogKept ==
  ASSUME OneProcess, LogInv, [Next]_vars
  PROVE  LogInv'
<1>1. IInv'
  BY LogParts, NextKeeps
<1>2. ASSUME NEW p \in Procs, Crash(p)
      PROVE  LogInv'
  BY <1>1, <1>2, CrashKeepsLog DEF LogInv
<1>3. ASSUME NEW p \in Procs, NEW kind \in Kinds, Call(p, kind)
      PROVE  LogInv'
  BY <1>1, <1>3, CallKeepsLog DEF LogInv
<1>4. ASSUME NEW o \in DOMAIN ops, Step(o)
      PROVE  LogInv'
  <2>1. CASE Unlink(o)
    <3>1. DOMAIN ops' = DOMAIN ops /\ ops'[o].kind = "delete" /\ ops'[o].at = "done"
      <4>1. Stops /\ ops[o].kind = "delete" /\ ops'[o].at = "done"
        BY <2>1, LogParts, UnlinkStops
      <4>2. Kept
        BY <4>1, LogParts, StopsKeep
      <4>3. QED
        BY <4>1, <4>2 DEF Kept
    <3>2. Gone'
      BY <3>1 DEF Gone, Is
    <3>3. QED
      BY <1>1, <3>2 DEF LogInv, AloneInv, LinesInv, JobsInv
  <2>2. CASE ~Unlink(o)
    BY <1>1, <1>4, <2>2, StepKeepsLog DEF LogInv
  <2>3. QED
    BY <2>1, <2>2
<1>5. CASE UNCHANGED vars
  <2>1. ops' = ops /\ path' = path /\ inodes' = inodes
    BY <1>5 DEF vars
  <2>2. AloneInv /\ LinesInv /\ JobsInv
    BY LogParts
  <2>3. Content' = Content /\ (Gone' <=> Gone)
    BY <2>1 DEF Content, Gone, Is
  <2>4. AloneInv' /\ LinesInv' /\ JobsInv'
    BY <2>1, <2>2, <2>3 DEF AloneInv, LinesInv, JobsInv, Working
  <2>5. QED
    BY <1>1, <2>4 DEF LogInv
<1>6. QED
  BY <1>2, <1>3, <1>4, <1>5 DEF Next

-----------------------------------------------------------------------------
(* The log that is read. *)

Refused == {o \in DOMAIN ops : Is(o, "append", "failed")}

\* What a reader finds, in terms of the entries the file holds.
Reads ==
  /\ Gone => Readable = <<>>
  /\ ~Gone => \A n : Holds(n, Len(Content)) => Readable = [k \in 1..n |-> Content[3 * k + 1][1]]

LEMMA LogReads == LogInv => Reads
<1> SUFFICES ASSUME LogInv PROVE Reads
  OBVIOUS
<1>1. TypesInv /\ LinesInv
  BY LogParts
<1>2. Gone => Readable = <<>>
  BY DEF Readable, Deleted, Gone
<1>3. ASSUME ~Gone, NEW n, Holds(n, Len(Content))
      PROVE  Readable = [k \in 1..n |-> Content[3 * k + 1][1]]
  BY <1>1, <1>3, ReadableIs DEF LinesInv
<1>4. QED
  BY <1>2, <1>3 DEF Reads

\* The same entries are read as the same log.
LEMMA SameRead ==
  ASSUME Reads, Reads', ~Gone, ~Gone', SameEntries(Content, Content')
  PROVE  Readable' = Readable
<1>1. PICK n : /\ Holds(n, Len(Content)) /\ Holds(n, Len(Content'))
               /\ \A k \in 1..n : Content[3 * k + 1][1] = Content'[3 * k + 1][1]
  BY DEF SameEntries
<1>2. Readable = [k \in 1..n |-> Content[3 * k + 1][1]]
  BY <1>1 DEF Reads
<1>3. Readable' = [k \in 1..n |-> Content'[3 * k + 1][1]]
  BY <1>1 DEF Reads, Holds
<1>4. QED
  BY <1>1, <1>2, <1>3

\* So is the same file.
LEMMA QuietRead ==
  ASSUME LogInv, Reads, Reads', Content' = Content, Gone' <=> Gone
  PROVE  Readable' = Readable
<1>1. CASE Gone
  BY <1>1 DEF Reads
<1>2. CASE ~Gone
  <2>1. SameEntries(Content, Content)
    BY LogParts, ContentTyped, SameSelf
  <2>2. QED
    BY <1>2, <2>1, SameRead
<1>3. QED
  BY <1>1, <1>2

\* Who is read wrote an entry, which is whole.
LEMMA ReadIsWritten ==
  ASSUME LogInv, Reads, ~Gone
  PROVE  /\ Readable \in Seq(Nat) /\ DOMAIN Readable = 1..Len(Readable)
         /\ \A j \in DOMAIN Readable : /\ Readable[j] \in DOMAIN ops
                                       /\ ops[Readable[j]].at \in {"write", "done", "failed", "dead"}
         /\ \A i \in EntryPlaces(Content) : i + 1 \in DOMAIN Content =>
              \E j \in DOMAIN Readable : Readable[j] = Content[i][1]
<1>1. TypesInv /\ LinesInv /\ Content \in Seq(Tokens) /\ Len(Content) \in Nat /\ DOMAIN Content = 1..Len(Content)
  BY LogParts, ContentTyped
<1>2. PICK n : Holds(n, Len(Content))
  BY <1>1, SomeHeld
<1>3. Readable = [k \in 1..n |-> Content[3 * k + 1][1]] /\ n \in Nat
  BY <1>2 DEF Reads, Holds
<1>4. ASSUME NEW k \in 1..n
      PROVE  3 * k + 1 \in EntryPlaces(Content)
  <2>1. 3 * k + 1 \in 1..Len(Content) /\ 3 * k + 1 > 3 /\ (3 * k + 1) % 3 = 1
    BY <1>1, <1>2, <1>3 DEF Holds
  <2>2. QED
    BY <1>1, <2>1 DEF EntryPlaces
<1>5. ASSUME NEW k \in 1..n
      PROVE  /\ Readable[k] \in Nat /\ Readable[k] \in DOMAIN ops
             /\ ops[Readable[k]].at \in {"write", "done", "failed", "dead"}
  <2> DEFINE x == Content[3 * k + 1][1]
  <2>1. x \in DOMAIN ops /\ ops[x].at \in {"write", "done", "failed", "dead"}
    BY <1>1, <1>4 DEF LinesInv
  <2>2. Readable[k] = x
    BY <1>3
  <2> HIDE DEF x
  <2>3. QED
    BY <1>1, <2>1, <2>2, Typed
<1>6. Readable \in Seq(Nat) /\ DOMAIN Readable = 1..n /\ Len(Readable) = n
  <2>1. DOMAIN Readable = 1..n
    BY <1>3
  <2>2. Readable = [k \in 1..n |-> Readable[k]]
    BY <1>3
  <2> HIDE DEF Readable
  <2>3. QED
    BY <1>3, <1>5, <2>1, <2>2
<1>7. ASSUME NEW i \in EntryPlaces(Content), i + 1 \in DOMAIN Content
      PROVE  \E j \in DOMAIN Readable : Readable[j] = Content[i][1]
  <2>1. i \in Nat /\ i > 3 /\ i % 3 = 1 /\ i + 1 <= Len(Content)
    BY <1>1, <1>7 DEF EntryPlaces
  <2>2. i - 1 \in Nat /\ (i - 1) % 3 = 0
    BY <2>1
  <2>3. PICK k \in Nat : i - 1 = 3 * k
    BY <2>2, Thrice
  <2>4. k \in 1..n /\ i = 3 * k + 1
    BY <1>1, <1>2, <1>3, <2>1, <2>3 DEF Holds
  <2>5. QED
    BY <1>3, <1>6, <2>4
<1>8. QED
  BY <1>5, <1>6, <1>7

\* One more entry is read at the end.
LEMMA MoreRead ==
  ASSUME LogInv, Reads, Reads', ~Gone, ~Gone', NEW o \in DOMAIN ops, OneMore(Content, Content', o)
  PROVE  Readable' = Append(Readable, o) /\ \A i \in DOMAIN Readable : Readable[i] < o
<1>1. PICK n : /\ Holds(n, Len(Content)) /\ Holds(n + 1, Len(Content'))
               /\ \A k \in 1..n : /\ Content[3 * k + 1][1] = Content'[3 * k + 1][1]
                                  /\ Content[3 * k + 1][1] < o
               /\ Content'[3 * n + 4][1] = o
  BY DEF OneMore
<1>2. Readable = [k \in 1..n |-> Content[3 * k + 1][1]] /\ n \in Nat
  BY <1>1 DEF Reads, Holds
<1>3. Readable' = [k \in 1..(n + 1) |-> Content'[3 * k + 1][1]]
  BY <1>1 DEF Reads, Holds
<1>4. Readable \in Seq(Nat) /\ Len(Readable) = n
  <2>1. Readable \in Seq(Nat) /\ DOMAIN Readable = 1..Len(Readable) /\ DOMAIN Readable = 1..n
    BY <1>2, ReadIsWritten
  <2> HIDE DEF Readable
  <2>2. QED
    BY <1>2, <2>1
<1>5. o \in Nat
  BY LogParts, Typed
<1> DEFINE s == Readable
           d == Readable'
<1>6. /\ s \in Seq(Nat) /\ Len(s) = n /\ DOMAIN d = 1..(n + 1) /\ DOMAIN s = 1..n
      /\ \A k \in 1..n : d[k] = s[k] /\ s[k] < o
      /\ d[n + 1] = o /\ d = [k \in 1..(n + 1) |-> d[k]]
  <2>1. 3 * (n + 1) + 1 = 3 * n + 4 /\ n + 1 \in 1..(n + 1) /\ \A k \in 1..n : k \in 1..(n + 1)
    BY <1>2
  <2>2. d[n + 1] = o
    BY <1>1, <1>3, <2>1
  <2>3. \A k \in 1..n : d[k] = s[k] /\ s[k] < o
    BY <1>1, <1>2, <1>3, <2>1
  <2>4. DOMAIN d = 1..(n + 1) /\ DOMAIN s = 1..n /\ d = [k \in 1..(n + 1) |-> d[k]]
    BY <1>2, <1>3
  <2>5. QED
    BY <1>4, <2>2, <2>3, <2>4
<1> HIDE DEF s, d
<1>7. d = Append(s, o)
  <2> DEFINE a == Append(s, o)
  <2>1. a \in Seq(Nat) /\ Len(a) = Len(s) + 1 /\ a[Len(s) + 1] = o /\ \A k \in 1..Len(s) : a[k] = s[k]
    BY <1>5, <1>6
  <2> HIDE DEF a
  <2>2. DOMAIN a = 1..Len(a) /\ a = [k \in 1..Len(a) |-> a[k]]
    BY ONLY <2>1
  <2>3. ASSUME NEW k \in 1..(n + 1)
        PROVE  a[k] = d[k]
    <3>1. k \in 1..n \/ k = n + 1
      BY <1>2, <2>3
    <3>2. QED
      BY <1>6, <2>1, <3>1
  <2>4. DOMAIN a = 1..(n + 1)
    BY <1>6, <2>1, <2>2
  <2>5. d = a
    BY <1>2, <1>6, <2>1, <2>2, <2>3
  <2>6. QED
    BY <2>5 DEF a
<1>8. \A i \in DOMAIN s : s[i] < o
  BY <1>6
<1>9. QED
  BY <1>7, <1>8 DEF s, d

-----------------------------------------------------------------------------
(* The refinement. *)

\* How one operation's step changes who is acknowledged and who refused.
LEMMA MovesAcks ==
  ASSUME TypesInv, NEW o \in DOMAIN ops, NEW r, Moves(o, r)
  PROVE  /\ o \in 1..MaxOps /\ o \notin Refused /\ o \notin Acknowledged
         /\ Refused' = Refused \cup (IF ops[o].kind = "append" /\ r.at = "failed" THEN {o} ELSE {})
         /\ Acknowledged' \in {Acknowledged, Acknowledged \cup {o}}
         /\ ops[o].kind # "append" \/ r.at # "done" => Acknowledged' = Acknowledged
<1>1. /\ ops'[o] = r /\ (\A q \in DOMAIN ops : q # o => ops'[q] = ops[q]) /\ ops[o].at \notin Ended
      /\ DOMAIN ops' = DOMAIN ops /\ r.kind = ops[o].kind
  BY MovesKeep DEF Kept, Moves
<1>2. o \in 1..MaxOps
  BY Typed
<1>3. o \notin Refused /\ o \notin Acknowledged
  BY <1>1 DEF Refused, Acknowledged, Is, Ended
<1>4. \A q \in DOMAIN ops : q # o => /\ q \in Refused' <=> q \in Refused
                                     /\ q \in Acknowledged' <=> q \in Acknowledged
  BY <1>1 DEF Refused, Acknowledged, Is
<1>5. /\ o \in Refused' <=> ops[o].kind = "append" /\ r.at = "failed"
      /\ o \in Acknowledged' => ops[o].kind = "append" /\ r.at = "done"
  BY <1>1 DEF Refused, Acknowledged, Is
<1>6. /\ Refused \subseteq DOMAIN ops /\ Refused' \subseteq DOMAIN ops
      /\ Acknowledged \subseteq DOMAIN ops /\ Acknowledged' \subseteq DOMAIN ops
  BY <1>1 DEF Refused, Acknowledged
<1>7. Refused' = Refused \cup (IF ops[o].kind = "append" /\ r.at = "failed" THEN {o} ELSE {})
  BY <1>3, <1>4, <1>5, <1>6
<1>8. Acknowledged' = Acknowledged \/ Acknowledged' = Acknowledged \cup {o}
  BY <1>3, <1>4, <1>6
<1>9. o \notin Acknowledged' => Acknowledged' = Acknowledged
  BY <1>3, <1>4, <1>6
<1>10. QED
  BY <1>2, <1>3, <1>5, <1>7, <1>8, <1>9

\* The steps of the log, in terms of what the session shows.
LEMMA Deletes ==
  ASSUME Readable' = <<>>, Acknowledged' = {}, Gone', Refused' = Refused
  PROVE  Promise!Next
<1>1. Promise!Delete
  BY DEF Promise!Delete, Gone, Deleted, Refused
<1>2. QED
  BY <1>1 DEF Promise!Next

LEMMA Stores ==
  ASSUME NEW o \in 1..MaxOps, ~Gone, ~Gone', o \notin Refused, \A i \in DOMAIN Readable : Readable[i] < o,
         Readable' = Append(Readable, o),
         \/ Acknowledged' \in {Acknowledged, Acknowledged \cup {o}} /\ Refused' = Refused
         \/ Acknowledged' = Acknowledged /\ Refused' = Refused \cup {o}
  PROVE  Promise!Next
<1>1. Promise!Store(o)
  BY DEF Promise!Store, Gone, Deleted, Refused
<1>2. QED
  BY <1>1 DEF Promise!Next

LEMMA Acks ==
  ASSUME NEW o \in 1..MaxOps, Gone' <=> Gone, o \notin Refused, Gone \/ \E i \in DOMAIN Readable : Readable[i] = o,
         Readable' = Readable, Acknowledged' = Acknowledged \cup {o}, Refused' = Refused
  PROVE  Promise!Next
<1>1. Promise!Ack(o)
  BY DEF Promise!Ack, Gone, Deleted, Refused, Promise!ToSet
<1>2. QED
  BY <1>1 DEF Promise!Next

LEMMA Refuses ==
  ASSUME NEW o \in 1..MaxOps, Gone' <=> Gone, o \notin Acknowledged,
         Readable' = Readable, Acknowledged' = Acknowledged, Refused' = Refused \cup {o}
  PROVE  Promise!Next
<1>1. Promise!Refuse(o)
  BY DEF Promise!Refuse, Gone, Deleted, Refused, Promise!ToSet
<1>2. QED
  BY <1>1 DEF Promise!Next

LEMMA Stutters ==
  ASSUME Gone' <=> Gone, Readable' = Readable, Acknowledged' = Acknowledged, Refused' = Refused
  PROVE  UNCHANGED Promise!logVars
  BY DEF Promise!logVars, Gone, Deleted, Refused

\* Every step of an operation but a delete's.
LEMMA StepMaps ==
  ASSUME LogInv, Reads, Reads', NEW o \in DOMAIN ops, Step(o), ~Unlink(o)
  PROVE  [Promise!Next]_(Promise!logVars)
<1>1. SInv /\ TypesInv /\ StepsInv
  BY LogParts
<1>2. PICK r : Moves(o, r)
  BY <1>1, StepEffect, EffectMoves
<1>3. /\ o \in 1..MaxOps /\ o \notin Refused /\ o \notin Acknowledged
      /\ Refused' = Refused \cup (IF ops[o].kind = "append" /\ r.at = "failed" THEN {o} ELSE {})
      /\ Acknowledged' \in {Acknowledged, Acknowledged \cup {o}}
      /\ ops[o].kind # "append" \/ r.at # "done" => Acknowledged' = Acknowledged
  BY <1>1, <1>2, MovesAcks
<1>4. ops'[o] = r /\ ops[o].at \notin Ended
  BY <1>1, <1>2, MovesKeep
<1>5. Gone' <=> Gone
  BY <1>1, <1>2, GoneMoves
<1>6. ASSUME Readable' = Readable,
             ops[o].kind = "append" /\ r.at = "done" => Gone \/ \E i \in DOMAIN Readable : Readable[i] = o
      PROVE  [Promise!Next]_(Promise!logVars)
  <2>1. CASE ops[o].kind = "append" /\ r.at = "done"
    <3>1. Refused' = Refused
      BY <1>3, <2>1
    <3>2. CASE Acknowledged' = Acknowledged
      BY <1>5, <1>6, <3>1, <3>2, Stutters
    <3>3. CASE Acknowledged' = Acknowledged \cup {o}
      BY <1>3, <1>5, <1>6, <2>1, <3>1, <3>3, Acks
    <3>4. QED
      BY <1>3, <3>2, <3>3
  <2>2. CASE ops[o].kind = "append" /\ r.at = "failed"
    <3>1. Refused' = Refused \cup {o} /\ Acknowledged' = Acknowledged
      BY <1>3, <2>2
    <3>2. QED
      BY <1>3, <1>5, <1>6, <2>2, <3>1, Refuses
  <2>3. CASE ops[o].kind # "append" \/ r.at \notin {"done", "failed"}
    <3>1. Refused' = Refused /\ Acknowledged' = Acknowledged
      BY <1>3, <2>3
    <3>2. QED
      BY <1>5, <1>6, <3>1, Stutters
  <2>4. QED
    BY <2>1, <2>2, <2>3
<1>7. CASE Gone
  <2>1. Readable = <<>> /\ Readable' = <<>> /\ DOMAIN <<>> = {}
    BY <1>5, <1>7 DEF Reads
  <2>2. QED
    BY <1>6, <1>7, <2>1
<1>8. CASE ~Gone
  <2>1. Turned(o)
    BY <1>1, <1>8, StepTurns
  <2>2. CASE /\ SameEntries(Content, Content')
             /\ ops[o].kind = "append" /\ ops'[o].at = "done" =>
                  \E i \in EntryPlaces(Content) : i + 1 \in DOMAIN Content /\ Content[i][1] = o
    <3>1. Readable' = Readable
      BY <1>5, <1>8, <2>2, SameRead
    <3>2. ops[o].kind = "append" /\ r.at = "done" => \E i \in DOMAIN Readable : Readable[i] = o
      BY <1>4, <1>8, <2>2, ReadIsWritten
    <3>3. QED
      BY <1>6, <3>1, <3>2
  <2>3. CASE OneMore(Content, Content', o) /\ ops[o].kind = "append" /\ ops'[o].at \in {"write", "done", "failed"}
    <3>1. Readable' = Append(Readable, o) /\ \A i \in DOMAIN Readable : Readable[i] < o
      BY <1>5, <1>8, <2>3, MoreRead
    <3>2. \/ Acknowledged' \in {Acknowledged, Acknowledged \cup {o}} /\ Refused' = Refused
          \/ Acknowledged' = Acknowledged /\ Refused' = Refused \cup {o}
      BY <1>3, <1>4, <2>3
    <3>3. QED
      BY <1>3, <1>5, <1>8, <3>1, <3>2, Stores
  <2>4. QED
    BY <2>1, <2>2, <2>3 DEF Turned
<1>9. QED
  BY <1>7, <1>8

\* Every step.
LEMMA NextMaps ==
  ASSUME OneProcess, LogInv, Reads, Reads', [Next]_vars
  PROVE  [Promise!Next]_(Promise!logVars)
<1>1. TypesInv
  BY LogParts
<1>2. ASSUME NEW p \in Procs, Crash(p)
      PROVE  [Promise!Next]_(Promise!logVars)
  <2>1. /\ Content' = Content /\ (Gone' <=> Gone) /\ DOMAIN ops' = DOMAIN ops
        /\ \A q \in DOMAIN ops : /\ ops'[q].kind = ops[q].kind /\ ops'[q].gone = ops[q].gone
                                 /\ ops[q].at \in Ended => ops'[q].at = ops[q].at
                                 /\ ops[q].at \notin Ended => ops'[q].at = "dead"
    BY <1>2, CrashKeepsLog
  <2>2. Refused' = Refused
    BY <2>1 DEF Refused, Is, Ended
  <2>3. Acknowledged' = Acknowledged
    BY <2>1 DEF Acknowledged, Is, Ended
  <2>4. QED
    BY <2>1, <2>2, <2>3, QuietRead, Stutters
<1>3. ASSUME NEW p \in Procs, NEW kind \in Kinds, Call(p, kind)
      PROVE  [Promise!Next]_(Promise!logVars)
  <2>1. PICK n, r : Added(p, kind, n, r)
    BY <1>1, <1>3, CallAdds
  <2>2. /\ DOMAIN ops' = DOMAIN ops \cup {n} /\ (\A q \in DOMAIN ops : ops'[q] = ops[q])
        /\ ops'[n].at = "start" /\ inodes' = inodes /\ path' = path
    BY <2>1 DEF Added
  <2>3. Refused' = Refused
    BY <2>2 DEF Refused, Is
  <2>4. Acknowledged' = Acknowledged
    BY <2>2 DEF Acknowledged, Is
  <2>5. Content' = Content /\ (Gone' <=> Gone)
    BY <1>1, <1>3, <2>2, CallGone DEF Content
  <2>6. QED
    BY <2>3, <2>4, <2>5, QuietRead, Stutters
<1>4. ASSUME NEW o \in DOMAIN ops, Unlink(o)
      PROVE  [Promise!Next]_(Promise!logVars)
  <2>1. /\ Stops /\ ops[o].kind = "delete" /\ ops'[o].at = "done" /\ ops[o].at = "start"
        /\ \A q \in DOMAIN ops : q # o => ops'[q].at = ops[q].at
    BY <1>1, <1>4, UnlinkStops
  <2>2. DOMAIN ops' = DOMAIN ops /\ \A q \in DOMAIN ops : ops'[q].kind = ops[q].kind
    BY <1>1, <2>1, StopsKeep DEF Kept
  <2>3. Gone'
    BY <2>1, <2>2 DEF Gone, Is
  <2>4. Readable' = <<>>
    BY <2>3 DEF Reads
  <2>5. Refused' = Refused
    BY <2>1, <2>2 DEF Refused, Is
  <2>6. Acknowledged' = {}
    <3>1. ASSUME NEW q \in DOMAIN ops, Is(q, "append", "done")'
          PROVE  ops'[q].gone
      <4>1. q # o /\ ops[q].at = "done"
        BY <2>1, <2>2, <3>1 DEF Is
      <4>2. ops'[q] = [ops[q] EXCEPT !.gone = TRUE]
        BY <1>4, <4>1 DEF Unlink
      <4>3. ops[q] \in OpRecs(Len(inodes))
        BY <1>1, OpTyped
      <4>4. QED
        BY <4>2, <4>3 DEF OpRecs
    <3>2. QED
      BY <2>2, <3>1 DEF Acknowledged
  <2>7. QED
    BY <2>3, <2>4, <2>5, <2>6, Deletes
<1>5. ASSUME NEW o \in DOMAIN ops, Step(o), ~Unlink(o)
      PROVE  [Promise!Next]_(Promise!logVars)
  BY <1>5, StepMaps
<1>6. CASE UNCHANGED vars
  <2>1. ops' = ops /\ path' = path /\ inodes' = inodes
    BY <1>6 DEF vars
  <2>2. /\ Content' = Content /\ (Gone' <=> Gone)
        /\ Refused' = Refused /\ Acknowledged' = Acknowledged
    BY <2>1 DEF Content, Gone, Is, Refused, Acknowledged
  <2>3. QED
    BY <2>2, QuietRead, Stutters
<1>7. QED
  BY <1>2, <1>3, <1>4, <1>5, <1>6 DEF Next

\* The session file is the log its users were promised: what a reader finds only
\* grows, in the order of the calls, one entry per append, over short writes, deaths
\* and repairs of torn tails; an append is reported done only when its entry can be
\* read, and one that was reported failed and is not there by then never comes to be
\* read, though a death or a throw left half of it (append, #prepareAppend, appendLine
\* and entries, jsonl-store.ts:203-226, 288-314, 478-519 and 592-606; one process, as
\* another's queue is not waited for).
THEOREM StoreImplementsEntryLog ==
  ASSUME OneProcess
  PROVE  Spec => ImplementsEntryLog
<1>1. Init => LogInv
  BY LogInit
<1>2. LogInv /\ [Next]_vars => LogInv'
  BY LogKept
<1>3. Init => Promise!Init
  <2> SUFFICES ASSUME Init PROVE Promise!Init
    OBVIOUS
  <2>1. ops = <<>> /\ DOMAIN ops = {} /\ path = 0
    BY DEF Init
  <2>2. Content = <<>> /\ ~Gone /\ Len(<<>>) = 0
    BY <2>1 DEF Content, Gone
  <2>3. Holds(0, Len(Content))
    BY <2>2 DEF Holds
  <2>4. Reads
    BY LogInit, LogReads
  <2>5. Readable = [k \in 1..0 |-> Content[3 * k + 1][1]]
    BY <2>2, <2>3, <2>4 DEF Reads
  <2>6. Readable = <<>>
    BY <2>5
  <2>7. QED
    BY <2>1, <2>2, <2>6 DEF Promise!Init, Acknowledged, Deleted, Gone
<1>4. LogInv => Reads
  BY LogReads
<1>5. LogInv /\ Reads /\ Reads' /\ [Next]_vars => [Promise!Next]_(Promise!logVars)
  BY NextMaps
<1>6. QED
  BY <1>1, <1>2, <1>3, <1>4, <1>5, PTL DEF Spec, ImplementsEntryLog, Promise!Spec
=============================================================================
