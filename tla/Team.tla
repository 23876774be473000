-------------------------------- MODULE Team --------------------------------
(***************************************************************************)
(* One team of agents and its TeamManager (packages/cli/src/team.ts): the  *)
(* plan and its repair, the workers that run members in worktrees of their *)
(* own, the shared ceiling, the capture of each member's patch, the        *)
(* record on disk, recovery after a death of the process, merge, discard.  *)
(*                                                                         *)
(* Memory and disk are apart: "record" is what the process holds, "saved"  *)
(* the file #persist wrote last, and a death leaves the disk only.  What   *)
(* git does to the disk and what the program concludes from it afterwards  *)
(* are two steps, because the process may die in between.                  *)
(*                                                                         *)
(* A scope is its literal prefix, a path as a sequence of names; <<>> is   *)
(* "anywhere".  A turn costs one unit or nothing (it could not be priced). *)
(* git refuses a patch that is in the tree already or that is no longer on *)
(* disk, and may refuse any other, as the user edits the tree too.         *)
(*                                                                         *)
(* Left out: texts, roles, listeners, a record that cannot be written (a   *)
(* patch that cannot be is in), and a second living process, which merge   *)
(* and discard do not look for.                                            *)
(***************************************************************************)
EXTENDS Integers, Sequences, FiniteSets, SequencesExt, FiniteSetsExt

CONSTANTS
  Plans,       \* what the supervisor may answer: sequences of sets of scopes
  MinMembers,  \* fewest subtasks of a plan
  MaxMembers,  \* most subtasks of a plan
  Limits,      \* values of the concurrency option
  Ceiling,     \* maxCostUsd, in turns; 0 disables it
  MaxTurns,    \* maxTurnsPerMember
  Prices,      \* what a turn may cost: 1, or 0 when nobody can price it
  Faults,      \* what may go wrong
  MaxCalls,    \* bound: merges and discards
  MaxProcs     \* bound: processes that hold the record

ASSUME PlansAssumption ==
  \A p \in Plans : p \in Seq(Range(p)) /\ \A i \in DOMAIN p : IsFiniteSet(p[i])
ASSUME NumbersAssumption ==
  /\ MinMembers \in Nat \ {0} /\ MaxMembers \in Nat \ {0} /\ MaxTurns \in Nat \ {0}
  /\ Limits \subseteq Nat \ {0} /\ Ceiling \in Nat /\ MaxCalls \in Nat /\ MaxProcs \in Nat
  /\ Prices \subseteq {0, 1}
ASSUME FaultsAssumption == Faults \subseteq {"crash", "git", "throw", "write"}

VARIABLES
  record,    \* the StoredTeam of this process
  saved,     \* the record's file
  plan,      \* the last plan that parsed
  run,       \* start and #dispatch: where they are and the LiveTeam
  work,      \* per member, where #runMember is, and how it went
  agents,    \* per member, its agent
  worktree,  \* per member, its worktree on disk
  patches,   \* members whose patch file is on disk
  landed,    \* members whose patch is in the user's tree
  recovery,  \* #recovery: where #runRecovery is
  calls,     \* merges and discards
  proc,      \* processes so far; 0 before the first team
  made,      \* ghost: members whose agent changed files while awaited
  unsaved,   \* ghost: members whose patch git could not give or the disk not take
  unwanted,  \* ghost: members the user asked to discard
  blind      \* ghost: members whose worktree went before the record said where the patch is

disk   == <<worktree, patches, landed>>
ghosts == <<made, unsaved, unwanted, blind>>
vars   == <<record, saved, plan, run, work, agents, disk, recovery, calls, proc, ghosts>>

Members == 1 .. MaxMembers

-----------------------------------------------------------------------------
(* The plan. *)

ScopesOverlap(a, b) == IsPrefix(a, b) \/ IsPrefix(b, a)
Collide(s, t) == \E a \in s, b \in t : ScopesOverlap(a, b)

\* validateTeamPlan; an unknown role alone blocks nothing.
Valid(p) ==
  /\ Len(p) \in MinMembers .. MaxMembers
  /\ \A i \in DOMAIN p : p[i] # {}
  /\ \A i, j \in DOMAIN p : i < j => ~Collide(p[i], p[j])

\* Mutant: the roots are not looked up, only the direct overlaps are joined.
JoinDirectly(parent, i, j) == [parent EXCEPT ![j] = i]

\* The union-find of repairTeamPlan.
Find(parent, i) ==
  LET root[k \in DOMAIN parent] == IF parent[k] = k THEN k ELSE root[parent[k]] IN root[i]

Join(parent, i, j) ==
  LET a == Find(parent, i)  b == Find(parent, j) IN
  [parent EXCEPT ![IF a < b THEN b ELSE a] = IF a < b THEN a ELSE b]

\* Every pair in turn, the smaller index outermost: those of i, then those of all.
JoinRow(claims, parent, i) ==
  LET cell[j \in 0 .. Len(claims)] ==
        CASE j = 0 -> parent
          [] i < j /\ Collide(claims[i], claims[j]) -> Join(cell[j - 1], i, j)
          [] OTHER -> cell[j - 1]
  IN cell[Len(claims)]

Roots(claims) ==
  LET rows[i \in 0 .. Len(claims)] ==
        IF i = 0 THEN [k \in DOMAIN claims |-> k] ELSE JoinRow(claims, rows[i - 1], i)
      parents == rows[Len(claims)]
  IN [i \in DOMAIN claims |-> Find(parents, i)]

\* The keys of the map of groups, in the order they were met.
Firsts(root) ==
  LET upTo[n \in 0 .. Len(root)] ==
        CASE n = 0 -> <<>>
          [] n > 0 /\ root[n] = n -> Append(upTo[n - 1], n)
          [] OTHER -> upTo[n - 1]
  IN upTo[Len(root)]

\* Subtasks become members as they are ...
AsWritten(p) == [i \in 1 .. Len(p) |-> [parts |-> {i}, scopes |-> p[i]]]

\* ... or colliding ones are merged, and the tail of a long plan is folded.
Claims(p) == [i \in DOMAIN p |-> IF p[i] = {} THEN {<<>>} ELSE p[i]]

Merged(p) ==
  LET root   == Roots(Claims(p))
      firsts == Firsts(root)
      groups == [k \in DOMAIN firsts |-> {i \in DOMAIN p : root[i] = firsts[k]}]
      tail   == UNION {groups[k] : k \in {n \in DOMAIN groups : n >= MaxMembers}}
  IN IF Len(groups) > MaxMembers
     THEN Append(SubSeq(groups, 1, MaxMembers - 1), tail) ELSE groups

RepairTeamPlan(p) ==
  LET merged == Merged(p) IN
  [k \in 1 .. Len(merged) |->
     [parts |-> merged[k], scopes |-> UNION {Claims(p)[i] : i \in merged[k]}]]

Queued(m) ==
  [parts |-> m.parts, scopes |-> m.scopes, status |-> "queued", dir |-> FALSE, patch |-> FALSE,
   merged |-> FALSE, discarded |-> FALSE, cost |-> 0, turns |-> 0]

-----------------------------------------------------------------------------
(* The record. *)

NoTeam == [status |-> "none", members |-> <<>>, owed |-> FALSE, owner |-> 0]
NoRun  == [at |-> "no", attempt |-> 1, cut |-> FALSE, signal |-> FALSE, next |-> 1, limit |-> 1]
Unborn == [m \in Members |-> "none"]
Done   == [pc |-> "over", why |-> "none"]
Unused == [m \in Members |-> [pc |-> "idle", why |-> "none"]]

Save(r) == record' = r /\ saved' = r
Keep(r) == record' = r /\ UNCHANGED saved

Team == DOMAIN record.members
InFlight(m) == work[m].pc \notin {"idle", "over"}

Spent(r) ==
  LET total[n \in 0 .. Len(r.members)] ==
        IF n = 0 THEN 0 ELSE total[n - 1] + r.members[n].cost
  IN total[Len(r.members)]

\* The agents in live.agents are the ones whose run is awaited.
Aborted(ms) ==
  [m \in Members |-> IF m \in ms /\ agents[m] = "working" THEN "stopping" ELSE agents[m]]
Awaited == {m \in Members : work[m].pc = "running"}

\* A worker was rejected and with it #dispatch; the other workers go on.
Failing == run.at \in {"failing", "rejected"}

\* live.cutoff has resolved, and every race with it.
Fired == run.cut \/ Failing

-----------------------------------------------------------------------------
(* start: the record, then at most two plans. *)

\* A team whose record says who owns it; recover has nothing to do before it.
Start ==
  /\ proc = 0
  /\ proc' = 1
  /\ Save([NoTeam EXCEPT !.status = "planning", !.owed = TRUE, !.owner = 1])
  /\ run' = [NoRun EXCEPT !.at = "planning"]
  /\ recovery' = [recovery EXCEPT !.at = "done"]
  /\ UNCHANGED <<plan, work, agents, disk, calls, ghosts>>

Dispatch(members, limit) ==
  /\ Save([record EXCEPT !.status = "running",
                         !.members = [k \in DOMAIN members |-> Queued(members[k])]])
  /\ run' = [run EXCEPT !.at = "running", !.attempt = 1, !.cut = run.signal, !.signal = FALSE,
                      !.limit = limit]

GiveUp ==
  /\ Save([record EXCEPT !.status = "failed", !.owed = FALSE])
  /\ run' = NoRun

\* #decompose after its attempt: p is what was parsed last, if anything was.
AfterAttempt(p) ==
  IF run.attempt = 1
  THEN IF run.signal THEN GiveUp
       ELSE run' = [run EXCEPT !.attempt = 2] /\ UNCHANGED <<record, saved>>
  ELSE IF p = <<>> THEN GiveUp
       ELSE \E limit \in Limits : Dispatch(RepairTeamPlan(p), limit)

PlanArrives(p) ==
  /\ run.at = "planning"
  /\ p # <<>>
  /\ plan' = p
  /\ IF Valid(p) THEN \E limit \in Limits : Dispatch(AsWritten(p), limit)
     ELSE AfterAttempt(p)
  /\ UNCHANGED <<work, agents, disk, recovery, calls, proc, ghosts>>

\* The supervisor's turn threw, or its reply was no plan.
PlanFails ==
  /\ run.at = "planning"
  /\ AfterAttempt(plan)
  /\ UNCHANGED <<plan, work, agents, disk, recovery, calls, proc, ghosts>>

-----------------------------------------------------------------------------
(* A worker takes a member; #runMember up to its first await. *)

Take(m) ==
  /\ run.at = "running" \/ Failing
  /\ run.next = m /\ m \in Team
  /\ Cardinality({n \in Members : InFlight(n)}) < run.limit
  /\ run' = [run EXCEPT !.next = @ + 1]
  /\ IF run.cut
     THEN /\ Save([record EXCEPT !.members[m].status = "cancelled"])
          /\ work' = [work EXCEPT ![m] = Done]
     ELSE /\ Save([record EXCEPT !.members[m].status = "running"])
          /\ work' = [work EXCEPT ![m].pc = "adding"]
  /\ UNCHANGED <<plan, agents, disk, recovery, calls, proc, ghosts>>

WorktreeAdded(m) ==
  /\ work[m].pc = "adding"
  /\ worktree' = [worktree EXCEPT ![m] = "clean"]
  /\ Save([record EXCEPT !.members[m].dir = TRUE])
  /\ work' = [work EXCEPT ![m].pc = "spawning"]
  /\ UNCHANGED <<plan, run, agents, patches, landed, recovery, calls, proc, ghosts>>

\* The member fails without having run.
WorktreeFails(m) ==
  /\ "throw" \in Faults
  /\ work[m].pc = "adding"
  /\ Save([record EXCEPT !.members[m].status = "failed"])
  /\ work' = [work EXCEPT ![m] = Done]
  /\ UNCHANGED <<plan, run, agents, disk, recovery, calls, proc, ghosts>>

\* After a cutoff abort is called too, but on an agent that has not started, where
\* it does nothing; prompt is called in any case.
Spawned(m) ==
  /\ work[m].pc = "spawning"
  /\ agents' = [agents EXCEPT ![m] = "working"]
  /\ work' = [work EXCEPT ![m] = [pc |-> "running",
                                   why |-> IF Fired THEN "cancelled" ELSE "none"]]
  /\ UNCHANGED <<record, saved, plan, run, disk, recovery, calls, proc, ghosts>>

SpawnFails(m) ==
  /\ "throw" \in Faults
  /\ work[m].pc = "spawning"
  /\ work' = [work EXCEPT ![m] = [pc |-> "capturing", why |-> "failed"]]
  /\ UNCHANGED <<record, saved, plan, run, agents, disk, recovery, calls, proc, ghosts>>

-----------------------------------------------------------------------------
(* The agent of a member: its turns, and its end. *)

\* What a turn leaves in the worktree.
Edits(m) ==
  \/ UNCHANGED <<worktree, made>>
  \/ /\ worktree[m] # "none"
     /\ worktree' = [worktree EXCEPT ![m] = "dirty"]
     /\ made' = made \cup {m}

\* Mutant: each member is held to the ceiling by itself.
CutByOwnSpend(r, m) == Ceiling > 0 /\ r.members[m].cost >= Ceiling

AtCeiling(r, m) == Ceiling > 0 /\ Spent(r) >= Ceiling

WithTurn(m, price) ==
  [record EXCEPT !.members[m].turns = @ + 1, !.members[m].cost = @ + price]

\* turnEnd, while the manager is subscribed; the race is lost with the cutoff.
Counted(m, price) ==
  LET r == WithTurn(m, price) IN
  /\ Keep(r)
  /\ IF AtCeiling(r, m)
     THEN /\ agents' = Aborted(Awaited)
          /\ run' = [run EXCEPT !.cut = TRUE]
          /\ work' = [work EXCEPT ![m].why = "cancelled"]
     ELSE /\ agents' = IF r.members[m].turns >= MaxTurns THEN Aborted({m}) ELSE agents
          /\ UNCHANGED <<run, work>>

Turn(m) ==
  /\ work[m].pc = "running" /\ agents[m] = "working" /\ ~Fired
  /\ \E price \in Prices : Counted(m, price)
  /\ Edits(m)
  /\ UNCHANGED <<plan, patches, landed, recovery, calls, proc, unsaved, unwanted, blind>>

\* The team is cut off, once.
CutOff ==
  /\ run' = [run EXCEPT !.cut = TRUE]
  /\ agents' = IF run.cut THEN agents ELSE Aborted(Awaited)

\* A turn that was ending when the cutoff fired is counted before the race is
\* decided; a next one is not, as it takes a call of the model.
LastTurn(m) ==
  /\ work[m].pc = "running" /\ work[m].why = "none" /\ Fired
  /\ agents[m] \in {"working", "stopping"}
  /\ \E price \in Prices :
       LET r == WithTurn(m, price) IN
       /\ Keep(r)
       /\ IF AtCeiling(r, m) THEN CutOff ELSE UNCHANGED <<run, agents>>
  /\ work' = [work EXCEPT ![m].why = "cancelled"]
  /\ UNCHANGED <<plan, disk, recovery, calls, proc, ghosts>>

\* The run resolves or rejects, which decides the member's race unless the cutoff
\* came first.  Who has lost the race is no longer looked at and has no end here.
AgentEnds(m) ==
  /\ work[m].pc = "running" /\ agents[m] \in {"working", "stopping"}
  /\ agents' = [agents EXCEPT ![m] = "over"]
  /\ IF Fired THEN UNCHANGED work
     ELSE \E why \in {"none"} \cup (IF "throw" \in Faults THEN {"failed"} ELSE {}) :
            work' = [work EXCEPT ![m] = [pc |-> "capturing", why |-> why]]
  /\ UNCHANGED <<record, saved, plan, run, disk, recovery, calls, proc, ghosts>>

\* Mutant: a stuck agent is waited for after the cutoff too.
RaceWaits(m) == Fired /\ agents[m] = "over"

\* The cutoff wins the race; who was told to stop is no longer looked at.
CutOffWins(m) == Fired

LeaveRace(m) ==
  /\ work[m].pc = "running"
  /\ CutOffWins(m)
  /\ work' = [work EXCEPT ![m] = [pc |-> "capturing", why |-> "cancelled"]]
  /\ agents' = [agents EXCEPT ![m] = IF @ = "stopping" THEN "over" ELSE @]
  /\ UNCHANGED <<record, saved, plan, run, disk, recovery, calls, proc, ghosts>>

-----------------------------------------------------------------------------
(* The rest of #runMember: its patch, then its worktree, then its status. *)

\* #captureDiff and #writePatch: what git could not give is a warning.
Captured(m) ==
  \/ /\ worktree[m] # "none"
     /\ IF worktree[m] = "dirty"
        THEN /\ patches' = patches \cup {m}
             /\ Keep([record EXCEPT !.members[m].patch = TRUE])
        ELSE UNCHANGED <<patches, record, saved>>
     /\ UNCHANGED unsaved
  \/ /\ "git" \in Faults \/ worktree[m] = "none"
     /\ unsaved' = IF worktree[m] = "none" THEN unsaved ELSE unsaved \cup {m}
     /\ UNCHANGED <<patches, record, saved>>

Capture(m) ==
  /\ work[m].pc = "capturing"
  /\ Captured(m)
  /\ work' = [work EXCEPT ![m].pc = "removing"]
  /\ UNCHANGED <<plan, run, agents, worktree, landed, recovery, calls, proc, made, unwanted, blind>>

\* What a member changed and no patch holds.
Unpatched == {m \in Team : worktree[m] = "dirty" /\ ~record.members[m].patch}

\* #writePatch throws and the worker is rejected: #dispatch removes the worktrees of
\* all members, of the ones still at work too.
CaptureThrows(m) ==
  /\ "write" \in Faults
  /\ run.at = "running"
  /\ work[m].pc = "capturing" /\ worktree[m] = "dirty"
  /\ work' = [work EXCEPT ![m].pc = "thrown"]
  /\ run' = [run EXCEPT !.at = "failing"]
  /\ worktree' = [n \in Members |-> "none"]
  /\ unsaved' = unsaved \cup Unpatched
  /\ UNCHANGED <<record, saved, plan, agents, patches, landed, recovery, calls, proc, made, unwanted,
                 blind>>

\* git has pruned: the LiveTeam goes and start rejects, its record still "running".
StartRejects ==
  /\ run.at = "failing"
  /\ run' = [run EXCEPT !.at = "rejected"]
  /\ UNCHANGED <<record, saved, plan, work, agents, disk, recovery, calls, proc, ghosts>>

\* git removes the worktree; a refusal is a warning.
GitRemoves(m) ==
  /\ \/ worktree' = [worktree EXCEPT ![m] = "none"]
     \/ "git" \in Faults /\ UNCHANGED worktree
  /\ UNCHANGED <<patches, landed>>

Teardown(m) ==
  /\ work[m].pc = "removing"
  /\ GitRemoves(m)
  /\ work' = [work EXCEPT ![m].pc = "removed"]
  /\ UNCHANGED <<record, saved, plan, run, agents, recovery, calls, proc, ghosts>>

\* The void gate: who changed no file and said nothing has failed.
Settle(m) ==
  /\ work[m].pc = "removed"
  /\ \E said \in BOOLEAN :
       Save([record EXCEPT
         !.members[m].dir = FALSE,
         !.members[m].status =
            CASE work[m].why = "cancelled" -> "cancelled"
              [] work[m].why = "failed" -> "failed"
              [] work[m].why = "none" /\ ~said /\ ~record.members[m].patch -> "failed"
              [] OTHER -> "done"])
  /\ work' = [work EXCEPT ![m] = Done]
  /\ UNCHANGED <<plan, run, agents, disk, recovery, calls, proc, ghosts>>

\* Every worker is done: the worktrees' parent is removed and git told to prune.
Cleanup ==
  /\ run.at = "running" /\ run.next > Len(record.members)
  /\ \A m \in Members : ~InFlight(m)
  /\ run' = [run EXCEPT !.at = "pruning"]
  /\ worktree' = [m \in Members |-> "none"]
  /\ UNCHANGED <<record, saved, plan, work, agents, patches, landed, recovery, calls, proc, ghosts>>

Conclude ==
  /\ run.at = "pruning"
  /\ run' = NoRun
  /\ Save([record EXCEPT
       !.owed = FALSE,
       !.status = CASE run.cut -> "cancelled"
                    [] ~run.cut /\ (\A m \in Team : record.members[m].status = "failed") -> "failed"
                    [] OTHER -> "review"])
  /\ UNCHANGED <<plan, work, agents, disk, recovery, calls, proc, ghosts>>

-----------------------------------------------------------------------------
(* Cancelling. *)

\* cancel: its listener is there only until the workers are done; a team that is
\* being planned, or was rejected, has no LiveTeam, its record is marked.
Cancel ==
  /\ record.status \in {"planning", "running"}
  /\ \/ run.at = "running" /\ CutOff /\ UNCHANGED <<record, saved>>
     \/ /\ run.at \in {"planning", "rejected"}
        /\ Save([record EXCEPT !.status = "cancelled"])
        /\ UNCHANGED <<run, agents>>
  /\ UNCHANGED <<plan, work, disk, recovery, calls, proc, ghosts>>

\* The caller's signal.
Interrupt ==
  /\ \/ run.at = "running" /\ CutOff
     \/ run.at = "planning" /\ run' = [run EXCEPT !.signal = TRUE] /\ UNCHANGED agents
  /\ UNCHANGED <<record, saved, plan, work, disk, recovery, calls, proc, ghosts>>

-----------------------------------------------------------------------------
(* Recovery: once per process, before anything that looks at a record. *)

Stale == record.owed /\ record.owner # proc

\* The first member from i on that names a worktree, 0 when none is left.
NextWith(r, i) ==
  LET left == {m \in DOMAIN r.members : m >= i /\ r.members[m].dir} IN
  IF left = {} THEN 0 ELSE Min(left)

\* The loop over the members; behind the last one, the worktrees' parent goes.
RecoverFrom(r, i, trees) ==
  LET m == NextWith(r, i) IN
  /\ recovery' = [at |-> CASE m = 0 -> "pruning"
                           [] m > 0 /\ r.members[m].patch -> "removing"
                           [] OTHER -> "capturing",
                  m |-> m]
  /\ worktree' = IF m = 0 THEN [n \in Members |-> "none"] ELSE trees

Recovering ==
  IF recovery.at # "never" THEN UNCHANGED <<recovery, worktree>>
  ELSE IF Stale THEN RecoverFrom(record, 1, worktree)
  ELSE recovery' = [recovery EXCEPT !.at = "done"] /\ UNCHANGED worktree

Recover ==
  /\ record # NoTeam /\ recovery.at = "never"
  /\ Recovering
  /\ UNCHANGED <<record, saved, plan, run, work, agents, patches, landed, calls, proc, ghosts>>

RecoveryCaptures ==
  /\ recovery.at = "capturing"
  /\ Captured(recovery.m)
  /\ recovery' = [recovery EXCEPT !.at = "removing"]
  /\ UNCHANGED <<plan, run, work, agents, worktree, landed, calls, proc, made, unwanted, blind>>

\* #writePatch throws: the recovery, and what awaits it in this process, is rejected.
RecoveryThrows ==
  /\ "write" \in Faults
  /\ recovery.at = "capturing" /\ worktree[recovery.m] = "dirty"
  /\ recovery' = [recovery EXCEPT !.at = "rejected"]
  /\ UNCHANGED <<record, saved, plan, run, work, agents, disk, calls, proc, ghosts>>

RecoveryRemoves ==
  /\ recovery.at = "removing"
  /\ LET r == [record EXCEPT !.members[recovery.m].dir = FALSE] IN
     /\ Keep(r)
     /\ RecoverFrom(r, recovery.m + 1, [worktree EXCEPT ![recovery.m] = "none"])
  /\ UNCHANGED <<plan, run, work, agents, patches, landed, calls, proc, ghosts>>

RecoveryEnds ==
  /\ recovery.at = "pruning"
  /\ Save([record EXCEPT !.owed = FALSE])
  /\ recovery' = [recovery EXCEPT !.at = "done"]
  /\ UNCHANGED <<plan, run, work, agents, disk, calls, proc, ghosts>>

-----------------------------------------------------------------------------
(* merge: the patches, one at a time, into the user's tree. *)

Over == [kind |-> "over", at |-> 0, pc |-> "over"]
At(k, pc, m) == calls' = [calls EXCEPT ![k].pc = pc, ![k].at = m]
CallEnds(k) == calls' = [calls EXCEPT ![k] = Over]

Merge ==
  /\ record # NoTeam /\ Len(calls) < MaxCalls
  /\ calls' = Append(calls, [kind |-> "merge", at |-> 0, pc |-> "recovering"])
  /\ Recovering
  /\ UNCHANGED <<record, saved, plan, run, work, agents, patches, landed, proc, ghosts>>

ToApply(r, i) ==
  {m \in DOMAIN r.members : m >= i /\ r.members[m].patch
                            /\ ~r.members[m].discarded /\ ~r.members[m].merged}

\* Nothing is left to merge; a member that failed without a patch never counts.
Complete(r) ==
  \A m \in Range(r.members) : m.merged \/ m.discarded \/ (~m.patch /\ m.status # "failed")

MergeEnds(k, r) ==
  /\ Save([r EXCEPT !.status =
       IF Complete(r) /\ @ \in {"review", "cancelled", "interrupted"} THEN "merged" ELSE @])
  /\ CallEnds(k)

MergeBegins(k) ==
  /\ calls[k].pc = "recovering" /\ recovery.at = "done"
  /\ LET left == ToApply(record, 1) IN
     IF left = {} THEN MergeEnds(k, record)
     ELSE At(k, "applying", Min(left)) /\ UNCHANGED <<record, saved>>
  /\ UNCHANGED <<plan, run, work, agents, disk, recovery, proc, ghosts>>

MergeRejects(k) ==
  /\ calls[k].pc = "recovering" /\ recovery.at = "rejected"
  /\ CallEnds(k)
  /\ UNCHANGED <<record, saved, plan, run, work, agents, disk, recovery, proc, ghosts>>

GitApplies(k) ==
  /\ calls[k].pc = "applying"
  /\ \/ /\ calls[k].at \in patches \ landed
        /\ landed' = landed \cup {calls[k].at}
        /\ At(k, "applied", calls[k].at)
     \/ At(k, "refused", calls[k].at) /\ UNCHANGED landed
  /\ UNCHANGED <<record, saved, plan, run, work, agents, worktree, patches, recovery, proc, ghosts>>

\* Mutant: what git refused counts as merged.
GoesOn(k) == calls[k].pc \in {"applied", "refused"}

\* Only an applied patch is recorded, and only after it the loop goes on.
Applied(k) == calls[k].pc = "applied"

MergeContinues(k) ==
  /\ calls[k].pc \in {"applied", "refused"}
  /\ IF Applied(k)
     THEN LET r == [record EXCEPT !.members[calls[k].at].merged = TRUE]
              left == ToApply(r, calls[k].at + 1)
          IN IF left = {} THEN MergeEnds(k, r)
             ELSE Save(r) /\ At(k, "applying", Min(left))
     ELSE MergeEnds(k, record)
  /\ UNCHANGED <<plan, run, work, agents, disk, recovery, proc, ghosts>>

-----------------------------------------------------------------------------
(* discard: the only thing that deletes a patch. *)

Dropped(r, ms) ==
  [r EXCEPT !.members = [m \in DOMAIN r.members |->
     IF m \in ms THEN [r.members[m] EXCEPT !.patch = FALSE, !.discarded = TRUE, !.merged = FALSE]
     ELSE r.members[m]]]

\* Members from i on are dropped at once up to the next one that names a
\* worktree, whose removal is awaited; behind the last one, the parent goes.
DiscardFrom(cs, k, r, i, trees) ==
  LET next == NextWith(r, i)
      ms   == {m \in DOMAIN r.members : m >= i /\ (next = 0 \/ m < next)}
      d    == Dropped(r, ms)
  IN /\ patches' = patches \ {m \in ms : r.members[m].patch}
     /\ calls' = [cs EXCEPT ![k].at = next, ![k].pc = IF next = 0 THEN "pruning" ELSE "removing"]
     /\ Keep(IF next = 0 THEN [d EXCEPT !.status = "discarded"] ELSE d)
     /\ worktree' = IF next = 0 THEN [m \in Members |-> "none"] ELSE trees

Discard ==
  /\ record # NoTeam /\ Len(calls) < MaxCalls
  /\ unwanted' = unwanted \cup Team
  /\ DiscardFrom(Append(calls, [kind |-> "discard", at |-> 0, pc |-> "removing"]),
                 Len(calls) + 1, record, 1, worktree)
  /\ UNCHANGED <<plan, run, work, agents, landed, recovery, proc, made, unsaved, blind>>

\* The removal settled: the member forgets its worktree and is dropped too.
DiscardRemoves(k) ==
  /\ calls[k].kind = "discard" /\ calls[k].pc = "removing"
  /\ LET m == calls[k].at IN
     DiscardFrom(calls, k, [record EXCEPT !.members[m].dir = FALSE], m,
                 [worktree EXCEPT ![m] = "none"])
  /\ UNCHANGED <<plan, run, work, agents, landed, recovery, proc, ghosts>>

DiscardEnds(k) ==
  /\ calls[k].kind = "discard" /\ calls[k].pc = "pruning"
  /\ Save([record EXCEPT !.owed = FALSE])
  /\ CallEnds(k)
  /\ UNCHANGED <<plan, run, work, agents, disk, recovery, proc, ghosts>>

-----------------------------------------------------------------------------
(* The process dies; a later one loads the record. *)

Crash ==
  /\ "crash" \in Faults /\ record # NoTeam
  /\ record' = NoTeam /\ run' = NoRun /\ work' = Unused /\ agents' = Unborn
  /\ recovery' = [at |-> "never", m |-> 0]
  /\ calls' = [k \in DOMAIN calls |-> Over]
  /\ blind' = blind \cup {m \in made : worktree[m] = "none" /\ ~saved.members[m].patch}
  /\ UNCHANGED <<saved, plan, disk, proc, made, unsaved, unwanted>>

\* Mutant: a loaded record is taken as settled.
AsSaved(r) == r

\* #load: a record that was at work belongs to a process that is gone.
Loaded(r) ==
  IF r.status \notin {"planning", "running"} THEN r
  ELSE [r EXCEPT !.status = "interrupted", !.owed = TRUE,
                 !.members = [m \in DOMAIN @ |->
                    IF @[m].status \in {"queued", "running"}
                    THEN [@[m] EXCEPT !.status = "interrupted"] ELSE @[m]]]

Restart ==
  /\ record = NoTeam /\ proc \in 1 .. MaxProcs - 1
  /\ proc' = proc + 1
  /\ Save(Loaded(saved))
  /\ UNCHANGED <<plan, run, work, agents, disk, recovery, calls, ghosts>>

-----------------------------------------------------------------------------
Init ==
  /\ record = NoTeam /\ saved = NoTeam /\ plan = <<>> /\ run = NoRun
  /\ work = Unused /\ agents = Unborn
  /\ worktree = [m \in Members |-> "none"] /\ patches = {} /\ landed = {}
  /\ recovery = [at |-> "never", m |-> 0] /\ calls = <<>> /\ proc = 0
  /\ made = {} /\ unsaved = {} /\ unwanted = {} /\ blind = {}

\* What the event loop, git and the host of the agents do by themselves.
Worker(m) ==
  \/ Take(m) \/ WorktreeAdded(m) \/ WorktreeFails(m) \/ Spawned(m) \/ SpawnFails(m)
  \/ LeaveRace(m) \/ Capture(m) \/ CaptureThrows(m) \/ Teardown(m) \/ Settle(m)

Next ==
  \/ Start \/ PlanFails \/ \E p \in Plans : PlanArrives(p)
  \/ \E m \in Members : Worker(m) \/ Turn(m) \/ LastTurn(m) \/ AgentEnds(m)
  \/ Cleanup \/ Conclude \/ StartRejects \/ Cancel \/ Interrupt
  \/ Recover \/ RecoveryCaptures \/ RecoveryThrows \/ RecoveryRemoves \/ RecoveryEnds
  \/ Merge \/ Discard
  \/ \E k \in DOMAIN calls : MergeBegins(k) \/ MergeRejects(k) \/ GitApplies(k) \/ MergeContinues(k)
                               \/ DiscardRemoves(k) \/ DiscardEnds(k)
  \/ Crash \/ Restart

Spec == Init /\ [][Next]_vars

\* The event loop goes on, and git and the host that spawns agents answer; no
\* agent and no user has to do anything.
Fairness == WF_vars(Cleanup \/ Conclude \/ StartRejects \/ \E m \in Members : Worker(m))

FairSpec == Spec /\ Fairness

-----------------------------------------------------------------------------
(* Properties. *)

MemberTypes ==
  [parts : SUBSET (1 .. 9), scopes : SUBSET UNION {UNION Range(p) \cup {<<>>} : p \in Plans},
   status : {"queued", "running", "done", "failed", "cancelled", "interrupted"},
   dir : BOOLEAN, patch : BOOLEAN, merged : BOOLEAN, discarded : BOOLEAN,
   cost : Nat, turns : 0 .. MaxTurns + 1]

TypeOK ==
  /\ \A r \in {record, saved} :
       /\ Len(r.members) <= MaxMembers /\ \A m \in DOMAIN r.members : r.members[m] \in MemberTypes
       /\ r.status \in {"none", "planning", "running", "review", "merged", "discarded",
                        "cancelled", "failed", "interrupted"}
       /\ r.owed \in BOOLEAN /\ r.owner \in 0 .. proc
  /\ run.at \in {"no", "planning", "running", "pruning", "failing", "rejected"}
  /\ \A m \in Members :
       /\ work[m].pc \in {"idle", "adding", "spawning", "running", "capturing", "thrown", "removing",
                         "removed", "over"}
       /\ work[m].why \in {"none", "cancelled", "failed"}
       /\ agents[m] \in {"none", "working", "stopping", "over"}
       /\ worktree[m] \in {"none", "clean", "dirty"}
  /\ patches \cup landed \cup made \cup unsaved \cup unwanted \cup blind \subseteq Members

\* "A plan is never dispatched until its file scopes are provably disjoint", and
\* a repair drops no work: whatever the supervisor answered, no two members may
\* touch one file, and every subtask is somebody's.
MembersDisjoint ==
  /\ \A m, n \in Team : m # n =>
       /\ ~Collide(record.members[m].scopes, record.members[n].scopes)
       /\ record.members[m].parts \cap record.members[n].parts = {}
  /\ record.members # <<>> =>
       UNION {record.members[m].parts : m \in Team} = DOMAIN plan

\* The ceiling cuts the whole team off, and what its members have spent
\* together exceeds it by at most the turn each other worker was in.
OvershootBounded ==
  Ceiling > 0 /\ run.at = "running" => Spent(record) <= Ceiling + run.limit - 1

\* No start and no recovery has anything left to do.
Settled == record # NoTeam /\ run.at = "no" /\ ~record.owed

\* Capture before teardown, always: what a member changed is in its worktree or
\* in a patch on disk at every instant, whoever stops it and whenever the process
\* dies; and once nothing is owed the record names the patch.  (Not where git
\* gave no diff, the disk took no patch, the user discarded it, or a death fell
\* into the gap of CrashCostsNoWork.)
WorkKept ==
  \A m \in made \ (unsaved \cup unwanted) :
    /\ worktree[m] = "dirty" \/ m \in patches
    /\ Settled /\ m \notin blind => record.members[m].patch

\* A member counts as merged, in memory or on disk, only when its patch landed,
\* and a team as merged only when all that its members made is in the tree.
MergedIsTrue ==
  /\ \A r \in {record, saved} : \A m \in DOMAIN r.members : r.members[m].merged => m \in landed
  /\ record.status = "merged" =>
       \A m \in Team : \/ m \in landed \/ record.members[m].discarded
                       \/ m \notin made \/ m \in unsaved \cup blind

\* "Capture BEFORE teardown, always: the patch on disk is the durable work product":
\* what a member changed is in its worktree or in its patch, also when the disk is full.
CapturedBeforeTeardown ==
  \A m \in made \ unwanted : worktree[m] = "dirty" \/ m \in patches

\* A team that is cut off comes to its end, though an agent may ignore its abort.
CutOffSettles == run.cut ~> run.at \in {"no", "rejected"}

\* "Captured to a patch file (so a crash costs no work)", says recover.
CrashCostsNoWork ==
  \A m \in made \ (unsaved \cup unwanted) :
    Settled => record.members[m].patch

\* "Every remaining member was stopped": when a cut team ends, every agent that is
\* still there was told to stop.
EveryoneStopped ==
  run.at = "pruning" /\ run.cut => \A m \in Members : agents[m] # "working"

\* cancel answers true "once cancellation has been initiated": what it cancelled
\* does not go on to dispatch members.
CancelHolds == [][record.status = "cancelled" => record'.status # "running"]_vars
=============================================================================
