----------------------------- MODULE TeamProofs -----------------------------
(***************************************************************************)
(* What Team keeps for every plan, team size, pool, ceiling and number of  *)
(* merges, discards and deaths of the process: no work of a member is      *)
(* lost, nothing is called merged that is not, no two members may touch    *)
(* one file, and the ceiling holds the whole team.                         *)
(*                                                                         *)
(* The last two are about loops of the code (a sum, a union-find), which   *)
(* Team writes as recursive functions; the part on induction says that the *)
(* equations of such a function have a solution.                           *)
(***************************************************************************)
EXTENDS Team, SequenceTheorems, FiniteSetTheorems, WellFoundedInduction, TLAPS

-----------------------------------------------------------------------------
(* Shapes. *)

\* A record that has exactly the fields of a TeamMember.
IsMember(x) ==
  x = [parts |-> x.parts, scopes |-> x.scopes, status |-> x.status, dir |-> x.dir,
       patch |-> x.patch, merged |-> x.merged, discarded |-> x.discarded, cost |-> x.cost,
       turns |-> x.turns]

\* ... and of a StoredTeam; members are counted from 1.
Shape(r) ==
  /\ r = [status |-> r.status, members |-> r.members, owed |-> r.owed, owner |-> r.owner]
  /\ r.members = [m \in DOMAIN r.members |-> r.members[m]]
  /\ \A m \in DOMAIN r.members : m \in Nat \ {0} /\ IsMember(r.members[m])

WorkRecords ==
  [pc : {"idle", "adding", "spawning", "running", "capturing", "thrown", "removing", "removed",
         "over"},
   why : {"none", "cancelled", "failed"}]

RunRecords ==
  [at : {"no", "planning", "running", "pruning", "failing", "rejected"}, attempt : {1, 2}, cut : BOOLEAN,
   signal : BOOLEAN, next : Nat, limit : Nat]

CallRecords ==
  [kind : {"merge", "discard", "over"}, at : Nat,
   pc : {"recovering", "applying", "applied", "refused", "removing", "pruning", "over"}]

RecoveryRecords ==
  [at : {"never", "capturing", "removing", "pruning", "done", "rejected"}, m : Nat]

ShapeInv ==
  /\ Shape(record) /\ Shape(saved) /\ proc \in Nat
  /\ run \in RunRecords /\ recovery \in RecoveryRecords /\ calls \in Seq(CallRecords)
  /\ work \in [Members -> WorkRecords]
  /\ worktree \in [Members -> {"none", "clean", "dirty"}]
  /\ made \subseteq Members

-----------------------------------------------------------------------------
(* The inductive invariant. *)

\* The two copies of the record.
Copies == {record, saved}

\* What a later process would see.
Held == IF record = NoTeam THEN saved ELSE record

\* What m changed is on disk outside its worktree, or its loss is accounted for.
Safe(m) == m \in patches \cup unsaved \cup unwanted

\* The record r says where the patch of m is, or why there is none.
Told(r, m) == r.members[m].patch \/ r.members[m].discarded \/ m \in unsaved \cup blind

Gone(r) == \A m \in DOMAIN r.members : r.members[m].discarded

\* There is one team, made by the first process; recovery is over or was not
\* needed wherever the record owes nothing.
OwnerInv ==
  /\ record # NoTeam => record.owner = 1 /\ proc # 0 /\ DOMAIN record.members = DOMAIN saved.members
  /\ record = NoTeam => /\ run = NoRun /\ work = Unused /\ recovery.at = "never"
                        /\ \A k \in DOMAIN calls : calls[k] = Over
  /\ proc = 0 => record = NoTeam /\ saved = NoTeam
  /\ proc # 0 => saved.owner = 1
  /\ made \subseteq DOMAIN saved.members
  /\ run.at # "no" => proc = 1
  /\ proc = 1 /\ record # NoTeam => recovery.at = "done"
  /\ run.at = "no" /\ recovery.at = "done" => ~record.owed

\* #dispatch has workers, also when it has been rejected.
Going == run.at = "running" \/ Failing

\* Where a member's run is, and what has been said of it by then.
RunInv ==
  /\ run.at = "planning" => made = {} /\ DOMAIN record.members = {}
                            /\ \A m \in Members : work[m].pc = "idle"
  /\ run.at \in {"running", "pruning"} => \A r \in Copies : r.status \in {"running", "discarded"}
  /\ Failing => \A m \in Members : worktree[m] # "dirty"
  /\ ~Going => \A m \in Members : ~InFlight(m)
  /\ \A m \in Members :
       /\ work[m].pc # "idle" => m \in Team
       /\ Going /\ m >= run.next => work[m].pc = "idle"
       /\ run.at # "no" /\ work[m].pc \in {"idle", "adding", "spawning"} => m \notin made
       /\ work[m].pc \in {"spawning", "running", "capturing", "removing", "removed"}
            => \A r \in Copies : r.members[m].dir \/ r.members[m].discarded
       /\ work[m].pc \in {"removing", "removed", "over"} /\ m \in made => Safe(m) /\ Told(record, m)

\* No work is lost: a worktree goes only after its patch, and the record names
\* the worktree until it names the patch.
KeptInv ==
  /\ \A m \in made :
       /\ worktree[m] = "dirty" \/ (worktree[m] = "none" /\ Safe(m))
       /\ worktree[m] = "none" => Told(Held, m)
  /\ \A r \in Copies : \A m \in DOMAIN r.members :
       /\ m \in made /\ ~r.members[m].dir => Safe(m) /\ Told(r, m)
       /\ r.members[m].patch => m \in patches \cup unwanted
       /\ r.members[m].discarded => m \in unwanted

\* Recovery takes the members in order and each one's patch before its worktree.
RecoveryInv ==
  /\ recovery.at \in {"capturing", "removing"} =>
       /\ recovery.m \in Team
       /\ \A n \in Team : n < recovery.m => ~record.members[n].dir
  /\ recovery.at = "removing" /\ recovery.m \in made => Safe(recovery.m) /\ Told(record, recovery.m)
  /\ recovery.at = "pruning" => \A m \in Members : worktree[m] = "none"

\* A discard forgets the members in order, and all of them before it ends.
DiscardInv ==
  /\ \A r \in Copies : r.status = "discarded" => Gone(r)
  /\ \A k \in DOMAIN calls :
       /\ calls[k].kind = "discard" /\ calls[k].pc = "removing" =>
            /\ Team \subseteq unwanted /\ calls[k].at \in Team
            /\ \A n \in Team : n < calls[k].at => record.members[n].discarded
       /\ calls[k].kind = "discard" /\ calls[k].pc = "pruning" /\ run.at = "no" =>
            ~record.owed \/ Gone(record)

\* What owes nothing has told everything.
SettledInv ==
  /\ run.at = "no" /\ record # NoTeam /\ ~record.owed => \A m \in made : Told(record, m)
  /\ saved.status \notin {"planning", "running"} /\ ~saved.owed => \A m \in made : Told(saved, m)

\* What is called merged is in the user's tree.
MergedInv ==
  /\ \A k \in DOMAIN calls :
       /\ calls[k].pc \in {"applying", "applied", "refused"} => calls[k].at \in Team /\ recovery.at = "done"
       /\ calls[k].pc = "applied" => calls[k].at \in landed
  /\ \A r \in Copies :
       /\ \A m \in DOMAIN r.members : r.members[m].merged => m \in landed
       /\ r.status = "merged" => \A m \in DOMAIN r.members :
             m \in landed \/ r.members[m].discarded \/ m \notin made \/ m \in unsaved \cup blind

IInv ==
  /\ ShapeInv /\ OwnerInv /\ RunInv /\ KeptInv /\ RecoveryInv /\ DiscardInv /\ SettledInv
  /\ MergedInv
-----------------------------------------------------------------------------
(* Records and members. *)

NatLess == {p \in Nat \X Nat : p[1] < p[2]}

\* A set of numbers has a least one.
LEMMA Least ==
  ASSUME NEW T, T \subseteq Nat, T # {}
  PROVE  Min(T) \in T /\ \A y \in T : Min(T) <= y
<1>1. IsWellFoundedOn(NatLess, Nat)
  <2>1. OpToRel(<, Nat) = NatLess
    BY DEF OpToRel, NatLess
  <2>2. QED
    BY <2>1, NatLessThanWellFounded
<1>2. PICK x \in T : \A y \in T : ~(<<y, x>> \in NatLess)
  BY <1>1, WFMin
<1>3. ASSUME NEW y \in T PROVE x <= y
  <2>1. x \in Nat /\ y \in Nat
    OBVIOUS
  <2>2. y < x => <<y, x>> \in NatLess
    BY <2>1 DEF NatLess
  <2>3. QED
    BY <1>2, <2>1, <2>2
<1>4. QED
  BY <1>3 DEF Min

\* s differs from r in the member m at most, which is x.
Changed(r, s, m, x) ==
  /\ Shape(s) /\ s.status = r.status /\ s.owed = r.owed /\ s.owner = r.owner
  /\ DOMAIN s.members = DOMAIN r.members
  /\ s.members[m] = x
  /\ \A n \in DOMAIN r.members : n # m => s.members[n] = r.members[n]

LEMMA MemberChanges ==
  ASSUME NEW r, Shape(r), NEW m \in DOMAIN r.members, NEW x, IsMember(x)
  PROVE  Changed(r, [r EXCEPT !.members[m] = x], m, x)
<1> DEFINE s == [r EXCEPT !.members[m] = x]
<1>1. r = [status |-> r.status, members |-> r.members, owed |-> r.owed, owner |-> r.owner]
  BY DEF Shape
<1>2. s = [status |-> r.status, members |-> [r.members EXCEPT ![m] = x], owed |-> r.owed,
           owner |-> r.owner]
  BY <1>1
<1>3. /\ s.status = r.status /\ s.owed = r.owed /\ s.owner = r.owner
      /\ s.members = [r.members EXCEPT ![m] = x]
  BY <1>2
<1>4. s = [status |-> s.status, members |-> s.members, owed |-> s.owed, owner |-> s.owner]
  BY <1>2, <1>3
<1> HIDE DEF s
<1>5. /\ r.members = [n \in DOMAIN r.members |-> r.members[n]]
      /\ \A n \in DOMAIN r.members : n \in Nat \ {0} /\ IsMember(r.members[n])
  BY DEF Shape
<1>6. /\ DOMAIN s.members = DOMAIN r.members /\ s.members[m] = x
      /\ \A n \in DOMAIN r.members : n # m => s.members[n] = r.members[n]
      /\ s.members = [n \in DOMAIN s.members |-> s.members[n]]
  BY <1>3, <1>5
<1>7. \A n \in DOMAIN s.members : n \in Nat \ {0} /\ IsMember(s.members[n])
  BY <1>5, <1>6
<1>8. Changed(r, s, m, x)
  BY <1>3, <1>4, <1>6, <1>7 DEF Changed, Shape
<1>9. QED
  BY <1>8 DEF s

\* s has the members of r, as far as the invariant looks at them.
SameMarks(r, s) ==
  /\ Shape(s) /\ s.owner = r.owner /\ DOMAIN s.members = DOMAIN r.members
  /\ \A m \in DOMAIN r.members :
       /\ s.members[m].dir = r.members[m].dir /\ s.members[m].patch = r.members[m].patch
       /\ s.members[m].merged = r.members[m].merged
       /\ s.members[m].discarded = r.members[m].discarded

\* Steps that set a field of the record.
LEMMA FieldChanges ==
  ASSUME NEW r, Shape(r), NEW v
  PROVE  /\ LET s == [r EXCEPT !.status = v] IN
              SameMarks(r, s) /\ s.status = v /\ s.owed = r.owed
         /\ LET s == [r EXCEPT !.owed = v] IN
              SameMarks(r, s) /\ s.status = r.status /\ s.owed = v
<1>1. r = [status |-> r.status, members |-> r.members, owed |-> r.owed, owner |-> r.owner]
  BY DEF Shape
<1>2. [r EXCEPT !.status = v] =
        [status |-> v, members |-> r.members, owed |-> r.owed, owner |-> r.owner]
  BY <1>1
<1>3. [r EXCEPT !.owed = v] =
        [status |-> r.status, members |-> r.members, owed |-> v, owner |-> r.owner]
  BY <1>1
<1>4. QED
  BY <1>2, <1>3 DEF SameMarks, Shape

\* s is r with one mark of the member m set to v.
DirSet(r, s, m, v) ==
  /\ Shape(s) /\ s.status = r.status /\ s.owed = r.owed /\ s.owner = r.owner
  /\ DOMAIN s.members = DOMAIN r.members /\ s.members[m].dir = v
  /\ \A n \in DOMAIN r.members :
       /\ n # m => s.members[n].dir = r.members[n].dir
       /\ s.members[n].patch = r.members[n].patch
       /\ s.members[n].merged = r.members[n].merged
       /\ s.members[n].discarded = r.members[n].discarded

PatchSet(r, s, m, v) ==
  /\ Shape(s) /\ s.status = r.status /\ s.owed = r.owed /\ s.owner = r.owner
  /\ DOMAIN s.members = DOMAIN r.members /\ s.members[m].patch = v
  /\ \A n \in DOMAIN r.members :
       /\ n # m => s.members[n].patch = r.members[n].patch
       /\ s.members[n].dir = r.members[n].dir
       /\ s.members[n].merged = r.members[n].merged
       /\ s.members[n].discarded = r.members[n].discarded

MergedSet(r, s, m, v) ==
  /\ Shape(s) /\ s.status = r.status /\ s.owed = r.owed /\ s.owner = r.owner
  /\ DOMAIN s.members = DOMAIN r.members /\ s.members[m].merged = v
  /\ \A n \in DOMAIN r.members :
       /\ n # m => s.members[n].merged = r.members[n].merged
       /\ s.members[n].dir = r.members[n].dir
       /\ s.members[n].patch = r.members[n].patch
       /\ s.members[n].discarded = r.members[n].discarded

LEMMA MarkChanges ==
  ASSUME NEW r, Shape(r), NEW m \in DOMAIN r.members, NEW v
  PROVE  /\ DirSet(r, [r EXCEPT !.members[m].dir = v], m, v)
         /\ PatchSet(r, [r EXCEPT !.members[m].patch = v], m, v)
         /\ MergedSet(r, [r EXCEPT !.members[m].merged = v], m, v)
<1>1. IsMember(r.members[m])
  BY DEF Shape
<1>2. PICK x : x = [r.members[m] EXCEPT !.dir = v]
  OBVIOUS
<1>3. IsMember(x) /\ x.dir = v /\ x.patch = r.members[m].patch /\ x.merged = r.members[m].merged
      /\ x.discarded = r.members[m].discarded
  BY <1>1, <1>2 DEF IsMember
<1>4. Changed(r, [r EXCEPT !.members[m] = x], m, x)
  BY <1>3, MemberChanges
<1>5. PICK y : y = [r.members[m] EXCEPT !.patch = v]
  OBVIOUS
<1>6. IsMember(y) /\ y.dir = r.members[m].dir /\ y.patch = v /\ y.merged = r.members[m].merged
      /\ y.discarded = r.members[m].discarded
  BY <1>1, <1>5 DEF IsMember
<1>7. Changed(r, [r EXCEPT !.members[m] = y], m, y)
  BY <1>6, MemberChanges
<1>8. PICK z : z = [r.members[m] EXCEPT !.merged = v]
  OBVIOUS
<1>9. IsMember(z) /\ z.dir = r.members[m].dir /\ z.patch = r.members[m].patch /\ z.merged = v
      /\ z.discarded = r.members[m].discarded
  BY <1>1, <1>8 DEF IsMember
<1>10. Changed(r, [r EXCEPT !.members[m] = z], m, z)
  BY <1>9, MemberChanges
<1>11. DirSet(r, [r EXCEPT !.members[m].dir = v], m, v)
  <2>1. [r EXCEPT !.members[m].dir = v] = [r EXCEPT !.members[m] = x]
    BY <1>2
  <2>2. QED
    BY <2>1, <1>3, <1>4 DEF DirSet, Changed
<1>12. PatchSet(r, [r EXCEPT !.members[m].patch = v], m, v)
  <2>1. [r EXCEPT !.members[m].patch = v] = [r EXCEPT !.members[m] = y]
    BY <1>5
  <2>2. QED
    BY <2>1, <1>6, <1>7 DEF PatchSet, Changed
<1>13. MergedSet(r, [r EXCEPT !.members[m].merged = v], m, v)
  <2>1. [r EXCEPT !.members[m].merged = v] = [r EXCEPT !.members[m] = z]
    BY <1>8
  <2>2. QED
    BY <2>1, <1>9, <1>10 DEF MergedSet, Changed
<1>14. QED
  BY <1>11, <1>12, <1>13

\* A member's status and its counters are no marks.
LEMMA StatusChanges ==
  ASSUME NEW r, Shape(r), NEW m \in DOMAIN r.members, NEW v
  PROVE  LET s == [r EXCEPT !.members[m].status = v] IN
           SameMarks(r, s) /\ s.status = r.status /\ s.owed = r.owed
<1>1. IsMember(r.members[m])
  BY DEF Shape
<1>2. PICK x : x = [r.members[m] EXCEPT !.status = v]
  OBVIOUS
<1>3. IsMember(x) /\ x.dir = r.members[m].dir /\ x.patch = r.members[m].patch
      /\ x.merged = r.members[m].merged /\ x.discarded = r.members[m].discarded
  BY <1>1, <1>2 DEF IsMember
<1>4. Changed(r, [r EXCEPT !.members[m] = x], m, x)
  BY <1>3, MemberChanges
<1>5. [r EXCEPT !.members[m].status = v] = [r EXCEPT !.members[m] = x]
  BY <1>2
<1>6. QED
  BY <1>3, <1>4, <1>5 DEF SameMarks, Changed

LEMMA TurnCounts ==
  ASSUME Shape(record), NEW m \in Team, NEW price
  PROVE  SameMarks(record, WithTurn(m, price)) /\ WithTurn(m, price).status = record.status
         /\ WithTurn(m, price).owed = record.owed
<1>1. m \in DOMAIN record.members /\ IsMember(record.members[m])
  BY DEF Shape, Team
<1>2. PICK x : x = [record.members[m] EXCEPT !.turns = @ + 1, !.cost = @ + price]
  OBVIOUS
<1>3. IsMember(x) /\ x.dir = record.members[m].dir /\ x.patch = record.members[m].patch
      /\ x.merged = record.members[m].merged /\ x.discarded = record.members[m].discarded
  BY <1>1, <1>2 DEF IsMember
<1>4. Changed(record, [record EXCEPT !.members[m] = x], m, x)
  BY <1>1, <1>3, MemberChanges
<1>5. WithTurn(m, price) = [record EXCEPT !.members[m] = x]
  BY <1>1, <1>2 DEF WithTurn, Shape
<1>6. QED
  BY <1>3, <1>4, <1>5 DEF SameMarks, Changed

-----------------------------------------------------------------------------
(* The workers: #runMember. *)

\* A team that was rejected has lost every worktree and the record accounts for all.
LEMMA FailedTold ==
  ASSUME IInv, Failing
  PROVE  record # NoTeam /\ \A m \in made : Told(record, m)
<1>1. record # NoTeam
  BY DEF IInv, OwnerInv, NoRun, Failing
<1>2. \A m \in made : worktree[m] = "none"
  BY DEF IInv, RunInv, KeptInv, ShapeInv
<1>3. QED
  BY <1>1, <1>2 DEF IInv, KeptInv, Held

\* The parts of the invariant that do not look at the members' runs.
Papers ==
  OwnerInv /\ KeptInv /\ RecoveryInv /\ DiscardInv /\ SettledInv /\ MergedInv

\* A step that sets no mark and touches no worktree, patch or call.
LEMMA Quiet ==
  ASSUME IInv, record # NoTeam, SameMarks(record, record'), record'.status = record.status,
         record'.owed = record.owed, saved' = saved \/ saved' = record', run'.at = run.at,
         UNCHANGED <<disk, ghosts, recovery, calls, proc>>
  PROVE  Papers'
<1> USE DEF IInv
<1>1. /\ record'.owner = record.owner /\ DOMAIN record'.members = DOMAIN record.members
      /\ \A m \in DOMAIN record.members :
           /\ record'.members[m].dir = record.members[m].dir
           /\ record'.members[m].patch = record.members[m].patch
           /\ record'.members[m].merged = record.members[m].merged
           /\ record'.members[m].discarded = record.members[m].discarded
      /\ worktree' = worktree /\ patches' = patches /\ landed' = landed
      /\ made' = made /\ unsaved' = unsaved /\ unwanted' = unwanted /\ blind' = blind
      /\ recovery' = recovery /\ calls' = calls /\ proc' = proc
  BY DEF SameMarks, disk, ghosts
<1>2. record.owner = 1 /\ record' # NoTeam /\ proc # 0 /\ DOMAIN record.members = DOMAIN saved.members
  BY <1>1 DEF OwnerInv, NoTeam
<1>3. OwnerInv'
  BY <1>1, <1>2 DEF OwnerInv
<1>4. /\ \A m : Safe(m)' <=> Safe(m)
      /\ \A m \in DOMAIN record.members : Told(record, m)' <=> Told(record, m)
      /\ saved' = saved => \A m \in DOMAIN saved.members : Told(saved, m)' <=> Told(saved, m)
      /\ saved' = record' => \A m \in DOMAIN record.members : Told(saved, m)' <=> Told(record, m)
  BY <1>1 DEF Safe, Told
<1>5. Held = record /\ Held' = record' /\ made \subseteq DOMAIN record.members
  BY <1>1, <1>2 DEF Held, OwnerInv
<1>6. KeptInv'
  <2>1. \A m \in made' :
          /\ worktree'[m] = "dirty" \/ (worktree'[m] = "none" /\ Safe(m)')
          /\ worktree'[m] = "none" => Told(Held, m)'
    <3>1. \A m \in DOMAIN record.members : Told(Held, m)' <=> Told(record, m)
      BY <1>4, <1>5 DEF Told
    <3>2. QED
      BY <1>1, <1>4, <1>5, <3>1 DEF KeptInv
  <2>2. CASE saved' = saved
    BY <1>1, <1>2, <1>4, <2>1, <2>2 DEF KeptInv, Copies
  <2>3. CASE saved' = record'
    BY <1>1, <1>2, <1>4, <2>1, <2>3 DEF KeptInv, Copies
  <2>4. QED
    BY <2>2, <2>3
<1>7. RecoveryInv'
  BY <1>1, <1>2, <1>4 DEF RecoveryInv, Team
<1>8. DiscardInv'
  <2>1. Gone(record)' <=> Gone(record)
    BY <1>1 DEF Gone
  <2>2. saved' = saved => (Gone(saved)' <=> Gone(saved))
    BY DEF Gone
  <2>3. saved' = record' => (Gone(saved)' <=> Gone(record)) /\ saved'.status = record.status
    BY <1>1 DEF Gone
  <2>4. QED
    BY <1>1, <2>1, <2>2, <2>3 DEF DiscardInv, Copies, Team
<1>9. SettledInv'
  <2>1. run.at = "no" /\ ~record.owed => \A m \in made : Told(record, m)
    BY <1>2 DEF SettledInv
  <2>2. saved' = record' /\ saved'.status \notin {"planning", "running"} /\ ~saved'.owed
        => \A m \in made : Told(record, m)
    <3>1. CASE run.at = "no"
      BY <2>1, <3>1
    <3>2. CASE run.at = "planning"
      BY <3>2 DEF RunInv
    <3>3. CASE run.at \in {"running", "pruning"}
      BY <1>5, <3>3 DEF RunInv, DiscardInv, Copies, Gone, Told
    <3>4. CASE Failing
      BY <3>4, FailedTold
    <3>5. QED
      BY <3>1, <3>2, <3>3, <3>4 DEF ShapeInv, RunRecords, Failing
  <2>3. QED
    BY <1>1, <1>2, <1>4, <1>5, <2>1, <2>2 DEF SettledInv, OwnerInv
<1>10. MergedInv'
  BY <1>1, <1>2, <1>4 DEF MergedInv, Copies, Team
<1>11. QED
  BY <1>3, <1>6, <1>7, <1>8, <1>9, <1>10 DEF Papers

Pcs ==
  {"idle", "adding", "spawning", "running", "capturing", "thrown", "removing", "removed", "over"}

\* A member's run goes on to v.
Moved(m, v) ==
  /\ work' \in [Members -> WorkRecords] /\ work'[m].pc = v
  /\ \A n \in Members : n # m => work'[n] = work[n]

LEMMA Moves ==
  ASSUME work \in [Members -> WorkRecords], NEW m \in Members, NEW v \in Pcs,
         NEW w \in {"none", "cancelled", "failed"}
  PROVE  /\ work' = [work EXCEPT ![m].pc = v] => Moved(m, v)
         /\ work' = [work EXCEPT ![m] = [pc |-> v, why |-> w]] => Moved(m, v)
         /\ work' = [work EXCEPT ![m].why = w] => Moved(m, work[m].pc)
<1>1. work[m] \in WorkRecords
  OBVIOUS
<1>2. /\ [work[m] EXCEPT !.pc = v] \in WorkRecords /\ [work[m] EXCEPT !.pc = v].pc = v
      /\ [pc |-> v, why |-> w] \in WorkRecords
      /\ [work[m] EXCEPT !.why = w] \in WorkRecords /\ [work[m] EXCEPT !.why = w].pc = work[m].pc
  BY <1>1 DEF WorkRecords, Pcs
<1>3. ASSUME NEW x \in WorkRecords, work' = [work EXCEPT ![m] = x]
      PROVE  Moved(m, x.pc)
  BY <1>3 DEF Moved
<1>4. /\ [work EXCEPT ![m].pc = v] = [work EXCEPT ![m] = [work[m] EXCEPT !.pc = v]]
      /\ [work EXCEPT ![m].why = w] = [work EXCEPT ![m] = [work[m] EXCEPT !.why = w]]
  OBVIOUS
<1>5. work' = [work EXCEPT ![m].pc = v] => Moved(m, v)
  BY <1>2, <1>3, <1>4
<1>6. work' = [work EXCEPT ![m] = [pc |-> v, why |-> w]] => Moved(m, v)
  BY <1>2, <1>3
<1>7. work' = [work EXCEPT ![m].why = w] => Moved(m, work[m].pc)
  BY <1>2, <1>3, <1>4
<1>8. QED
  BY <1>5, <1>6, <1>7

\* A run's step that sets no mark: all but where the member's run is stays.
LEMMA QuietRun ==
  ASSUME IInv, record # NoTeam, SameMarks(record, record'), record'.status = record.status,
         record'.owed = record.owed, saved' = saved \/ saved' = record', run'.at = run.at,
         run' \in RunRecords, UNCHANGED <<disk, ghosts, recovery, calls, proc>>,
         NEW m \in Team, m \in Members, NEW v \in Pcs, Moved(m, v), Going,
         \A n \in Members : n >= run'.next => n # m /\ n >= run.next,
         v \in {"idle", "adding", "spawning"} => m \notin made,
         v \in {"spawning", "running", "capturing", "removing", "removed"}
           => \A r \in Copies : r.members[m].dir \/ r.members[m].discarded,
         v \in {"removing", "removed", "over"} /\ m \in made => Safe(m) /\ Told(record, m)
  PROVE  IInv'
<1>1. Papers'
  BY Quiet
<1>2. /\ DOMAIN record'.members = DOMAIN record.members /\ Shape(record')
      /\ \A n \in DOMAIN record.members :
           /\ record'.members[n].dir = record.members[n].dir
           /\ record'.members[n].patch = record.members[n].patch
           /\ record'.members[n].discarded = record.members[n].discarded
      /\ worktree' = worktree /\ patches' = patches /\ landed' = landed
      /\ made' = made /\ unsaved' = unsaved /\ unwanted' = unwanted /\ blind' = blind
      /\ recovery' = recovery /\ calls' = calls /\ proc' = proc
  BY DEF SameMarks, disk, ghosts
<1>3. DOMAIN record.members = DOMAIN saved.members /\ record \in Copies /\ saved \in Copies
  BY DEF IInv, OwnerInv, Copies
<1>4. /\ \A n : Safe(n)' <=> Safe(n)
      /\ \A n \in DOMAIN record.members : Told(record, n)' <=> Told(record, n)
  BY <1>2 DEF Safe, Told
<1>5. ShapeInv'
  <2>1. Shape(saved')
    BY <1>2 DEF IInv, ShapeInv
  <2>2. QED
    BY <1>2, <2>1 DEF IInv, ShapeInv, Moved
<1>6. RunInv'
  <2>0. Going' /\ (Failing' <=> Failing) /\ run.at \notin {"no", "planning", "pruning"}
    BY DEF Going, Failing
  <2>1. run.at = "running" => \A r \in Copies' : r.status \in {"running", "discarded"}
    BY <1>2, <1>3 DEF IInv, RunInv, Copies
  <2>2. ASSUME NEW n \in Members
        PROVE  /\ work'[n].pc # "idle" => n \in Team'
               /\ n >= run'.next => work'[n].pc = "idle"
               /\ work'[n].pc \in {"idle", "adding", "spawning"} => n \notin made
               /\ work'[n].pc \in {"spawning", "running", "capturing", "removing", "removed"}
                    => \A r \in Copies' : r.members[n].dir \/ r.members[n].discarded
               /\ work'[n].pc \in {"removing", "removed", "over"} /\ n \in made
                    => Safe(n) /\ Told(record, n)
    <3>1. Team' = Team
      BY <1>2 DEF Team
    <3>3. CASE n = m
      BY <1>2, <1>3, <3>1, <3>3 DEF Moved, Copies, Team
    <3>4. CASE n # m
      BY <1>2, <1>3, <2>0, <3>1, <3>4 DEF Moved, Copies, Team, IInv, RunInv
    <3>5. QED
      BY <3>3, <3>4
  <2>3. Failing => \A n \in Members : worktree'[n] # "dirty"
    BY <1>2 DEF IInv, RunInv
  <2>4. QED
    BY <1>2, <1>3, <1>4, <2>0, <2>1, <2>2, <2>3 DEF RunInv, Team
<1>7. QED
  BY <1>1, <1>5, <1>6 DEF IInv, Papers

\* Whoever's run is under way belongs to the team that is running.
LEMMA Running ==
  ASSUME IInv, NEW m \in Members, work[m].pc \notin {"idle", "over"}
  PROVE  /\ record # NoTeam /\ Going /\ m \in Team
         /\ \A n \in Members : n >= run.next => n # m
<1>1. record # NoTeam
  <2>1. Unused[m].pc = "idle"
    BY DEF Unused
  <2>2. QED
    BY <2>1 DEF IInv, OwnerInv
<1>2. QED
  BY <1>1 DEF IInv, RunInv, InFlight

LEMMA TakeStep == ASSUME IInv, NEW m \in Members, Take(m) PROVE IInv'
<1>1. /\ Going /\ run.next = m /\ m \in Team /\ run' = [run EXCEPT !.next = @ + 1]
      /\ UNCHANGED <<disk, ghosts, recovery, calls, proc>>
  BY DEF Take, Going
<1>2. record # NoTeam /\ run.at # "no"
  BY <1>1 DEF IInv, OwnerInv, NoRun, Going, Failing
<1>3. work[m].pc = "idle" /\ m \notin made /\ m \in Nat
  BY <1>1, <1>2 DEF IInv, RunInv, Members
<1>4. run' \in RunRecords /\ run'.at = run.at /\ run'.next = m + 1
  BY <1>1, <1>3 DEF IInv, ShapeInv, RunRecords
<1>5. \A n \in Members : n >= run'.next => n # m /\ n >= run.next
  BY <1>1, <1>3, <1>4 DEF Members
<1>6. PICK status : record' = [record EXCEPT !.members[m].status = status] /\ saved' = record'
  BY DEF Take, Save
<1>7. SameMarks(record, record') /\ record'.status = record.status /\ record'.owed = record.owed
  <2>1. Shape(record) /\ m \in DOMAIN record.members
    BY <1>1 DEF IInv, ShapeInv, Team
  <2>2. QED
    BY <1>6, <2>1, StatusChanges
<1>8. Moved(m, "over") \/ Moved(m, "adding")
  <2>1. work \in [Members -> WorkRecords]
    BY DEF IInv, ShapeInv
  <2>2. work' = [work EXCEPT ![m] = [pc |-> "over", why |-> "none"]] \/ work' = [work EXCEPT ![m].pc = "adding"]
    BY DEF Take, Done
  <2>3. "over" \in Pcs /\ "adding" \in Pcs
    BY DEF Pcs
  <2>4. QED
    BY <2>1, <2>2, <2>3, Moves
<1>9. PICK v \in Pcs : Moved(m, v) /\ v \in {"over", "adding"}
  BY <1>8 DEF Pcs
<1>10. QED
  BY <1>1, <1>2, <1>3, <1>4, <1>5, <1>6, <1>7, <1>9, QuietRun

\* A member that could not be given a worktree.
LEMMA WorktreeFailsStep == ASSUME IInv, NEW m \in Members, WorktreeFails(m) PROVE IInv'
<1>1. /\ work[m].pc = "adding" /\ run' = run
      /\ UNCHANGED <<disk, ghosts, recovery, calls, proc>>
  BY DEF WorktreeFails
<1>2. record # NoTeam /\ Going /\ m \in Team /\ \A n \in Members : n >= run.next => n # m
  BY <1>1, Running
<1>3. m \notin made
  BY <1>1, <1>2 DEF IInv, RunInv, Going, Failing
<1>4. PICK status : record' = [record EXCEPT !.members[m].status = status] /\ saved' = record'
  BY DEF WorktreeFails, Save
<1>5. SameMarks(record, record') /\ record'.status = record.status /\ record'.owed = record.owed
  BY <1>2, <1>4, StatusChanges DEF IInv, ShapeInv, Team
<1>6. work \in [Members -> WorkRecords] /\ run' \in RunRecords
  BY <1>1 DEF IInv, ShapeInv
<1>7. PICK v \in Pcs : Moved(m, v) /\ v = "over"
  BY <1>6, Moves DEF Pcs, WorktreeFails, Done
<1>8. QED
  BY <1>1, <1>2, <1>3, <1>4, <1>5, <1>6, <1>7, QuietRun

\* The steps of a member's run between its worktree and its capture that leave
\* the record as it is, or count a turn in it.
LEMMA MemberStep ==
  ASSUME IInv, NEW m \in Members,
         Spawned(m) \/ SpawnFails(m) \/ LastTurn(m) \/ AgentEnds(m) \/ LeaveRace(m)
  PROVE  IInv'
<1>1. /\ work[m].pc \in {"spawning", "running"}
      /\ run' = run \/ run' = [run EXCEPT !.cut = TRUE]
      /\ UNCHANGED <<disk, ghosts, recovery, calls, proc>>
      /\ saved' = saved
  BY DEF Spawned, SpawnFails, LastTurn, CutOff, AgentEnds, LeaveRace, Keep
<1>2. record # NoTeam /\ Going /\ m \in Team /\ \A n \in Members : n >= run.next => n # m
  BY <1>1, Running
<1>3. /\ work \in [Members -> WorkRecords] /\ Shape(record)
      /\ run' \in RunRecords /\ run'.at = run.at /\ run'.next = run.next
  BY <1>1 DEF IInv, ShapeInv, RunRecords
<1>4. SameMarks(record, record') /\ record'.status = record.status /\ record'.owed = record.owed
  <2>1. CASE record' = record
    BY <1>3, <2>1 DEF SameMarks
  <2>2. CASE LastTurn(m)
    BY <1>2, <1>3, <2>2, TurnCounts DEF LastTurn, Keep
  <2>3. QED
    BY <2>1, <2>2 DEF Spawned, SpawnFails, AgentEnds, LeaveRace
<1>5. \E v \in Pcs : Moved(m, v) /\ v \in {"running", "capturing"}
  <2>1. CASE AgentEnds(m) /\ work' = work
    BY <1>1, <1>3, <2>1 DEF Moved, Pcs, AgentEnds
  <2>2. CASE LastTurn(m)
    BY <1>3, <2>2, Moves DEF LastTurn, Pcs
  <2>3. CASE Spawned(m) \/ SpawnFails(m) \/ (AgentEnds(m) /\ ~Fired) \/ LeaveRace(m)
    <3>1. PICK v \in {"running", "capturing"}, w \in {"none", "cancelled", "failed"} :
            work' = [work EXCEPT ![m] = [pc |-> v, why |-> w]]
      BY <2>3 DEF Spawned, SpawnFails, AgentEnds, LeaveRace
    <3>2. v \in Pcs
      BY DEF Pcs
    <3>3. QED
      BY <1>3, <3>1, <3>2, Moves
  <2>4. QED
    BY <2>1, <2>2, <2>3 DEF AgentEnds
<1>6. PICK v \in Pcs : Moved(m, v) /\ v \in {"running", "capturing"}
  BY <1>5
<1>7. \A r \in Copies : r.members[m].dir \/ r.members[m].discarded
  BY <1>1 DEF IInv, RunInv
<1>8. QED
  BY <1>1, <1>2, <1>3, <1>4, <1>6, <1>7, QuietRun

\* A member's step on its own part of the record and of the disk.
LEMMA OwnStep ==
  ASSUME IInv, record # NoTeam, Going, NEW m \in Team, m \in Members,
         Failing => made' = made /\ worktree'[m] # "dirty",
         Shape(record'), record'.status = record.status, record'.owed = record.owed,
         record'.owner = record.owner, DOMAIN record'.members = DOMAIN record.members,
         \A n \in Team : /\ record'.members[n].merged = record.members[n].merged
                         /\ record'.members[n].discarded = record.members[n].discarded
                         /\ record.members[n].patch => record'.members[n].patch
                         /\ n # m => record'.members[n].dir = record.members[n].dir
                                     /\ record'.members[n].patch = record.members[n].patch,
         saved' = saved \/ saved' = record',
         UNCHANGED <<landed, recovery, calls, proc, unwanted, blind>>,
         patches \subseteq patches', made \subseteq made', made' \subseteq made \cup {m},
         unsaved \subseteq unsaved',
         worktree' \in [Members -> {"none", "clean", "dirty"}],
         \A n \in Members : n # m => worktree'[n] = worktree[n],
         m \in made' => worktree'[m] = "dirty" \/ (worktree'[m] = "none" /\ Safe(m)'),
         m \in made' /\ worktree'[m] = "none" => Told(record, m)',
         \A r \in Copies' : /\ m \in made' /\ ~r.members[m].dir => Safe(m)' /\ Told(r, m)'
                            /\ r.members[m].patch => m \in patches' \cup unwanted',
         run' \in RunRecords, run'.at = run.at, run'.next = run.next,
         \A n \in Members : n >= run.next => n # m,
         NEW v \in Pcs, Moved(m, v),
         v \in {"idle", "adding", "spawning"} => m \notin made',
         v \in {"spawning", "running", "capturing", "removing", "removed"}
           => \A r \in Copies' : r.members[m].dir \/ r.members[m].discarded,
         v \in {"removing", "removed", "over"} /\ m \in made' => Safe(m)' /\ Told(record, m)'
  PROVE  IInv'
<1> USE DEF IInv
<1>1. /\ record.owner = 1 /\ record' # NoTeam /\ proc = 1 /\ recovery.at = "done"
      /\ DOMAIN record.members = DOMAIN saved.members /\ Team = DOMAIN record.members
      /\ DOMAIN saved'.members = Team /\ Team' = Team /\ m \in DOMAIN saved.members
      /\ run.at \notin {"no", "planning", "pruning"} /\ (Failing' <=> Failing) /\ Going'
  BY DEF OwnerInv, NoTeam, Team, Going, Failing
<1>2. ShapeInv'
  BY DEF ShapeInv, Moved
<1>3. OwnerInv'
  BY <1>1 DEF OwnerInv
<1>4. Held = record /\ Held' = record' /\ record \in Copies /\ saved \in Copies
      /\ made \subseteq Team /\ made' \subseteq Team
  BY <1>1 DEF Held, Copies, OwnerInv
<1>5. /\ \A n : Safe(n) => Safe(n)'
      /\ \A n \in Team : Told(record, n) => Told(record, n)'
      /\ saved' = saved => \A n \in Team : Told(saved, n) => Told(saved, n)'
      /\ saved' = record' => \A n \in Team : Told(record, n) => Told(saved, n)'
  BY <1>1 DEF Safe, Told
<1>6. run.at = "running" => \A r \in {record, saved} : r.status \in {"running", "discarded"}
  BY DEF RunInv, Copies
<1>7. RunInv'
  <2>1. run.at = "running" => \A r \in Copies' : r.status \in {"running", "discarded"}
    BY <1>6 DEF Copies
  <2>2. ASSUME NEW n \in Members
        PROVE  /\ work'[n].pc # "idle" => n \in Team
               /\ n >= run.next => work'[n].pc = "idle"
               /\ work'[n].pc \in {"idle", "adding", "spawning"} => n \notin made'
               /\ work'[n].pc \in {"spawning", "running", "capturing", "removing", "removed"}
                    => \A r \in Copies' : r.members[n].dir \/ r.members[n].discarded
               /\ work'[n].pc \in {"removing", "removed", "over"} /\ n \in made'
                    => Safe(n)' /\ Told(record, n)'
    <3>1. CASE n = m
      BY <3>1 DEF Moved
    <3>2. CASE n # m
      <4>1. work'[n] = work[n] /\ (n \in made' <=> n \in made)
        BY <3>2 DEF Moved
      <4>2. work[n].pc # "idle" => n \in Team
        BY DEF RunInv
      <4>3. n \in Team /\ (\A r \in Copies : r.members[n].dir \/ r.members[n].discarded)
            => \A r \in Copies' : r.members[n].dir \/ r.members[n].discarded
        BY <1>1, <3>2 DEF Copies
      <4>4. QED
        BY <1>1, <1>4, <1>5, <4>1, <4>2, <4>3 DEF RunInv
    <3>3. QED
      BY <3>1, <3>2
  <2>3. Failing => \A n \in Members : worktree'[n] # "dirty"
    BY DEF RunInv
  <2>4. QED
    BY <1>1, <2>1, <2>2, <2>3 DEF RunInv, Team
<1>8. KeptInv'
  <2>1. ASSUME NEW n \in made'
        PROVE  /\ worktree'[n] = "dirty" \/ (worktree'[n] = "none" /\ Safe(n)')
               /\ worktree'[n] = "none" => Told(record, n)'
    <3>1. CASE n = m
      BY <3>1
    <3>2. CASE n # m
      <4>1. n \in made /\ n \in Team /\ n \in Members
        BY <1>4, <3>2 DEF ShapeInv
      <4>2. QED
        BY <1>4, <1>5, <3>2, <4>1 DEF KeptInv
    <3>3. QED
      BY <3>1, <3>2
  <2>2. ASSUME NEW n \in Team
        PROVE  \A r \in Copies' :
                 /\ n \in made' /\ ~r.members[n].dir => Safe(n)' /\ Told(r, n)'
                 /\ r.members[n].patch => n \in patches' \cup unwanted'
                 /\ r.members[n].discarded => n \in unwanted'
    <3>1. CASE n = m
      BY <1>1, <1>4, <3>1 DEF KeptInv, Copies
    <3>2. CASE n # m
      BY <1>1, <1>4, <1>5, <3>2 DEF KeptInv, Copies
    <3>3. QED
      BY <3>1, <3>2
  <2>3. \A r \in Copies' : DOMAIN r.members = Team
    BY <1>1 DEF Copies
  <2>4. \A n \in made' : Told(Held, n)' <=> Told(record, n)'
    BY <1>4 DEF Told
  <2>5. QED
    BY <2>1, <2>2, <2>3, <2>4 DEF KeptInv
<1>9. RecoveryInv'
  BY <1>1 DEF RecoveryInv
<1>10. Gone(record)' <=> Gone(record)
  BY <1>1 DEF Gone
<1>11. (saved' = saved => (Gone(saved)' <=> Gone(saved))) /\ (saved' = record' => (Gone(saved)' <=> Gone(record)))
  BY <1>1 DEF Gone
<1>12. DiscardInv'
  BY <1>1, <1>10, <1>11 DEF DiscardInv, Copies
<1>13. SettledInv'
  <2>1. CASE run.at = "running"
    <3>1. saved'.status \in {"running", "discarded"} /\ (saved'.status = "discarded" => Gone(saved)')
      BY <1>6, <1>10, <1>11, <2>1 DEF DiscardInv, Copies
    <3>2. Gone(saved)' => \A n \in made' : Told(saved, n)'
      BY <1>1, <1>4 DEF Gone, Told
    <3>3. QED
      BY <1>1, <3>1, <3>2 DEF SettledInv
  <2>2. CASE Failing
    <3>1. made' = made /\ \A n \in made : Told(record, n)
      BY <2>2, FailedTold
    <3>2. QED
      BY <1>1, <1>4, <1>5, <3>1 DEF SettledInv
  <2>3. QED
    BY <2>1, <2>2 DEF Going
<1>14. MergedInv'
  <2>1. \A r \in Copies' : \A n \in DOMAIN r.members : r.members[n].merged => n \in landed'
    BY <1>1 DEF MergedInv, Copies
  <2>2. CASE run.at = "running"
    <3>1. \A r \in Copies' : r.status # "merged"
      BY <1>6, <2>2 DEF Copies
    <3>2. QED
      BY <1>1, <2>1, <3>1 DEF MergedInv
  <2>3. CASE Failing
    <3>1. made' = made
      BY <2>3
    <3>2. \A r \in Copies' : r.status = "merged" => \A n \in DOMAIN r.members :
             n \in landed' \/ r.members[n].discarded \/ n \notin made' \/ n \in unsaved' \cup blind'
      BY <1>1, <3>1 DEF MergedInv, Copies
    <3>3. QED
      BY <1>1, <2>1, <3>2 DEF MergedInv
  <2>4. QED
    BY <2>2, <2>3 DEF Going
<1>15. QED
  BY <1>2, <1>3, <1>7, <1>8, <1>9, <1>12, <1>13, <1>14

LEMMA WorktreeAddedStep == ASSUME IInv, NEW m \in Members, WorktreeAdded(m) PROVE IInv'
<1>1. /\ work[m].pc = "adding" /\ run' = run /\ worktree' = [worktree EXCEPT ![m] = "clean"]
      /\ UNCHANGED <<patches, landed, ghosts, recovery, calls, proc>>
      /\ record' = [record EXCEPT !.members[m].dir = TRUE] /\ saved' = record'
  BY DEF WorktreeAdded, Save
<1>2. record # NoTeam /\ Going /\ m \in Team /\ \A n \in Members : n >= run.next => n # m
  BY <1>1, Running
<1>3. /\ m \notin made /\ Shape(record) /\ m \in DOMAIN record.members
      /\ work \in [Members -> WorkRecords] /\ run \in RunRecords
      /\ worktree \in [Members -> {"none", "clean", "dirty"}]
  BY <1>1, <1>2 DEF IInv, RunInv, ShapeInv, Team, Going, Failing
<1>4. DirSet(record, record', m, TRUE)
  BY <1>1, <1>3, MarkChanges
<1>5. PICK v \in Pcs : Moved(m, v) /\ v = "spawning"
  BY <1>3, Moves DEF Pcs, WorktreeAdded
<1>6. Copies' = {record'}
  BY <1>1 DEF Copies
<1>7. record'.members[m].patch => m \in patches \cup unwanted
  BY <1>3, <1>4 DEF DirSet, IInv, KeptInv, Copies
<1>8. QED
  BY <1>1, <1>2, <1>3, <1>4, <1>5, <1>6, <1>7, OwnStep DEF DirSet, ghosts, Team

\* Only a member whose worktree the record names changes files.
LEMMA TurnStep == ASSUME IInv, NEW m \in Members, Turn(m) PROVE IInv'
<1>1. /\ work[m].pc = "running" /\ Edits(m) /\ saved' = saved /\ ~Failing
      /\ UNCHANGED <<patches, landed, recovery, calls, proc, unsaved, unwanted, blind>>
  BY DEF Turn, Counted, Keep, Fired
<1>2. record # NoTeam /\ Going /\ m \in Team /\ \A n \in Members : n >= run.next => n # m
  BY <1>1, Running
<1>3. /\ Shape(record) /\ m \in DOMAIN record.members /\ work \in [Members -> WorkRecords]
      /\ run \in RunRecords /\ worktree \in [Members -> {"none", "clean", "dirty"}]
      /\ Failing => worktree[m] # "dirty"
  BY <1>2 DEF IInv, ShapeInv, RunInv, Team
<1>4. SameMarks(record, record') /\ record'.status = record.status /\ record'.owed = record.owed
  BY <1>2, <1>3, TurnCounts DEF Turn, Counted, Keep
<1>5. run' \in RunRecords /\ run'.at = run.at /\ run'.next = run.next
  BY <1>3 DEF Turn, Counted, RunRecords
<1>6. PICK v \in Pcs : Moved(m, v) /\ v = "running"
  <2>1. CASE work' = work
    BY <1>1, <1>3, <2>1 DEF Moved, Pcs
  <2>2. CASE work' = [work EXCEPT ![m].why = "cancelled"]
    BY <1>1, <1>3, <2>2, Moves DEF Pcs
  <2>3. QED
    BY <2>1, <2>2 DEF Turn, Counted
<1>7. \A r \in Copies' : r.members[m].dir \/ r.members[m].discarded
  <2>1. \A r \in Copies : r.members[m].dir \/ r.members[m].discarded
    BY <1>1 DEF IInv, RunInv
  <2>2. QED
    BY <1>1, <1>3, <1>4, <2>1 DEF Copies, SameMarks
<1>8. \A r \in Copies' : /\ r.members[m].patch => m \in patches' \cup unwanted'
                         /\ r.members[m].discarded => m \in unwanted'
  <2>1. \A r \in Copies : /\ r.members[m].patch => m \in patches \cup unwanted
                          /\ r.members[m].discarded => m \in unwanted
    BY <1>2, <1>3 DEF IInv, KeptInv, Copies, OwnerInv
  <2>2. QED
    BY <1>1, <1>3, <1>4, <2>1 DEF Copies, SameMarks
<1>9. \A r \in Copies' : m \in made' /\ ~r.members[m].dir => Safe(m)' /\ Told(r, m)'
  BY <1>7, <1>8 DEF Safe, Told
<1>10. m \in made => /\ worktree[m] = "dirty" \/ (worktree[m] = "none" /\ Safe(m))
                     /\ worktree[m] = "none" => Told(record, m)
  BY <1>2 DEF IInv, KeptInv, Held
<1>11. Safe(m)' = Safe(m) /\ (Told(record, m)' <=> Told(record, m))
  BY <1>1, <1>3, <1>4 DEF Safe, Told, SameMarks
<1>12. /\ worktree' \in [Members -> {"none", "clean", "dirty"}] /\ made \subseteq made' /\ made' \subseteq made \cup {m}
       /\ \A n \in Members : n # m => worktree'[n] = worktree[n]
       /\ m \in made' => worktree'[m] = "dirty" \/ (worktree'[m] = "none" /\ Safe(m)')
       /\ m \in made' /\ worktree'[m] = "none" => Told(record, m)'
  BY <1>1, <1>3, <1>10, <1>11 DEF Edits
<1>13. QED
  BY <1>1, <1>2, <1>4, <1>5, <1>6, <1>7, <1>8, <1>9, <1>12, OwnStep DEF SameMarks, Team

\* Capture before teardown.
LEMMA CaptureStep == ASSUME IInv, NEW m \in Members, Capture(m) PROVE IInv'
<1>1. /\ work[m].pc = "capturing" /\ Captured(m) /\ run' = run /\ saved' = saved
      /\ UNCHANGED <<worktree, landed, recovery, calls, proc, made, unwanted, blind>>
  BY DEF Capture, Captured, Keep
<1>2. record # NoTeam /\ Going /\ m \in Team /\ \A n \in Members : n >= run.next => n # m
  BY <1>1, Running
<1>3. /\ Shape(record) /\ m \in DOMAIN record.members /\ work \in [Members -> WorkRecords]
      /\ run \in RunRecords /\ worktree \in [Members -> {"none", "clean", "dirty"}]
      /\ Failing => worktree[m] # "dirty"
  BY <1>2 DEF IInv, ShapeInv, RunInv, Team
<1>4. PICK v \in Pcs : Moved(m, v) /\ v = "removing"
  BY <1>3, Moves DEF Pcs, Capture
<1>5. /\ \A r \in Copies : /\ r.members[m].patch => m \in patches \cup unwanted
                           /\ r.members[m].discarded => m \in unwanted
                           /\ r.members[m].dir \/ r.members[m].discarded
      /\ m \in made => /\ worktree[m] = "dirty" \/ (worktree[m] = "none" /\ Safe(m))
                       /\ worktree[m] = "none" => Told(record, m)
  BY <1>1, <1>2, <1>3 DEF IInv, KeptInv, RunInv, Copies, OwnerInv, Held
<1>6. CASE worktree[m] = "dirty" /\ patches' = patches \cup {m} /\ unsaved' = unsaved
           /\ record' = [record EXCEPT !.members[m].patch = TRUE]
  <2>1. PatchSet(record, record', m, TRUE)
    BY <1>3, <1>6, MarkChanges
  <2>2. \A r \in Copies' : /\ r.members[m].patch => m \in patches' \cup unwanted'
                           /\ r.members[m].dir \/ r.members[m].discarded
                           /\ r.members[m].discarded => m \in unwanted'
    BY ZenonT(60), <1>1, <1>3, <1>5, <1>6, <2>1 DEF Copies, PatchSet
  <2>3. Safe(m)' /\ Told(record, m)'
    BY <1>6, <2>1 DEF Safe, Told, PatchSet
  <2>4. \A r \in Copies' : m \in made' /\ ~r.members[m].dir => Safe(m)' /\ Told(r, m)'
    BY <2>2, <2>3 DEF Told
  <2>5. QED
    BY <1>1, <1>2, <1>3, <1>4, <1>6, <2>1, <2>2, <2>3, <2>4, OwnStep DEF PatchSet, Team
<1>7. CASE /\ record' = record /\ patches' = patches /\ unsaved \subseteq unsaved'
           /\ m \in unsaved' \/ worktree[m] # "dirty"
  <2>1. \A r \in Copies' : /\ r.members[m].patch => m \in patches' \cup unwanted'
                           /\ r.members[m].dir \/ r.members[m].discarded
                           /\ r.members[m].discarded => m \in unwanted'
    BY <1>1, <1>5, <1>7 DEF Copies
  <2>2. m \in made => Safe(m)' /\ Told(record, m)'
    BY <1>1, <1>5, <1>7 DEF Safe, Told
  <2>3. \A r \in Copies' : m \in made' /\ ~r.members[m].dir => Safe(m)' /\ Told(r, m)'
    BY <1>1, <2>1, <2>2 DEF Told
  <2>4. m \in made' => worktree'[m] = "dirty" \/ (worktree'[m] = "none" /\ Safe(m)')
    BY <1>1, <1>5, <2>2
  <2>5. QED
    BY <1>1, <1>2, <1>3, <1>4, <1>7, <2>1, <2>2, <2>3, <2>4, OwnStep DEF Team
<1>8. QED
  BY <1>1, <1>6, <1>7 DEF Captured, Keep

LEMMA TeardownStep == ASSUME IInv, NEW m \in Members, Teardown(m) PROVE IInv'
<1>1. /\ work[m].pc = "removing" /\ GitRemoves(m) /\ run' = run /\ saved' = saved /\ record' = record
      /\ UNCHANGED <<patches, landed, recovery, calls, proc, ghosts>>
  BY DEF Teardown, GitRemoves
<1>2. record # NoTeam /\ Going /\ m \in Team /\ \A n \in Members : n >= run.next => n # m
  BY <1>1, Running
<1>3. /\ Shape(record) /\ m \in DOMAIN record.members /\ work \in [Members -> WorkRecords]
      /\ run \in RunRecords /\ worktree \in [Members -> {"none", "clean", "dirty"}]
      /\ Failing => worktree[m] # "dirty"
  BY <1>2 DEF IInv, ShapeInv, RunInv, Team
<1>4. PICK v \in Pcs : Moved(m, v) /\ v = "removed"
  BY <1>3, Moves DEF Pcs, Teardown
<1>5. /\ \A r \in Copies : /\ r.members[m].patch => m \in patches \cup unwanted
                           /\ r.members[m].dir \/ r.members[m].discarded
                           /\ m \in made /\ ~r.members[m].dir => Safe(m) /\ Told(r, m)
      /\ m \in made => /\ worktree[m] = "dirty" \/ (worktree[m] = "none" /\ Safe(m))
                       /\ Safe(m) /\ Told(record, m)
  BY <1>1, <1>2, <1>3 DEF IInv, KeptInv, RunInv, Copies, OwnerInv, Held
<1>6. Copies' = Copies /\ Safe(m)' = Safe(m) /\ Told(record, m)' = Told(record, m)
      /\ \A r \in Copies : Told(r, m)' = Told(r, m)
  BY <1>1 DEF Copies, Safe, Told, ghosts
<1>7. /\ worktree' \in [Members -> {"none", "clean", "dirty"}]
      /\ \A n \in Members : n # m => worktree'[n] = worktree[n]
      /\ worktree'[m] \in {"none", worktree[m]}
  BY <1>1, <1>3 DEF GitRemoves
<1>8. QED
  BY <1>1, <1>2, <1>3, <1>4, <1>5, <1>6, <1>7, OwnStep DEF Team, ghosts

LEMMA SettleStep == ASSUME IInv, NEW m \in Members, Settle(m) PROVE IInv'
<1>1. /\ work[m].pc = "removed" /\ run' = run /\ saved' = record'
      /\ UNCHANGED <<disk, recovery, calls, proc, ghosts>>
  BY DEF Settle, Save
<1>2. record # NoTeam /\ Going /\ m \in Team /\ \A n \in Members : n >= run.next => n # m
  BY <1>1, Running
<1>3. /\ Shape(record) /\ m \in DOMAIN record.members /\ work \in [Members -> WorkRecords]
      /\ run \in RunRecords /\ worktree \in [Members -> {"none", "clean", "dirty"}]
      /\ Failing => worktree[m] # "dirty"
  BY <1>2 DEF IInv, ShapeInv, RunInv, Team
<1>4. PICK v \in Pcs : Moved(m, v) /\ v = "over"
  BY <1>3, Moves DEF Pcs, Settle, Done
<1>5. DirSet(record, record', m, FALSE)
  <2>1. PICK status : record' = [record EXCEPT !.members[m].dir = FALSE, !.members[m].status = status]
    BY DEF Settle, Save
  <2>2. PICK r : r = [record EXCEPT !.members[m].dir = FALSE]
    OBVIOUS
  <2>3. DirSet(record, r, m, FALSE)
    BY <1>3, <2>2, MarkChanges
  <2>4. Shape(r) /\ m \in DOMAIN r.members
    BY <1>3, <2>3 DEF DirSet
  <2>5. record' = [r EXCEPT !.members[m].status = status]
    BY <2>1, <2>2
  <2>6. SameMarks(r, record') /\ record'.status = r.status /\ record'.owed = r.owed
    BY <2>4, <2>5, StatusChanges
  <2>7. QED
    BY <1>3, <2>3, <2>6 DEF DirSet, SameMarks
<1>6. /\ record.members[m].patch => m \in patches \cup unwanted
      /\ m \in made => /\ worktree[m] = "dirty" \/ (worktree[m] = "none" /\ Safe(m))
                       /\ Safe(m) /\ Told(record, m)
  BY <1>1, <1>2, <1>3 DEF IInv, KeptInv, RunInv, Copies, OwnerInv, Held
<1>7. Copies' = {record'} /\ Safe(m)' = Safe(m) /\ (Told(record, m)' <=> Told(record, m))
  BY <1>1, <1>3, <1>5 DEF Copies, Safe, Told, ghosts, disk, DirSet
<1>8. QED
  BY <1>1, <1>2, <1>3, <1>4, <1>5, <1>6, <1>7, OwnStep DEF Team, ghosts, disk, DirSet

\* A step of #dispatch that rejects: the worktrees go, and what was in them is
\* accounted for.
LEMMA RejectedStep ==
  ASSUME IInv, Going, run' \in RunRecords, run'.next = run.next, Failing',
         UNCHANGED <<record, saved, patches, landed, recovery, calls, proc, made, unwanted, blind>>,
         unsaved \subseteq unsaved', worktree' \in [Members -> {"none", "clean", "dirty"}],
         \A n \in Members : worktree'[n] # "dirty",
         \A n \in made : worktree'[n] = "none" /\ Safe(n)' /\ Told(record, n)',
         work' \in [Members -> WorkRecords],
         \A n \in Members : work'[n] = work[n] \/ (work[n].pc = "capturing" /\ work'[n].pc = "thrown")
  PROVE  IInv'
<1> USE DEF IInv
<1>1. /\ record # NoTeam /\ record.owner = 1 /\ proc = 1 /\ recovery.at = "done" /\ run.at # "no"
      /\ run'.at \in {"failing", "rejected"} /\ Going'
      /\ Copies' = Copies /\ Team' = Team /\ Held = record /\ Held' = record
      /\ record \in Copies /\ saved \in Copies
  BY DEF OwnerInv, NoRun, Going, Failing, Copies, Team, Held
<1>2. /\ \A n : Safe(n) => Safe(n)'
      /\ \A r, n : Told(r, n) => Told(r, n)'
      /\ \A n : Told(saved, n) => Told(saved, n)'
      /\ \A n : Told(Held, n)' <=> Told(record, n)'
      /\ \A r : Gone(r)' <=> Gone(r)
      /\ (Gone(record)' <=> Gone(record)) /\ (Gone(saved)' <=> Gone(saved))
  BY <1>1 DEF Safe, Told, Gone
<1>3. ShapeInv' /\ OwnerInv'
  BY <1>1 DEF ShapeInv, OwnerInv
<1>4. RunInv'
  <2>1. ASSUME NEW n \in Members
        PROVE  /\ work'[n].pc # "idle" => n \in Team
               /\ n >= run.next => work'[n].pc = "idle"
               /\ work'[n].pc \in {"idle", "adding", "spawning"} => n \notin made
               /\ work'[n].pc \in {"spawning", "running", "capturing", "removing", "removed"}
                    => \A r \in Copies : r.members[n].dir \/ r.members[n].discarded
    BY <1>1 DEF RunInv
  <2>2. QED
    BY <1>1, <2>1 DEF RunInv
<1>5. KeptInv'
  BY <1>1, <1>2 DEF KeptInv
<1>6. RecoveryInv'
  BY <1>1 DEF RecoveryInv
<1>7. DiscardInv'
  BY <1>1, <1>2 DEF DiscardInv
<1>8. SettledInv'
  BY <1>1, <1>2 DEF SettledInv
<1>9. MergedInv'
  BY <1>1 DEF MergedInv
<1>10. QED
  BY <1>3, <1>4, <1>5, <1>6, <1>7, <1>8, <1>9

LEMMA CaptureThrowsStep == ASSUME IInv, NEW m \in Members, CaptureThrows(m) PROVE IInv'
<1>1. /\ run.at = "running" /\ work[m].pc = "capturing" /\ run' = [run EXCEPT !.at = "failing"]
      /\ work' = [work EXCEPT ![m].pc = "thrown"] /\ worktree' = [n \in Members |-> "none"]
      /\ unsaved' = unsaved \cup Unpatched
      /\ UNCHANGED <<record, saved, patches, landed, recovery, calls, proc, made, unwanted, blind>>
  BY DEF CaptureThrows
<1>2. /\ Going /\ run \in RunRecords /\ work \in [Members -> WorkRecords] /\ made \subseteq Members
  BY <1>1 DEF IInv, ShapeInv, Going
<1>3. run' \in RunRecords /\ run'.next = run.next /\ Failing'
  BY <1>1, <1>2 DEF RunRecords, Failing
<1>4. Moved(m, "thrown")
  BY <1>1, <1>2, Moves DEF Pcs
<1>5. record # NoTeam /\ made \subseteq Team
  BY <1>1 DEF IInv, OwnerInv, NoRun, Team
<1>6. ASSUME NEW n \in made PROVE Safe(n)' /\ Told(record, n)'
  <2>1. CASE worktree[n] = "dirty" /\ ~record.members[n].patch
    <3>1. n \in unsaved'
      BY <1>1, <1>5, <2>1 DEF Unpatched
    <3>2. QED
      BY <3>1 DEF Safe, Told
  <2>2. CASE record.members[n].patch
    <3>1. n \in patches \cup unwanted
      BY <1>5, <2>2 DEF IInv, KeptInv, Copies, Team
    <3>2. QED
      BY <1>1, <2>2, <3>1 DEF Safe, Told
  <2>3. CASE worktree[n] # "dirty"
    <3>1. Safe(n) /\ Told(record, n)
      BY <1>5, <2>3 DEF IInv, KeptInv, Held
    <3>2. QED
      BY <1>1, <3>1 DEF Safe, Told
  <2>4. QED
    BY <2>1, <2>2, <2>3
<1>7. /\ worktree' \in [Members -> {"none", "clean", "dirty"}] /\ unsaved \subseteq unsaved'
      /\ \A n \in Members : worktree'[n] = "none"
  BY <1>1
<1>8. QED
  BY <1>1, <1>2, <1>3, <1>4, <1>6, <1>7, RejectedStep DEF Moved

LEMMA StartRejectsStep == ASSUME IInv, StartRejects PROVE IInv'
<1>1. /\ run.at = "failing" /\ run' = [run EXCEPT !.at = "rejected"] /\ work' = work
      /\ worktree' = worktree /\ unsaved' = unsaved
      /\ UNCHANGED <<record, saved, patches, landed, recovery, calls, proc, made, unwanted, blind>>
  BY DEF StartRejects, disk, ghosts
<1>2. /\ Going /\ Failing /\ run \in RunRecords /\ work \in [Members -> WorkRecords]
      /\ made \subseteq Members /\ worktree \in [Members -> {"none", "clean", "dirty"}]
  BY <1>1 DEF IInv, ShapeInv, Going, Failing
<1>3. run' \in RunRecords /\ run'.next = run.next /\ Failing'
  BY <1>1, <1>2 DEF RunRecords, Failing
<1>4. /\ \A n \in Members : worktree[n] # "dirty"
      /\ \A n \in made : worktree[n] = "none" /\ Safe(n) /\ Told(record, n)
  BY <1>2, FailedTold DEF IInv, RunInv, KeptInv
<1>5. \A n \in made : Safe(n)' /\ Told(record, n)'
  BY <1>1, <1>4 DEF Safe, Told
<1>6. QED
  BY <1>1, <1>2, <1>3, <1>4, <1>5, RejectedStep

-----------------------------------------------------------------------------
(* Recovery, merge and discard: a team that runs at the same time keeps its *)
(* part of the invariant.                                                  *)

LEMMA RunStays ==
  ASSUME IInv, UNCHANGED <<run, work, made>>, DOMAIN record'.members = DOMAIN record.members,
         \A m \in made : Safe(m) => Safe(m)',
         \A m \in Team : Told(record, m) => Told(record, m)',
         run.at \in {"running", "pruning"} => \A r \in Copies' : r.status \in {"running", "discarded"},
         Failing => \A m \in Members : worktree'[m] \in {worktree[m], "none"},
         \A m \in Team \cap Members : InFlight(m) /\ (\A r \in Copies : r.members[m].dir \/ r.members[m].discarded)
                           => \A r \in Copies' : r.members[m].dir \/ r.members[m].discarded
  PROVE  RunInv'
<1>1. Team' = Team
  BY DEF Team
<1>2. \A m \in Members : InFlight(m)' <=> InFlight(m)
  BY DEF InFlight
<1>3. /\ run.at = "planning" => made' = {} /\ DOMAIN record'.members = {}
                                /\ \A m \in Members : work'[m].pc = "idle"
      /\ Failing => \A m \in Members : worktree'[m] # "dirty"
      /\ (Failing' <=> Failing) /\ (Going' <=> Going)
  BY DEF IInv, RunInv, Failing, Going
<1>4. ASSUME NEW m \in Members
      PROVE  /\ work'[m].pc # "idle" => m \in Team'
             /\ Going /\ m >= run.next => work'[m].pc = "idle"
             /\ run.at # "no" /\ work'[m].pc \in {"idle", "adding", "spawning"} => m \notin made'
             /\ work'[m].pc \in {"spawning", "running", "capturing", "removing", "removed"}
                  => \A r \in Copies' : r.members[m].dir \/ r.members[m].discarded
             /\ work'[m].pc \in {"removing", "removed", "over"} /\ m \in made'
                  => Safe(m)' /\ Told(record, m)'
  <2>1. work[m].pc # "idle" => m \in Team
    BY DEF IInv, RunInv
  <2>2. work[m].pc \in {"spawning", "running", "capturing", "removing", "removed"}
          => \A r \in Copies' : r.members[m].dir \/ r.members[m].discarded
    BY <2>1 DEF IInv, RunInv, InFlight
  <2>3. work[m].pc \in {"removing", "removed", "over"} /\ m \in made => Safe(m)' /\ Told(record, m)'
    BY <2>1 DEF IInv, RunInv
  <2>4. QED
    BY <1>1, <2>1, <2>2, <2>3 DEF IInv, RunInv
<1>5. QED
  BY <1>2, <1>3, <1>4 DEF IInv, RunInv

\* Recovery takes the next member, or has none left and cleans up.
LEMMA RecoveryGoesOn ==
  ASSUME IInv, record # NoTeam, recovery.at \in {"never", "removing"},
         UNCHANGED <<saved, run, work, patches, landed, proc, ghosts>>,
         NEW r, record' = r, Shape(r), r.status = record.status, r.owed = record.owed,
         r.owner = record.owner, DOMAIN r.members = DOMAIN record.members,
         \A n \in Team : /\ r.members[n].patch = record.members[n].patch
                         /\ r.members[n].merged = record.members[n].merged
                         /\ r.members[n].discarded = record.members[n].discarded
                         /\ r.members[n].dir => record.members[n].dir
                         /\ n \in made /\ ~r.members[n].dir => Safe(n) /\ Told(record, n),
         NEW i \in Nat, \A n \in Team : n < i => ~r.members[n].dir,
         NEW trees \in [Members -> {"none", "clean", "dirty"}],
         \A n \in made : trees[n] = worktree[n]
                           \/ (trees[n] = "none" /\ Safe(n) /\ Told(record, n)),
         RecoverFrom(r, i, trees),
         calls' \in Seq(CallRecords), DOMAIN calls \subseteq DOMAIN calls',
         \A k \in DOMAIN calls' : \/ k \in DOMAIN calls /\ calls'[k] = calls[k]
                                  \/ calls'[k].pc = "recovering"
  PROVE  IInv'
<1> USE DEF IInv
<1>1. /\ record.owner = 1 /\ record' # NoTeam /\ proc # 0 /\ proc # 1 /\ run.at = "no" /\ ~Going
      /\ DOMAIN record.members = DOMAIN saved.members /\ Team = DOMAIN record.members
      /\ Team' = Team /\ made \subseteq Team /\ made \subseteq Members /\ Team \subseteq Nat
      /\ made' = made /\ unsaved' = unsaved /\ unwanted' = unwanted /\ blind' = blind
  BY DEF OwnerInv, NoTeam, Team, ShapeInv, Shape, ghosts, Going, Failing
<1> DEFINE left == {m \in DOMAIN r.members : m >= i /\ r.members[m].dir}
           next == IF left = {} THEN 0 ELSE Min(left)
<1>2. /\ next \in Nat
      /\ next # 0 => next \in Team /\ next >= i /\ \A n \in Team : n < next => ~r.members[n].dir
      /\ next = 0 => \A n \in Team : ~r.members[n].dir
  <2>1. left \subseteq Nat /\ left \subseteq Team /\ Team \subseteq Nat \ {0}
    BY <1>1 DEF Shape
  <2>2. CASE left = {}
    <3>1. ASSUME NEW n \in Team, r.members[n].dir PROVE FALSE
      <4>1. n \notin left /\ n \in Nat /\ n \in DOMAIN r.members
        BY <1>1, <2>2
      <4>2. n < i
        BY <3>1, <4>1
      <4>3. QED
        BY <3>1, <4>2
    <3>2. QED
      BY <2>2, <3>1
  <2>3. CASE left # {}
    <3>1. Min(left) \in left /\ \A y \in left : Min(left) <= y
      BY <2>1, <2>3, Least
    <3>2. \A n \in Team : n < Min(left) => ~r.members[n].dir
      <4>1. Min(left) \in Nat
        BY <2>1, <3>1
      <4>2. ASSUME NEW n \in Team, n < Min(left), n >= i, r.members[n].dir PROVE FALSE
        <5>1. n \in left /\ n \in Nat
          BY <1>1, <4>2
        <5>2. Min(left) <= n
          BY <3>1, <5>1
        <5>3. QED
          BY <4>1, <4>2, <5>1, <5>2
      <4>3. \A n \in Team : n \in Nat
        BY <1>1
      <4>4. QED
        BY <4>2, <4>3
    <3>3. QED
      BY <2>1, <2>3, <3>1, <3>2
  <2>4. QED
    BY <2>2, <2>3
<1>3. /\ recovery'.m = next /\ recovery'.at = CASE next = 0 -> "pruning"
                           [] next > 0 /\ r.members[next].patch -> "removing"
                           [] OTHER -> "capturing"
      /\ recovery' = [at |-> recovery'.at, m |-> next]
      /\ worktree' = IF next = 0 THEN [n \in Members |-> "none"] ELSE trees
  BY DEF RecoverFrom, NextWith
<1> HIDE DEF next
<1>4. /\ next = 0 => recovery'.at = "pruning"
      /\ next # 0 => recovery'.at \in {"capturing", "removing"}
      /\ recovery'.at = "removing" => r.members[next].patch
      /\ recovery' \in RecoveryRecords
      /\ worktree' \in [Members -> {"none", "clean", "dirty"}]
  BY <1>2, <1>3 DEF RecoveryRecords
<1>5. ShapeInv'
  BY <1>1, <1>4 DEF ShapeInv
<1>6. OwnerInv'
  BY <1>1, <1>4 DEF OwnerInv
<1>7. /\ \A n : Safe(n)' <=> Safe(n)
      /\ \A n \in Team : Told(record, n)' <=> Told(record, n)
      /\ \A n \in Team : Told(saved, n)' <=> Told(saved, n)
      /\ Held = record /\ Held' = record'
  BY <1>1 DEF Safe, Told, Held
<1>8. RunInv'
  <2>1. ~Failing /\ \A m \in Members : ~InFlight(m)
    BY <1>1 DEF RunInv, Going
  <2>2. QED
    BY <1>1, <1>7, <2>1, RunStays
<1>9. KeptInv'
  <2>1. ASSUME NEW n \in made
        PROVE  /\ worktree'[n] = "dirty" \/ (worktree'[n] = "none" /\ Safe(n)')
               /\ worktree'[n] = "none" => Told(record, n)'
    <3>1. CASE next = 0
      <4>1. ~r.members[n].dir
        BY <1>1, <1>2, <3>1
      <4>2. QED
        BY <1>1, <1>3, <1>7, <3>1, <4>1
    <3>2. CASE next # 0
      BY <1>1, <1>3, <1>7, <3>2 DEF KeptInv
    <3>3. QED
      BY <3>1, <3>2
  <2>2. \A n \in made : Told(Held, n)' <=> Told(record, n)'
    BY <1>7 DEF Told
  <2>3. ASSUME NEW n \in Team
        PROVE  /\ n \in made /\ ~record'.members[n].dir => Safe(n)' /\ Told(record, n)'
               /\ record'.members[n].patch => n \in patches' \cup unwanted'
               /\ record'.members[n].discarded => n \in unwanted'
               /\ n \in made /\ ~saved'.members[n].dir => Safe(n)' /\ Told(saved, n)'
               /\ saved'.members[n].patch => n \in patches' \cup unwanted'
               /\ saved'.members[n].discarded => n \in unwanted'
    BY <1>1, <1>7 DEF KeptInv, Copies
  <2>4. QED
    BY <1>1, <2>1, <2>2, <2>3 DEF KeptInv, Copies
<1>10. RecoveryInv'
  <2>1. recovery'.at = "removing" => Safe(next)' /\ Told(record, next)'
    BY <1>1, <1>2, <1>4, <1>7 DEF KeptInv, Copies, Safe, Told
  <2>2. QED
    BY <1>1, <1>2, <1>3, <1>4, <2>1 DEF RecoveryInv
<1>11. (Gone(record)' <=> Gone(record)) /\ (Gone(saved)' <=> Gone(saved))
  BY <1>1 DEF Gone
<1>12. DiscardInv'
  <2>1. \A s \in Copies' : s.status = "discarded" => Gone(s)'
    BY <1>1, <1>11 DEF DiscardInv, Copies
  <2>2. QED
    BY <1>1, <1>11, <2>1 DEF DiscardInv
<1>13. SettledInv'
  BY <1>1, <1>7 DEF SettledInv
<1>14. MergedInv'
  BY <1>1 DEF MergedInv, Copies
<1>15. QED
  BY <1>5, <1>6, <1>8, <1>9, <1>10, <1>12, <1>13, <1>14

\* What a step that leaves every variable of the invariant as it is keeps.
LEMMA Stutter ==
  ASSUME IInv, UNCHANGED <<record, saved, run, work, worktree, patches, landed, recovery, calls,
                           proc, ghosts>>
  PROVE  IInv'
<1>1. /\ record' = record /\ saved' = saved /\ run' = run /\ work' = work
      /\ worktree' = worktree /\ patches' = patches /\ landed' = landed
      /\ made' = made /\ unsaved' = unsaved /\ unwanted' = unwanted /\ blind' = blind
      /\ recovery' = recovery /\ calls' = calls /\ proc' = proc
  BY DEF ghosts
<1>2. /\ Copies' = Copies /\ Team' = Team /\ Held' = Held
      /\ \A m : (Safe(m)' <=> Safe(m)) /\ (InFlight(m)' <=> InFlight(m))
      /\ (Failing' <=> Failing) /\ (Going' <=> Going)
  BY <1>1 DEF Copies, Team, Held, Safe, InFlight, Going, Failing
<1>3. /\ \A m : (Told(record, m)' <=> Told(record, m)) /\ (Told(saved, m)' <=> Told(saved, m))
                /\ (Told(Held, m)' <=> Told(Held, m))
      /\ \A r, m : Told(r, m)' <=> Told(r, m)
      /\ (Gone(record)' <=> Gone(record)) /\ \A r : Gone(r)' <=> Gone(r)
  BY <1>1, <1>2 DEF Told, Gone
<1>4. ShapeInv' /\ OwnerInv' /\ RunInv'
  BY <1>1, <1>2, <1>3 DEF IInv, ShapeInv, OwnerInv, RunInv
<1>5. KeptInv' /\ RecoveryInv' /\ DiscardInv' /\ SettledInv' /\ MergedInv'
  BY <1>1, <1>2, <1>3 DEF IInv, KeptInv, RecoveryInv, DiscardInv, SettledInv, MergedInv
<1>6. QED
  BY <1>4, <1>5 DEF IInv

\* Once per process, before anything that looks at a record.
LEMMA RecoverStep == ASSUME IInv, Recover \/ Merge PROVE IInv'
<1>1. /\ record # NoTeam /\ Recovering
      /\ UNCHANGED <<record, saved, run, work, patches, landed, proc, ghosts>>
  BY DEF Recover, Merge
<1>2. /\ calls' \in Seq(CallRecords) /\ DOMAIN calls \subseteq DOMAIN calls'
      /\ \A k \in DOMAIN calls' : \/ k \in DOMAIN calls /\ calls'[k] = calls[k]
                                  \/ /\ k \notin DOMAIN calls
                                     /\ calls'[k] = [kind |-> "merge", at |-> 0, pc |-> "recovering"]
  <2>1. calls \in Seq(CallRecords)
    BY DEF IInv, ShapeInv
  <2>2. CASE calls' = calls
    BY <2>1, <2>2
  <2>3. CASE Merge
    <3>1. [kind |-> "merge", at |-> 0, pc |-> "recovering"] \in CallRecords
      BY DEF CallRecords
    <3>2. calls' = Append(calls, [kind |-> "merge", at |-> 0, pc |-> "recovering"])
      BY <2>3 DEF Merge
    <3>3. QED
      BY <2>1, <3>1, <3>2
  <2>4. QED
    BY <2>2, <2>3 DEF Recover
<1>3. CASE recovery.at = "never" /\ Stale
  <2>1. RecoverFrom(record, 1, worktree)
    BY <1>1, <1>3 DEF Recovering
  <2>2. Shape(record) /\ worktree \in [Members -> {"none", "clean", "dirty"}]
    BY DEF IInv, ShapeInv
  <2>3. \A n \in Team : ~(n < 1)
    BY <2>2 DEF Shape, Team
  <2>4. \A n \in Team : n \in made /\ ~record.members[n].dir => Safe(n) /\ Told(record, n)
    BY DEF IInv, KeptInv, Copies, Team
  <2>5. QED
    BY <1>1, <1>2, <1>3, <2>1, <2>2, <2>3, <2>4, RecoveryGoesOn
<1>4. CASE ~(recovery.at = "never" /\ Stale)
  <2>1. /\ recovery'.at = IF recovery.at = "never" THEN "done" ELSE recovery.at
        /\ recovery'.m = recovery.m /\ recovery' \in RecoveryRecords /\ worktree' = worktree
    BY <1>1, <1>4 DEF Recovering, IInv, ShapeInv, RecoveryRecords
  <2>2. /\ record' = record /\ saved' = saved /\ run' = run /\ work' = work
        /\ patches' = patches /\ landed' = landed /\ proc' = proc
        /\ made' = made /\ unsaved' = unsaved /\ unwanted' = unwanted /\ blind' = blind
    BY <1>1 DEF ghosts
  <2>3. /\ Copies' = Copies /\ Team' = Team /\ Held' = Held
        /\ \A m : Safe(m)' <=> Safe(m)
        /\ \A m : (Told(record, m)' <=> Told(record, m)) /\ (Told(saved, m)' <=> Told(saved, m))
                  /\ (Told(Held, m)' <=> Told(Held, m))
        /\ \A r, m : Told(r, m)' <=> Told(r, m)
        /\ (Gone(record)' <=> Gone(record)) /\ \A r : Gone(r)' <=> Gone(r)
    BY <2>2 DEF Copies, Team, Held, Safe, Told, Gone
  <2>4. ShapeInv'
    BY <1>2, <2>1, <2>2 DEF IInv, ShapeInv
  <2>5. OwnerInv'
    <3>1. proc # 0 /\ record.owner = 1 /\ (recovery.at = "never" /\ record.owed => proc = 1)
      BY <1>1, <1>4 DEF IInv, OwnerInv, Stale
    <3>2. recovery.at = "never" => run.at = "no" /\ ~record.owed
      BY <1>1, <3>1 DEF IInv, OwnerInv
    <3>3. QED
      BY <1>1, <2>1, <2>2, <3>1, <3>2 DEF IInv, OwnerInv
  <2>6. RunInv'
    <3>1. run.at \in {"running", "pruning"} => \A r \in Copies : r.status \in {"running", "discarded"}
      BY DEF IInv, RunInv
    <3>2. DOMAIN record'.members = DOMAIN record.members
      BY <2>2
    <3>3. \A m \in Members : worktree'[m] \in {worktree[m], "none"}
      BY <2>1
    <3>4. QED
      BY <2>2, <2>3, <3>1, <3>2, <3>3, RunStays
  <2>7. KeptInv' /\ SettledInv'
    BY <2>1, <2>2, <2>3 DEF IInv, KeptInv, SettledInv
  <2>8. RecoveryInv'
    BY <2>1, <2>2, <2>3 DEF IInv, RecoveryInv
  <2>9. DiscardInv'
    BY <1>2, <2>1, <2>2, <2>3 DEF IInv, DiscardInv
  <2>10. MergedInv'
    BY <1>2, <2>1, <2>2, <2>3 DEF IInv, MergedInv
  <2>11. QED
    BY <2>4, <2>5, <2>6, <2>7, <2>8, <2>9, <2>10 DEF IInv
<1>5. QED
  BY <1>3, <1>4

\* A worktree that recovery removes has been captured.
LEMMA RecoveryRemovesStep == ASSUME IInv, RecoveryRemoves PROVE IInv'
<1>1. /\ recovery.at = "removing" /\ record' = [record EXCEPT !.members[recovery.m].dir = FALSE]
      /\ RecoverFrom([record EXCEPT !.members[recovery.m].dir = FALSE], recovery.m + 1,
                     [worktree EXCEPT ![recovery.m] = "none"])
      /\ UNCHANGED <<saved, run, work, patches, landed, proc, ghosts, calls>>
  BY DEF RecoveryRemoves, Keep
<1>2. /\ record # NoTeam /\ recovery.m \in Team /\ Shape(record) /\ calls \in Seq(CallRecords)
      /\ worktree \in [Members -> {"none", "clean", "dirty"}] /\ recovery.m + 1 \in Nat
      /\ \A n \in Team : n < recovery.m => ~record.members[n].dir
      /\ recovery.m \in made => Safe(recovery.m) /\ Told(record, recovery.m)
      /\ made \subseteq Members /\ Team \subseteq Nat /\ recovery.m \in Nat
  BY <1>1 DEF IInv, OwnerInv, RecoveryInv, ShapeInv, Shape, Team, RecoveryRecords
<1>3. PICK r : r = [record EXCEPT !.members[recovery.m].dir = FALSE]
  OBVIOUS
<1>4. DirSet(record, r, recovery.m, FALSE)
  BY <1>2, <1>3, MarkChanges DEF Team
<1>5. PICK trees : trees = [worktree EXCEPT ![recovery.m] = "none"]
  OBVIOUS
<1>6. trees \in [Members -> {"none", "clean", "dirty"}]
  BY <1>2, <1>5
<1>7. \A n \in made : trees[n] = worktree[n] \/ (trees[n] = "none" /\ Safe(n) /\ Told(record, n))
  BY <1>2, <1>5
<1>8. \A n \in Team : /\ r.members[n].patch = record.members[n].patch
                      /\ r.members[n].merged = record.members[n].merged
                      /\ r.members[n].discarded = record.members[n].discarded
                      /\ r.members[n].dir => record.members[n].dir
                      /\ n \in made /\ ~r.members[n].dir => Safe(n) /\ Told(record, n)
  <2>1. \A n \in Team : n \in made /\ ~record.members[n].dir => Safe(n) /\ Told(record, n)
    BY DEF IInv, KeptInv, Copies, Team
  <2>2. QED
    BY <1>2, <1>4, <2>1 DEF DirSet, Team
<1>9. \A n \in Team : n < recovery.m + 1 => ~r.members[n].dir
  BY <1>2, <1>4 DEF DirSet, Team
<1>10. record' = r /\ RecoverFrom(r, recovery.m + 1, trees)
  BY <1>1, <1>3, <1>5
<1>11. /\ Shape(r) /\ r.status = record.status /\ r.owed = record.owed /\ r.owner = record.owner
       /\ DOMAIN r.members = DOMAIN record.members
  BY <1>4 DEF DirSet
<1>12. /\ calls' \in Seq(CallRecords) /\ DOMAIN calls \subseteq DOMAIN calls'
       /\ \A k \in DOMAIN calls' : k \in DOMAIN calls /\ calls'[k] = calls[k]
  BY <1>1, <1>2
<1>13. QED
  BY ZenonT(60), <1>1, <1>2, <1>6, <1>7, <1>8, <1>9, <1>10, <1>11, <1>12, RecoveryGoesOn

\* Capture before teardown, again.
LEMMA RecoveryCapturesStep == ASSUME IInv, RecoveryCaptures PROVE IInv'
<1>0. PICK m : m = recovery.m
  OBVIOUS
<1>1. /\ recovery.at = "capturing" /\ Captured(m) /\ saved' = saved
      /\ recovery' = [recovery EXCEPT !.at = "removing"]
      /\ run' = run /\ work' = work /\ worktree' = worktree /\ landed' = landed /\ calls' = calls
      /\ proc' = proc /\ made' = made /\ unwanted' = unwanted /\ blind' = blind
  BY <1>0 DEF RecoveryCaptures, Captured, Keep
<1>2. /\ record # NoTeam /\ m \in Team /\ Shape(record) /\ m \in DOMAIN record.members
      /\ \A n \in Team : n < m => ~record.members[n].dir
      /\ record.owner = 1 /\ proc # 0 /\ run.at = "no" /\ Team = DOMAIN record.members
      /\ DOMAIN record.members = DOMAIN saved.members /\ made \subseteq Team
  BY <1>0, <1>1 DEF IInv, OwnerInv, RecoveryInv, ShapeInv, Team
<1>3. recovery' \in RecoveryRecords /\ recovery'.at = "removing" /\ recovery'.m = m
  BY <1>0, <1>1 DEF IInv, ShapeInv, RecoveryRecords
<1>4. /\ patches \subseteq patches' /\ unsaved \subseteq unsaved'
      /\ Shape(record') /\ record'.status = record.status /\ record'.owed = record.owed
      /\ record'.owner = record.owner /\ DOMAIN record'.members = Team
      /\ \A n \in Team : /\ record'.members[n].dir = record.members[n].dir
                         /\ record'.members[n].merged = record.members[n].merged
                         /\ record'.members[n].discarded = record.members[n].discarded
                         /\ record.members[n].patch => record'.members[n].patch
                         /\ record'.members[n].patch => record.members[n].patch \/ n \in patches'
      /\ m \in made => Safe(m)' /\ Told(record, m)'
  <2>1. m \in made => /\ worktree[m] = "dirty" \/ (worktree[m] = "none" /\ Safe(m))
                      /\ worktree[m] = "none" => Told(record, m)
    BY <1>2 DEF IInv, KeptInv, Held
  <2>2. CASE worktree[m] = "dirty" /\ patches' = patches \cup {m} /\ unsaved' = unsaved
             /\ record' = [record EXCEPT !.members[m].patch = TRUE]
    <3>1. PatchSet(record, record', m, TRUE)
      BY <1>2, <2>2, MarkChanges
    <3>2. QED
      BY <1>2, <2>2, <3>1 DEF PatchSet, Safe, Told
  <2>3. CASE /\ record' = record /\ patches' = patches /\ unsaved \subseteq unsaved'
             /\ m \in unsaved' \/ worktree[m] # "dirty"
    BY <1>1, <1>2, <2>1, <2>3 DEF Safe, Told
  <2>4. QED
    BY <1>1, <2>2, <2>3 DEF Captured, Keep
<1>5. /\ \A n : Safe(n) => Safe(n)'
      /\ \A n \in Team : Told(record, n) => Told(record, n)'
      /\ \A n \in Team : Told(saved, n) => Told(saved, n)'
      /\ Held = record /\ Held' = record' /\ record' # NoTeam /\ Team' = Team
  BY <1>1, <1>2, <1>4 DEF Safe, Told, Held, NoTeam, Team
<1>6. ShapeInv'
  BY <1>1, <1>3, <1>4 DEF IInv, ShapeInv
<1>7. OwnerInv'
  BY <1>1, <1>2, <1>3, <1>4, <1>5 DEF IInv, OwnerInv
<1>8. RunInv'
  <2>1. ~Failing /\ \A n \in Members : ~InFlight(n)
    BY <1>2 DEF IInv, RunInv, Going, Failing
  <2>2. QED
    BY <1>1, <1>2, <1>4, <1>5, <2>1, RunStays
<1>9. KeptInv'
  <2>1. \A n \in made : /\ worktree'[n] = "dirty" \/ (worktree'[n] = "none" /\ Safe(n)')
                        /\ worktree'[n] = "none" => Told(record, n)'
    BY <1>1, <1>2, <1>5 DEF IInv, KeptInv
  <2>2. \A n \in made : Told(Held, n)' <=> Told(record, n)'
    BY <1>5 DEF Told
  <2>3. ASSUME NEW n \in Team
        PROVE  /\ n \in made /\ ~record'.members[n].dir => Safe(n)' /\ Told(record, n)'
               /\ record'.members[n].patch => n \in patches' \cup unwanted'
               /\ record'.members[n].discarded => n \in unwanted'
               /\ n \in made /\ ~saved'.members[n].dir => Safe(n)' /\ Told(saved, n)'
               /\ saved'.members[n].patch => n \in patches' \cup unwanted'
               /\ saved'.members[n].discarded => n \in unwanted'
    BY <1>1, <1>2, <1>4, <1>5 DEF IInv, KeptInv, Copies
  <2>4. QED
    BY <1>1, <1>2, <1>4, <2>1, <2>2, <2>3 DEF KeptInv, Copies
<1>10. RecoveryInv'
  BY <1>1, <1>2, <1>3, <1>4, <1>5 DEF RecoveryInv
<1>11. (Gone(record)' <=> Gone(record)) /\ (Gone(saved)' <=> Gone(saved))
  BY <1>1, <1>2, <1>4 DEF Gone
<1>12. DiscardInv'
  <2>1. \A s \in Copies' : s.status = "discarded" => Gone(s)'
    BY <1>1, <1>4, <1>11 DEF IInv, DiscardInv, Copies
  <2>2. QED
    BY <1>1, <1>2, <1>4, <1>5, <1>11, <2>1 DEF IInv, DiscardInv
<1>13. SettledInv'
  BY <1>1, <1>2, <1>4, <1>5 DEF IInv, SettledInv
<1>14. MergedInv'
  <2>1. \A k \in DOMAIN calls' : calls'[k].pc \notin {"applying", "applied", "refused"}
    BY <1>1 DEF IInv, MergedInv
  <2>2. \A r \in Copies' : \A n \in DOMAIN r.members : r.members[n].merged => n \in landed'
    BY <1>1, <1>2, <1>4 DEF IInv, MergedInv, Copies
  <2>3. \A r \in Copies' : r.status = "merged" => \A n \in DOMAIN r.members :
             n \in landed' \/ r.members[n].discarded \/ n \notin made' \/ n \in unsaved' \cup blind'
    BY <1>1, <1>2, <1>4 DEF IInv, MergedInv, Copies
  <2>4. QED
    BY <2>1, <2>2, <2>3 DEF MergedInv
<1>15. QED
  BY <1>6, <1>7, <1>8, <1>9, <1>10, <1>12, <1>13, <1>14 DEF IInv

\* A recovery is rejected, or a call that awaits one.
LEMMA RejectionStep ==
  ASSUME IInv, record # NoTeam,
         UNCHANGED <<record, saved, run, work, disk, proc, ghosts>>,
         \/ recovery' = recovery
         \/ recovery.at = "capturing" /\ recovery' = [recovery EXCEPT !.at = "rejected"],
         calls' \in Seq(CallRecords), DOMAIN calls' = DOMAIN calls,
         \A k \in DOMAIN calls : calls'[k] \in {calls[k], Over}
  PROVE  IInv'
<1>1. /\ record' = record /\ saved' = saved /\ run' = run /\ work' = work
      /\ worktree' = worktree /\ patches' = patches /\ landed' = landed /\ proc' = proc
      /\ made' = made /\ unsaved' = unsaved /\ unwanted' = unwanted /\ blind' = blind
  BY DEF disk, ghosts
<1>2. /\ Copies' = Copies /\ Team' = Team /\ Held' = Held
      /\ \A m : (Safe(m)' <=> Safe(m)) /\ (InFlight(m)' <=> InFlight(m))
      /\ (Failing' <=> Failing) /\ (Going' <=> Going)
  BY <1>1 DEF Copies, Team, Held, Safe, InFlight, Going, Failing
<1>3. /\ \A m : (Told(record, m)' <=> Told(record, m)) /\ (Told(saved, m)' <=> Told(saved, m))
                /\ (Told(Held, m)' <=> Told(Held, m))
      /\ \A r, m : Told(r, m)' <=> Told(r, m)
      /\ (Gone(record)' <=> Gone(record)) /\ \A r : Gone(r)' <=> Gone(r)
  BY <1>1, <1>2 DEF Told, Gone
<1>4. /\ recovery' \in RecoveryRecords
      /\ recovery' = recovery \/ (recovery.at = "capturing" /\ recovery'.at = "rejected")
  BY DEF IInv, ShapeInv, RecoveryRecords
<1>5. \A k \in DOMAIN calls : calls'[k] = calls[k] \/ calls'[k].pc = "over"
  BY DEF Over
<1>6. ShapeInv' /\ RunInv'
  BY <1>1, <1>2, <1>3, <1>4 DEF IInv, ShapeInv, RunInv
<1>7. OwnerInv'
  BY <1>1, <1>4 DEF IInv, OwnerInv
<1>8. KeptInv' /\ SettledInv'
  BY <1>1, <1>2, <1>3 DEF IInv, KeptInv, SettledInv
<1>9. RecoveryInv'
  BY <1>1, <1>2, <1>3, <1>4 DEF IInv, RecoveryInv
<1>10. DiscardInv'
  BY <1>1, <1>2, <1>3, <1>5 DEF IInv, DiscardInv
<1>11. MergedInv'
  BY <1>1, <1>2, <1>4, <1>5 DEF IInv, MergedInv
<1>12. QED
  BY <1>6, <1>7, <1>8, <1>9, <1>10, <1>11 DEF IInv

LEMMA RecoveryThrowsStep == ASSUME IInv, RecoveryThrows PROVE IInv'
<1>1. /\ recovery.at = "capturing" /\ recovery' = [recovery EXCEPT !.at = "rejected"]
      /\ UNCHANGED <<record, saved, run, work, disk, proc, ghosts>> /\ calls' = calls
  BY DEF RecoveryThrows
<1>2. record # NoTeam /\ calls \in Seq(CallRecords)
  BY <1>1 DEF IInv, OwnerInv, ShapeInv
<1>3. QED
  BY <1>1, <1>2, RejectionStep

LEMMA MergeRejectsStep == ASSUME IInv, NEW k \in DOMAIN calls, MergeRejects(k) PROVE IInv'
<1>1. /\ calls[k].pc = "recovering" /\ calls' = [calls EXCEPT ![k] = Over] /\ recovery' = recovery
      /\ UNCHANGED <<record, saved, run, work, disk, proc, ghosts>>
  BY DEF MergeRejects, CallEnds
<1>2. record # NoTeam /\ calls \in Seq(CallRecords) /\ Over \in CallRecords
  BY <1>1 DEF IInv, OwnerInv, ShapeInv, Over, CallRecords
<1>3. /\ calls' \in Seq(CallRecords) /\ DOMAIN calls' = DOMAIN calls
      /\ \A j \in DOMAIN calls : calls'[j] \in {calls[j], Over}
  BY <1>1, <1>2
<1>4. QED
  BY <1>1, <1>2, <1>3, RejectionStep

\* What is saved with nothing owed has told everything, if the record has or is
\* a running team's.
LEMMA SavedTold ==
  ASSUME IInv, run.at = "no" => \A m \in made : Told(record, m),
         record.status \notin {"planning", "running"}, record # NoTeam
  PROVE  \A m \in made : Told(record, m)
<1>1. CASE run.at = "planning"
  BY <1>1 DEF IInv, RunInv
<1>2. CASE run.at \in {"running", "pruning"}
  BY <1>2 DEF IInv, RunInv, DiscardInv, Copies, Gone, Told, OwnerInv
<1>3. CASE Failing
  BY <1>3, FailedTold
<1>4. QED
  BY <1>1, <1>2, <1>3 DEF IInv, ShapeInv, RunRecords, Failing

\* A step that ends what is owed.
LEMMA PaidStep ==
  ASSUME IInv, record # NoTeam, run.at = "no" => \A m \in made : Told(record, m),
         record' = [record EXCEPT !.owed = FALSE], saved' = record',
         UNCHANGED <<run, work, disk, proc, ghosts>>,
         recovery' \in RecoveryRecords, recovery'.at \in {"done", recovery.at},
         recovery'.m = recovery.m,
         calls' \in Seq(CallRecords), DOMAIN calls' = DOMAIN calls,
         \A k \in DOMAIN calls : calls'[k] \in {calls[k], Over}
  PROVE  IInv'
<1>0. /\ SameMarks(record, record') /\ record'.status = record.status /\ record'.owed = FALSE
      /\ Shape(saved')
  <2>1. Shape(record)
    BY DEF IInv, ShapeInv
  <2>2. SameMarks(record, record') /\ record'.status = record.status /\ record'.owed = FALSE
    BY ZenonT(60), <2>1, FieldChanges
  <2>3. QED
    BY <2>2 DEF SameMarks
<1>1. /\ record'.owner = record.owner /\ DOMAIN record'.members = DOMAIN record.members
      /\ Shape(record') /\ record'.status = record.status /\ record'.owed = FALSE
      /\ \A m \in DOMAIN record.members :
           /\ record'.members[m].dir = record.members[m].dir
           /\ record'.members[m].patch = record.members[m].patch
           /\ record'.members[m].merged = record.members[m].merged
           /\ record'.members[m].discarded = record.members[m].discarded
      /\ worktree' = worktree /\ patches' = patches /\ landed' = landed
      /\ made' = made /\ unsaved' = unsaved /\ unwanted' = unwanted /\ blind' = blind
      /\ proc' = proc /\ run' = run /\ work' = work
  BY <1>0 DEF SameMarks, disk, ghosts
<1>2. /\ record.owner = 1 /\ record' # NoTeam /\ proc # 0
      /\ DOMAIN record.members = DOMAIN saved.members /\ made \subseteq DOMAIN record.members
      /\ Team' = Team /\ Team = DOMAIN record.members
  BY <1>1 DEF IInv, OwnerInv, NoTeam, Team
<1>3. /\ \A n : Safe(n)' <=> Safe(n)
      /\ \A n \in Team : Told(record, n)' <=> Told(record, n)
      /\ \A n \in Team : Told(saved, n)' <=> Told(record, n)
      /\ Held = record /\ Held' = record' /\ Copies' = {record'}
  BY <1>1, <1>2 DEF Safe, Told, Held, Copies
<1>4. /\ \A k \in DOMAIN calls' : calls'[k].pc = "over" \/ calls'[k] = calls[k]
      /\ \A k \in DOMAIN calls' : calls'[k].pc = "over" => ~(calls'[k].pc \in {"applying", "applied", "refused", "removing", "pruning"})
  BY DEF Over
<1>5. ShapeInv'
  BY <1>1, <1>2 DEF IInv, ShapeInv
<1>6. OwnerInv'
  BY <1>1, <1>2 DEF IInv, OwnerInv
<1>7. RunInv'
  <2>1. run.at \in {"running", "pruning"} => record.status \in {"running", "discarded"}
    BY DEF IInv, RunInv, Copies
  <2>2. ASSUME NEW m \in Team, \A r \in Copies : r.members[m].dir \/ r.members[m].discarded
        PROVE  \A r \in Copies' : r.members[m].dir \/ r.members[m].discarded
    <3>1. record.members[m].dir \/ record.members[m].discarded
      BY <2>2 DEF Copies
    <3>2. QED
      BY <1>1, <1>2, <1>3, <3>1
  <2>3. run.at \in {"running", "pruning"} => \A r \in Copies' : r.status \in {"running", "discarded"}
    BY <1>1, <1>3, <2>1
  <2>4. QED
    BY <1>1, <1>2, <1>3, <2>2, <2>3, RunStays
<1>8. KeptInv'
  <2>1. \A n \in made : Told(Held, n)' <=> Told(record, n)'
    BY <1>3 DEF Told
  <2>2. \A n \in made' : /\ worktree'[n] = "dirty" \/ (worktree'[n] = "none" /\ Safe(n)')
                         /\ worktree'[n] = "none" => Told(Held, n)'
    BY <1>1, <1>2, <1>3, <2>1 DEF IInv, KeptInv
  <2>3. \A n \in Team : /\ n \in made /\ ~record.members[n].dir => Safe(n) /\ Told(record, n)
                        /\ record.members[n].patch => n \in patches \cup unwanted
                        /\ record.members[n].discarded => n \in unwanted
    BY <1>2 DEF IInv, KeptInv, Copies
  <2>4. ASSUME NEW r \in Copies', NEW n \in Team
        PROVE  /\ n \in made' /\ ~r.members[n].dir => Safe(n)' /\ Told(r, n)'
               /\ r.members[n].patch => n \in patches' \cup unwanted'
               /\ r.members[n].discarded => n \in unwanted'
    <3>1. r = record'
      BY <1>3
    <3>2. Told(r, n)' <=> Told(record, n)'
      BY <3>1 DEF Told
    <3>3. QED
      BY <1>1, <1>2, <1>3, <2>3, <3>1, <3>2
  <2>5. \A r \in Copies' : DOMAIN r.members = Team
    BY <1>1, <1>2, <1>3
  <2>6. QED
    BY <2>2, <2>4, <2>5 DEF KeptInv
<1>9. RecoveryInv'
  BY <1>1, <1>2, <1>3 DEF IInv, RecoveryInv
<1>10. Gone(record)' <=> Gone(record)
  BY <1>1 DEF Gone
<1>11. DiscardInv'
  <2>1. \A s \in Copies' : s.status = "discarded" => Gone(s)'
    BY <1>1, <1>3, <1>10 DEF IInv, DiscardInv, Copies
  <2>2. QED
    BY <1>1, <1>2, <1>4, <1>10, <2>1 DEF IInv, DiscardInv
<1>12. SettledInv'
  BY <1>1, <1>2, <1>3, SavedTold DEF SettledInv
<1>13. MergedInv'
  BY <1>1, <1>2, <1>3, <1>4 DEF IInv, MergedInv, Copies
<1>14. QED
  BY <1>5, <1>6, <1>7, <1>8, <1>9, <1>11, <1>12, <1>13 DEF IInv

LEMMA RecoveryEndsStep == ASSUME IInv, RecoveryEnds PROVE IInv'
<1>1. /\ recovery.at = "pruning" /\ record' = [record EXCEPT !.owed = FALSE] /\ saved' = record'
      /\ recovery' = [recovery EXCEPT !.at = "done"]
      /\ UNCHANGED <<run, work, disk, proc, ghosts>> /\ calls' = calls
  BY DEF RecoveryEnds, Save
<1>2. /\ record # NoTeam /\ \A m \in made : worktree[m] = "none"
      /\ calls \in Seq(CallRecords)
  BY <1>1 DEF IInv, OwnerInv, RecoveryInv, ShapeInv
<1>3. \A m \in made : Told(record, m)
  BY <1>2 DEF IInv, KeptInv, Held
<1>4. recovery' \in RecoveryRecords /\ recovery'.at = "done" /\ recovery'.m = recovery.m
  BY <1>1 DEF IInv, ShapeInv, RecoveryRecords
<1>5. QED
  BY <1>1, <1>2, <1>3, <1>4, PaidStep

LEMMA DiscardEndsStep ==
  ASSUME IInv, NEW k \in DOMAIN calls, DiscardEnds(k) PROVE IInv'
<1>1. /\ calls[k].kind = "discard" /\ calls[k].pc = "pruning"
      /\ record' = [record EXCEPT !.owed = FALSE] /\ saved' = record'
      /\ calls' = [calls EXCEPT ![k] = Over]
      /\ UNCHANGED <<run, work, disk, proc, ghosts>> /\ recovery' = recovery
  BY DEF DiscardEnds, Save, CallEnds
<1>2. record # NoTeam
  BY <1>1 DEF IInv, OwnerInv, Over
<1>3. run.at = "no" => \A m \in made : Told(record, m)
  <2>1. run.at = "no" => ~record.owed \/ Gone(record)
    BY <1>1 DEF IInv, DiscardInv
  <2>2. Gone(record) => \A m \in made : Told(record, m)
    BY <1>2 DEF IInv, OwnerInv, Gone, Told
  <2>3. QED
    BY <1>2, <2>1, <2>2 DEF IInv, SettledInv
<1>4. /\ calls' \in Seq(CallRecords) /\ DOMAIN calls' = DOMAIN calls
      /\ \A j \in DOMAIN calls : calls'[j] \in {calls[j], Over}
  <2>1. Over \in CallRecords /\ calls \in Seq(CallRecords)
    BY DEF Over, CallRecords, IInv, ShapeInv
  <2>2. QED
    BY <1>1, <2>1
<1>5. recovery' \in RecoveryRecords
  BY <1>1 DEF IInv, ShapeInv
<1>6. QED
  BY <1>1, <1>2, <1>3, <1>4, <1>5, PaidStep

\* A step of a merge, which counts at most what is in the user's tree.
LEMMA MergeSaves ==
  ASSUME IInv, record # NoTeam, recovery.at = "done",
         NEW r, record' = r, Shape(r), r.owed = record.owed, r.owner = record.owner,
         DOMAIN r.members = Team,
         \A n \in Team : /\ r.members[n].dir = record.members[n].dir
                         /\ r.members[n].patch = record.members[n].patch
                         /\ r.members[n].discarded = record.members[n].discarded
                         /\ r.members[n].merged => n \in landed,
         \/ r.status = record.status
         \/ /\ record.status \in {"review", "cancelled", "interrupted"} /\ r.status = "merged"
            /\ Complete(r)
         \/ Failing /\ r.status = "cancelled",
         saved' = saved \/ saved' = record',
         UNCHANGED <<run, work, worktree, patches, recovery, proc, ghosts>>,
         landed \subseteq landed',
         calls' \in Seq(CallRecords), DOMAIN calls' = DOMAIN calls,
         \A k \in DOMAIN calls :
           \/ calls'[k] \in {calls[k], Over}
           \/ /\ calls'[k].pc \in {"applying", "applied", "refused"} /\ calls'[k].at \in Team
              /\ calls'[k].pc = "applied" => calls'[k].at \in landed'
  PROVE  IInv'
<1>1. /\ worktree' = worktree /\ patches' = patches /\ recovery' = recovery
      /\ made' = made /\ unsaved' = unsaved /\ unwanted' = unwanted /\ blind' = blind
      /\ proc' = proc /\ run' = run /\ work' = work
  BY DEF ghosts
<1>2. /\ record.owner = 1 /\ record' # NoTeam /\ proc # 0
      /\ DOMAIN record.members = DOMAIN saved.members /\ made \subseteq Team
      /\ Team' = Team /\ Team = DOMAIN record.members /\ (run.at = "no" => ~record.owed)
  BY DEF IInv, OwnerInv, NoTeam, Team
<1>3. /\ \A n : Safe(n)' <=> Safe(n)
      /\ \A n \in Team : Told(record, n)' <=> Told(record, n)
      /\ \A n \in Team : saved' = saved => (Told(saved, n)' <=> Told(saved, n))
      /\ \A n \in Team : saved' = record' => (Told(saved, n)' <=> Told(record, n))
      /\ Held = record /\ Held' = record'
  BY <1>1, <1>2 DEF Safe, Told, Held
<1>4. ASSUME NEW s \in Copies'
      PROVE  (s = saved /\ saved' = saved) \/ s = record'
  BY <1>4 DEF Copies
<1>5. ShapeInv'
  BY <1>1, <1>2 DEF IInv, ShapeInv
<1>6. OwnerInv'
  BY <1>1, <1>2 DEF IInv, OwnerInv
<1>7. RunInv'
  <2>1. ASSUME NEW m \in Team, \A s \in Copies : s.members[m].dir \/ s.members[m].discarded
        PROVE  \A s \in Copies' : s.members[m].dir \/ s.members[m].discarded
    <3>1. /\ record.members[m].dir \/ record.members[m].discarded
          /\ saved.members[m].dir \/ saved.members[m].discarded
      BY <2>1 DEF Copies
    <3>2. QED
      BY <1>4, <3>1
  <2>2. run.at \in {"running", "pruning"} => \A s \in Copies' : s.status \in {"running", "discarded"}
    <3>1. run.at \in {"running", "pruning"} =>
            record.status \in {"running", "discarded"} /\ saved.status \in {"running", "discarded"}
      BY DEF IInv, RunInv, Copies
    <3>2. QED
      BY <1>4, <3>1 DEF Failing
  <2>3. QED
    BY <1>1, <1>2, <1>3, <2>1, <2>2, RunStays
<1>8. KeptInv'
  <2>1. \A n \in made : Told(Held, n)' <=> Told(record, n)'
    BY <1>3 DEF Told
  <2>2. \A n \in made' : /\ worktree'[n] = "dirty" \/ (worktree'[n] = "none" /\ Safe(n)')
                         /\ worktree'[n] = "none" => Told(Held, n)'
    BY <1>1, <1>2, <1>3, <2>1 DEF IInv, KeptInv
  <2>3. \A s \in Copies : \A n \in Team :
           /\ n \in made /\ ~s.members[n].dir => Safe(n) /\ Told(s, n)
           /\ s.members[n].patch => n \in patches \cup unwanted
           /\ s.members[n].discarded => n \in unwanted
    BY <1>2 DEF IInv, KeptInv, Copies
  <2>4. ASSUME NEW s \in Copies', NEW n \in Team
        PROVE  /\ n \in made' /\ ~s.members[n].dir => Safe(n)' /\ Told(s, n)'
               /\ s.members[n].patch => n \in patches' \cup unwanted'
               /\ s.members[n].discarded => n \in unwanted'
    <3>1. CASE s = saved /\ saved' = saved
      <4>1. (Told(s, n)' <=> Told(s, n)) /\ s \in Copies
        BY <1>1, <3>1 DEF Told, Copies
      <4>2. QED
        BY <1>1, <1>3, <2>3, <4>1
    <3>2. CASE s = record'
      <4>1. (Told(s, n)' <=> Told(record, n)) /\ record \in Copies
        BY <1>1, <3>2 DEF Told, Copies
      <4>2. QED
        BY <1>1, <1>3, <2>3, <3>2, <4>1
    <3>3. QED
      BY <1>4, <3>1, <3>2
  <2>5. \A s \in Copies' : DOMAIN s.members = Team
    BY <1>2, <1>4
  <2>6. QED
    BY <2>2, <2>4, <2>5 DEF KeptInv
<1>9. RecoveryInv'
  BY <1>1, <1>2, <1>3 DEF IInv, RecoveryInv
<1>10. (Gone(record)' <=> Gone(record)) /\ \A s : Gone(s)' <=> Gone(s)
  BY <1>2 DEF Gone
<1>11. DiscardInv'
  <2>1. \A s \in Copies' : s.status = "discarded" => Gone(s)'
    <3>1. Gone(record') <=> Gone(record)
      BY <1>2 DEF Gone
    <3>2. QED
      BY <1>4, <1>10, <3>1 DEF IInv, DiscardInv, Copies
  <2>2. ASSUME NEW k \in DOMAIN calls', calls'[k].pc \in {"removing", "pruning"}
        PROVE  calls'[k] = calls[k]
    BY <2>2 DEF Over
  <2>3. QED
    BY <1>1, <1>2, <1>10, <2>1, <2>2 DEF IInv, DiscardInv
<1>12. SettledInv'
  <2>1. run.at = "no" => \A m \in made : Told(record, m)
    BY <1>2 DEF IInv, SettledInv
  <2>2. record'.status \notin {"planning", "running"} => \A m \in made : Told(record, m)
    BY <2>1, SavedTold, FailedTold
  <2>3. QED
    BY <1>1, <1>2, <1>3, <2>1, <2>2 DEF IInv, SettledInv
<1>13. MergedInv'
  <2>1. ASSUME NEW k \in DOMAIN calls'
        PROVE  /\ calls'[k].pc \in {"applying", "applied", "refused"}
                    => calls'[k].at \in Team' /\ recovery'.at = "done"
               /\ calls'[k].pc = "applied" => calls'[k].at \in landed'
    <3>1. CASE calls'[k] = calls[k]
      BY <1>1, <1>2, <3>1 DEF IInv, MergedInv
    <3>2. CASE calls'[k] # calls[k]
      BY <1>1, <1>2, <3>2 DEF Over
    <3>3. QED
      BY <3>1, <3>2
  <2>2. \A s \in Copies' : \A n \in DOMAIN s.members : s.members[n].merged => n \in landed'
    BY <1>2, <1>4 DEF IInv, MergedInv, Copies
  <2>3. record'.status = "merged" => \A n \in Team :
             n \in landed \/ record.members[n].discarded \/ n \notin made \/ n \in unsaved \cup blind
    <3>1. CASE r.status = record.status
      BY <1>2, <3>1 DEF IInv, MergedInv, Copies
    <3>2. CASE record.status \in {"review", "cancelled", "interrupted"} /\ Complete(r)
      <4>1. \A m \in made : Told(record, m)
        BY <1>2, <3>2, SavedTold DEF IInv, SettledInv
      <4>2. ASSUME NEW n \in Team
            PROVE  r.members[n].merged \/ r.members[n].discarded \/ ~r.members[n].patch
        <5>1. r.members[n] \in Range(r.members)
          BY DEF Range
        <5>2. QED
          BY <3>2, <5>1 DEF Complete
      <4>3. QED
        BY <1>2, <4>1, <4>2 DEF Told
    <3>3. CASE r.status = "cancelled"
      BY <3>3
    <3>4. QED
      BY <3>1, <3>2, <3>3
  <2>4. ASSUME NEW s \in Copies', s.status = "merged", NEW n \in DOMAIN s.members
        PROVE  n \in landed' \/ s.members[n].discarded \/ n \notin made' \/ n \in unsaved' \cup blind'
    <3>1. CASE s = saved /\ saved' = saved
      BY <1>1, <2>4, <3>1 DEF IInv, MergedInv, Copies
    <3>2. CASE s = record'
      BY <1>1, <1>2, <2>3, <2>4, <3>2
    <3>3. QED
      BY <1>4, <3>1, <3>2
  <2>5. QED
    BY <2>1, <2>2, <2>4 DEF MergedInv
<1>14. QED
  BY <1>5, <1>6, <1>7, <1>8, <1>9, <1>11, <1>12, <1>13 DEF IInv

\* r is the record with, at most, a member counted as merged that is in the tree.
Counts(r) ==
  /\ Shape(r) /\ r.status = record.status /\ r.owed = record.owed /\ r.owner = record.owner
  /\ DOMAIN r.members = Team
  /\ \A n \in Team : /\ r.members[n].dir = record.members[n].dir
                     /\ r.members[n].patch = record.members[n].patch
                     /\ r.members[n].discarded = record.members[n].discarded
                     /\ r.members[n].merged => n \in landed

LEMMA MergeEndsStep ==
  ASSUME IInv, record # NoTeam, recovery.at = "done", NEW k \in DOMAIN calls, NEW r, Counts(r),
         MergeEnds(k, r), UNCHANGED <<run, work, disk, recovery, proc, ghosts>>
  PROVE  IInv'
<1>1. PICK status : /\ record' = [r EXCEPT !.status = status] /\ saved' = record'
                    /\ status = IF Complete(r) /\ r.status \in {"review", "cancelled", "interrupted"}
                                THEN "merged" ELSE r.status
  <2>1. r = [status |-> r.status, members |-> r.members, owed |-> r.owed, owner |-> r.owner]
    BY DEF Counts, Shape
  <2>2. QED
    BY <2>1 DEF MergeEnds, Save
<1>2. /\ record' = [status |-> status, members |-> r.members, owed |-> r.owed, owner |-> r.owner]
      /\ Shape(r)
  BY <1>1 DEF Counts, Shape
<1>3. record'.members = r.members /\ record'.status = status
  BY <1>2
<1>4. SameMarks(r, record') /\ record'.owed = r.owed
  <2>1. record' = [r EXCEPT !.status = status] /\ Shape(r)
    BY <1>1, <1>2
  <2>2. LET s == [r EXCEPT !.status = status] IN SameMarks(r, s) /\ s.owed = r.owed
    BY <2>1, FieldChanges
  <2>3. QED
    BY <2>1, <2>2
<1>5. Complete(r) <=> Complete(record')
  BY <1>3 DEF Complete
<1>6. calls' \in Seq(CallRecords) /\ DOMAIN calls' = DOMAIN calls
      /\ \A j \in DOMAIN calls : calls'[j] \in {calls[j], Over}
  <2>1. Over \in CallRecords /\ calls \in Seq(CallRecords)
    BY DEF Over, CallRecords, IInv, ShapeInv
  <2>2. calls' = [calls EXCEPT ![k] = Over]
    BY DEF MergeEnds, CallEnds
  <2>3. QED
    BY <2>1, <2>2
<1>7. \/ record'.status = record.status
      \/ /\ record.status \in {"review", "cancelled", "interrupted"} /\ record'.status = "merged"
         /\ Complete(record')
  BY <1>1, <1>3, <1>5 DEF Counts
<1>8. /\ Shape(record') /\ record'.owed = record.owed /\ record'.owner = record.owner
      /\ DOMAIN record'.members = Team
      /\ \A n \in Team : /\ record'.members[n].dir = record.members[n].dir
                         /\ record'.members[n].patch = record.members[n].patch
                         /\ record'.members[n].discarded = record.members[n].discarded
                         /\ record'.members[n].merged => n \in landed
  BY <1>4 DEF Counts, SameMarks
<1>9. UNCHANGED <<run, work, worktree, patches, recovery, proc, ghosts>> /\ landed \subseteq landed'
  BY DEF disk
<1>10. QED
  BY <1>1, <1>6, <1>7, <1>8, <1>9, MergeSaves

LEMMA CallChanges ==
  ASSUME IInv, NEW k \in DOMAIN calls, NEW c \in CallRecords, calls' = [calls EXCEPT ![k] = c]
  PROVE  /\ calls' \in Seq(CallRecords) /\ DOMAIN calls' = DOMAIN calls
         /\ \A j \in DOMAIN calls : calls'[j] = IF j = k THEN c ELSE calls[j]
<1>1. calls \in Seq(CallRecords)
  BY DEF IInv, ShapeInv
<1>2. QED
  BY <1>1

\* A merge goes on with a member of the team.
LEMMA GoesOnStep ==
  ASSUME IInv, record # NoTeam, recovery.at = "done", NEW k \in DOMAIN calls, NEW r, Counts(r),
         record' = r, saved' = saved \/ saved' = record', NEW i, ToApply(r, i) # {},
         At(k, "applying", Min(ToApply(r, i))), UNCHANGED <<run, work, disk, recovery, proc, ghosts>>
  PROVE  IInv'
<1>1. ToApply(r, i) \subseteq Nat /\ ToApply(r, i) \subseteq Team
  BY DEF ToApply, Counts, Shape
<1>2. Min(ToApply(r, i)) \in Team /\ Min(ToApply(r, i)) \in Nat
  <2>1. Min(ToApply(r, i)) \in ToApply(r, i)
    BY <1>1, Least
  <2>2. QED
    BY <1>1, <2>1
<1>3. /\ calls' \in Seq(CallRecords) /\ DOMAIN calls' = DOMAIN calls
      /\ \A j \in DOMAIN calls :
           \/ calls'[j] \in {calls[j], Over}
           \/ /\ calls'[j].pc \in {"applying", "applied", "refused"} /\ calls'[j].at \in Team
              /\ calls'[j].pc = "applied" => calls'[j].at \in landed'
  <2>1. PICK n \in Team : n = Min(ToApply(r, i)) /\ n \in Nat
    BY <1>2
  <2>2. calls \in Seq(CallRecords) /\ calls' = [calls EXCEPT ![k].pc = "applying", ![k].at = n]
    BY <2>1 DEF At, IInv, ShapeInv
  <2>3. PICK c : c = [calls[k] EXCEPT !.pc = "applying", !.at = n]
    OBVIOUS
  <2>4. c \in CallRecords /\ c.pc = "applying" /\ c.at = n
    <3>1. calls[k] \in CallRecords
      BY <2>2
    <3>2. QED
      BY <2>1, <2>3, <3>1 DEF CallRecords
  <2>5. calls' = [calls EXCEPT ![k] = c]
    BY <2>2, <2>3
  <2>6. /\ calls' \in Seq(CallRecords) /\ DOMAIN calls' = DOMAIN calls
        /\ \A j \in DOMAIN calls : calls'[j] = IF j = k THEN c ELSE calls[j]
    BY <2>4, <2>5, CallChanges
  <2>7. QED
    BY <2>1, <2>4, <2>6
<1>4. UNCHANGED <<run, work, worktree, patches, recovery, proc, ghosts>> /\ landed \subseteq landed'
  BY DEF disk
<1>5. /\ Shape(r) /\ r.status = record.status /\ r.owed = record.owed /\ r.owner = record.owner
      /\ DOMAIN r.members = Team
      /\ \A n \in Team : /\ r.members[n].dir = record.members[n].dir
                         /\ r.members[n].patch = record.members[n].patch
                         /\ r.members[n].discarded = record.members[n].discarded
                         /\ r.members[n].merged => n \in landed
  BY DEF Counts
<1>6. QED
  BY <1>3, <1>4, <1>5, MergeSaves

LEMMA RecordCounts ==
  ASSUME IInv
  PROVE  Counts(record)
BY DEF IInv, ShapeInv, MergedInv, Copies, Counts, Team

LEMMA MergeBeginsStep ==
  ASSUME IInv, NEW k \in DOMAIN calls, MergeBegins(k) PROVE IInv'
<1>1. /\ calls[k].pc = "recovering" /\ recovery.at = "done"
      /\ UNCHANGED <<run, work, disk, recovery, proc, ghosts>>
  BY DEF MergeBegins
<1>2. record # NoTeam /\ Counts(record)
  BY <1>1, RecordCounts DEF IInv, OwnerInv, Over
<1>3. CASE ToApply(record, 1) = {}
  <2>1. MergeEnds(k, record)
    BY <1>3 DEF MergeBegins
  <2>2. QED
    BY <1>1, <1>2, <2>1, MergeEndsStep
<1>4. CASE ToApply(record, 1) # {}
  <2>1. At(k, "applying", Min(ToApply(record, 1))) /\ record' = record /\ saved' = saved
    BY <1>4 DEF MergeBegins
  <2>2. QED
    BY <1>1, <1>2, <1>4, <2>1, GoesOnStep
<1>5. QED
  BY <1>3, <1>4

LEMMA GitAppliesStep ==
  ASSUME IInv, NEW k \in DOMAIN calls, GitApplies(k) PROVE IInv'
<1>1. /\ calls[k].pc = "applying" /\ record' = record /\ saved' = saved
      /\ UNCHANGED <<run, work, worktree, patches, recovery, proc, ghosts>>
      /\ landed \subseteq landed'
  BY DEF GitApplies
<1>2. record # NoTeam /\ Counts(record) /\ calls[k].at \in Team /\ recovery.at = "done"
  BY <1>1, RecordCounts DEF IInv, OwnerInv, Over, MergedInv
<1>3. /\ calls' \in Seq(CallRecords) /\ DOMAIN calls' = DOMAIN calls
      /\ \A j \in DOMAIN calls :
           \/ calls'[j] \in {calls[j], Over}
           \/ /\ calls'[j].pc \in {"applying", "applied", "refused"} /\ calls'[j].at \in Team
              /\ calls'[j].pc = "applied" => calls'[j].at \in landed'
  <2>1. PICK pc \in {"applied", "refused"} :
          /\ calls' = [calls EXCEPT ![k].pc = pc, ![k].at = calls[k].at]
          /\ pc = "applied" => calls[k].at \in landed'
    BY DEF GitApplies, At
  <2>2. calls \in Seq(CallRecords) /\ calls[k] \in CallRecords
    BY DEF IInv, ShapeInv
  <2>3. PICK c : c = [calls[k] EXCEPT !.pc = pc, !.at = calls[k].at]
    OBVIOUS
  <2>4. c \in CallRecords /\ c.pc = pc /\ c.at = calls[k].at
    BY <2>1, <2>2, <2>3 DEF CallRecords
  <2>5. calls' = [calls EXCEPT ![k] = c]
    BY <2>1, <2>2, <2>3
  <2>6. /\ calls' \in Seq(CallRecords) /\ DOMAIN calls' = DOMAIN calls
        /\ \A j \in DOMAIN calls : calls'[j] = IF j = k THEN c ELSE calls[j]
    BY <2>4, <2>5, CallChanges
  <2>7. QED
    BY <1>2, <2>1, <2>4, <2>6
<1>4. QED
  BY <1>1, <1>2, <1>3, MergeSaves DEF Counts

LEMMA MergeContinuesStep ==
  ASSUME IInv, NEW k \in DOMAIN calls, MergeContinues(k) PROVE IInv'
<1>1. /\ calls[k].pc \in {"applied", "refused"}
      /\ UNCHANGED <<run, work, disk, recovery, proc, ghosts>>
  BY DEF MergeContinues
<1>2. /\ record # NoTeam /\ Counts(record) /\ recovery.at = "done" /\ calls[k].at \in Team
      /\ calls[k].pc = "applied" => calls[k].at \in landed
  BY <1>1, RecordCounts DEF IInv, OwnerInv, Over, MergedInv
<1>3. CASE ~Applied(k)
  <2>1. MergeEnds(k, record)
    BY <1>3 DEF MergeContinues
  <2>2. QED
    BY <1>1, <1>2, <2>1, MergeEndsStep
<1>4. CASE Applied(k)
  <2>1. PICK r : r = [record EXCEPT !.members[calls[k].at].merged = TRUE]
    OBVIOUS
  <2>2. MergedSet(record, r, calls[k].at, TRUE)
    BY <1>2, <2>1, MarkChanges DEF Counts
  <2>3. Counts(r)
    BY <1>2, <1>4, <2>2 DEF Counts, MergedSet, Applied
  <2>4. CASE ToApply(r, calls[k].at + 1) = {}
    <3>1. MergeEnds(k, r)
      BY <1>4, <2>1, <2>4 DEF MergeContinues
    <3>2. QED
      BY <1>1, <1>2, <2>3, <3>1, MergeEndsStep
  <2>5. CASE ToApply(r, calls[k].at + 1) # {}
    <3>1. /\ record' = r /\ saved' = record'
          /\ At(k, "applying", Min(ToApply(r, calls[k].at + 1)))
      BY <1>4, <2>1, <2>5 DEF MergeContinues, Save
    <3>2. QED
      BY <1>1, <1>2, <2>3, <2>5, <3>1, GoesOnStep
  <2>6. QED
    BY <2>4, <2>5
<1>5. QED
  BY <1>3, <1>4

\* s is r with the members of ms discarded.
DropSet(r, s, ms) ==
  /\ Shape(s) /\ s.status = r.status /\ s.owed = r.owed /\ s.owner = r.owner
  /\ DOMAIN s.members = DOMAIN r.members
  /\ \A n \in DOMAIN r.members :
       /\ s.members[n].dir = r.members[n].dir
       /\ n \in ms => /\ s.members[n].discarded = TRUE /\ s.members[n].patch = FALSE
                      /\ s.members[n].merged = FALSE
       /\ n \notin ms => s.members[n] = r.members[n]

LEMMA DropChanges ==
  ASSUME NEW r, Shape(r), NEW ms
  PROVE  DropSet(r, Dropped(r, ms), ms)
<1>1. r = [status |-> r.status, members |-> r.members, owed |-> r.owed, owner |-> r.owner]
  BY DEF Shape
<1> DEFINE ns == [n \in DOMAIN r.members |->
                    IF n \in ms THEN [r.members[n] EXCEPT !.patch = FALSE, !.discarded = TRUE,
                                                          !.merged = FALSE]
                    ELSE r.members[n]]
<1>2. Dropped(r, ms) = [status |-> r.status, members |-> ns, owed |-> r.owed, owner |-> r.owner]
  <2>1. Dropped(r, ms) = [r EXCEPT !.members = ns]
    BY DEF Dropped
  <2>2. \A x : [r EXCEPT !.members = x]
                = [status |-> r.status, members |-> x, owed |-> r.owed, owner |-> r.owner]
    BY <1>1
  <2>3. QED
    BY <2>1, <2>2
<1>3. ASSUME NEW n \in DOMAIN r.members
      PROVE  /\ IsMember(ns[n]) /\ ns[n].dir = r.members[n].dir
             /\ n \in ms => /\ ns[n].discarded = TRUE /\ ns[n].patch = FALSE /\ ns[n].merged = FALSE
             /\ n \notin ms => ns[n] = r.members[n]
  <2>1. IsMember(r.members[n])
    BY DEF Shape
  <2>2. PICK x : x = [r.members[n] EXCEPT !.patch = FALSE, !.discarded = TRUE, !.merged = FALSE]
    OBVIOUS
  <2>3. /\ IsMember(x) /\ x.dir = r.members[n].dir /\ x.discarded = TRUE /\ x.patch = FALSE
        /\ x.merged = FALSE
    BY <2>1, <2>2 DEF IsMember
  <2>4. ns[n] = IF n \in ms THEN x ELSE r.members[n]
    BY <2>2
  <2>5. QED
    BY <2>1, <2>3, <2>4
<1>4. DOMAIN ns = DOMAIN r.members /\ ns = [n \in DOMAIN ns |-> ns[n]]
  OBVIOUS
<1> HIDE DEF ns
<1>5. PICK d : d = Dropped(r, ms)
  OBVIOUS
<1>6. /\ d.members = ns /\ d.status = r.status /\ d.owed = r.owed /\ d.owner = r.owner
      /\ d = [status |-> d.status, members |-> d.members, owed |-> d.owed, owner |-> d.owner]
  BY <1>2, <1>5
<1>7. Shape(d)
  BY <1>3, <1>4, <1>6 DEF Shape
<1>8. QED
  BY <1>3, <1>4, <1>5, <1>6, <1>7 DEF DropSet

\* Members are dropped up to the next one that names a worktree.
LEMMA DiscardGoesOn ==
  ASSUME IInv, record # NoTeam, NEW r, Shape(r), r.status = record.status, r.owed = record.owed,
         r.owner = record.owner, DOMAIN r.members = Team, NEW i \in Nat,
         \A n \in Team : /\ r.members[n].patch = record.members[n].patch
                         /\ r.members[n].merged = record.members[n].merged
                         /\ r.members[n].discarded = record.members[n].discarded
                         /\ n < i => r.members[n].discarded
                         /\ \/ r.members[n].dir = record.members[n].dir
                            \/ n = i /\ ~r.members[n].dir,
         NEW cs \in Seq(CallRecords), NEW k \in DOMAIN cs, cs[k].kind = "discard",
         \A j \in DOMAIN cs : j # k => j \in DOMAIN calls /\ cs[j] = calls[j],
         NEW trees \in [Members -> {"none", "clean", "dirty"}],
         \A n \in Members : trees[n] = worktree[n]
                              \/ (trees[n] = "none" /\ n = i /\ n \in Team /\ ~r.members[n].dir),
         unwanted \subseteq unwanted', Team \subseteq unwanted',
         DiscardFrom(cs, k, r, i, trees),
         UNCHANGED <<run, work, landed, recovery, proc, made, unsaved, blind>>
  PROVE  IInv'
<1> USE DEF IInv
<1> DEFINE left == {m \in DOMAIN r.members : m >= i /\ r.members[m].dir}
           next == IF left = {} THEN 0 ELSE Min(left)
           ms   == {m \in DOMAIN r.members : m >= i /\ (next = 0 \/ m < next)}
           d    == Dropped(r, ms)
<1>1. /\ patches' = patches \ {m \in ms : r.members[m].patch}
      /\ calls' = [cs EXCEPT ![k].at = next, ![k].pc = IF next = 0 THEN "pruning" ELSE "removing"]
      /\ record' = IF next = 0 THEN [d EXCEPT !.status = "discarded"] ELSE d
      /\ saved' = saved
      /\ worktree' = IF next = 0 THEN [m \in Members |-> "none"] ELSE trees
  BY DEF DiscardFrom, NextWith, Keep
<1>2. Team \subseteq Nat \ {0}
  BY DEF Shape
<1>3. next \in Nat /\ (next # 0 => next \in Team /\ next >= i /\ r.members[next].dir)
      /\ \A n \in Team : n >= i /\ (next = 0 \/ n < next) => ~r.members[n].dir
  <2>1. left \subseteq Nat /\ left \subseteq Team
    BY <1>2
  <2>2. CASE left = {}
    BY <2>1, <2>2
  <2>3. CASE left # {}
    <3>1. Min(left) \in left /\ \A y \in left : Min(left) <= y
      BY <2>1, <2>3, Least
    <3>2. Min(left) \in Nat /\ Min(left) # 0 /\ Min(left) \in Team /\ Min(left) >= i
          /\ r.members[Min(left)].dir /\ next = Min(left)
      BY <1>2, <2>1, <2>3, <3>1
    <3>3. ASSUME NEW n \in Team, n >= i, n < Min(left), r.members[n].dir PROVE FALSE
      <4>1. n \in left /\ n \in Nat
        BY <1>2, <3>3
      <4>2. Min(left) <= n
        BY <3>1, <4>1
      <4>3. QED
        BY <3>2, <3>3, <4>1, <4>2
    <3>4. QED
      BY <3>2, <3>3
  <2>4. QED
    BY <2>2, <2>3
<1> HIDE DEF left, next
<1>4. /\ \A n \in Team : n \in ms <=> n >= i /\ (next = 0 \/ n < next)
      /\ ms \subseteq Team
  OBVIOUS
<1> HIDE DEF ms
\* The record.
<1>5. /\ Shape(record') /\ record'.owed = record.owed /\ record'.owner = record.owner
      /\ DOMAIN record'.members = Team
      /\ record'.status = IF next = 0 THEN "discarded" ELSE record.status
      /\ \A n \in Team :
           /\ record'.members[n].dir = r.members[n].dir
           /\ n \in ms => record'.members[n].discarded /\ ~record'.members[n].patch
                          /\ ~record'.members[n].merged
           /\ n \notin ms => record'.members[n] = r.members[n]
  <2>1. PICK q : q = d /\ DropSet(r, q, ms)
    <3>1. DropSet(r, Dropped(r, ms), ms)
      BY DropChanges
    <3>2. QED
      BY <3>1
  <2>2. /\ Shape(q) /\ q.status = r.status /\ q.owed = r.owed /\ q.owner = r.owner
        /\ DOMAIN q.members = DOMAIN r.members
        /\ \A n \in DOMAIN r.members :
             /\ q.members[n].dir = r.members[n].dir
             /\ n \in ms => /\ q.members[n].discarded = TRUE /\ q.members[n].patch = FALSE
                            /\ q.members[n].merged = FALSE
             /\ n \notin ms => q.members[n] = r.members[n]
    BY <2>1 DEF DropSet
  <2>3. CASE next # 0
    BY <1>1, <2>1, <2>2, <2>3
  <2>4. CASE next = 0
    <3>1. record' = [q EXCEPT !.status = "discarded"]
      BY <1>1, <2>1, <2>4
    <3>2. q = [status |-> q.status, members |-> q.members, owed |-> q.owed, owner |-> q.owner]
      BY <2>2 DEF Shape
    <3>3. record' = [status |-> "discarded", members |-> q.members, owed |-> q.owed, owner |-> q.owner]
      BY <3>1, <3>2
    <3>4. record'.members = q.members /\ record'.status = "discarded" /\ record'.owed = q.owed
          /\ record'.owner = q.owner
      BY <3>3
    <3>5. Shape(record')
      BY <2>2, <3>3, <3>4 DEF Shape
    <3>6. QED
      BY <2>2, <2>4, <3>4, <3>5
  <2>5. QED
    BY <2>3, <2>4
<1> HIDE DEF d
<1>6. \A n \in Team :
        /\ record'.members[n].dir => record.members[n].dir
        /\ record'.members[n].patch => record.members[n].patch
        /\ record'.members[n].merged => record.members[n].merged
        /\ record.members[n].discarded => record'.members[n].discarded
        /\ record.members[n].patch => record'.members[n].patch \/ record'.members[n].discarded
        /\ n < i => record'.members[n].discarded
        /\ record.members[n].dir => record'.members[n].dir \/ record'.members[n].discarded
        /\ next = 0 \/ n < next => record'.members[n].discarded
        /\ n = i /\ ~r.members[n].dir => record'.members[n].discarded
  <2>1. ASSUME NEW n \in Team PROVE n \in Nat /\ (n < i => n \notin ms) /\ (n = i /\ ~r.members[n].dir => n \in ms)
                                    /\ ((next = 0 \/ n < next) /\ n >= i => n \in ms)
    BY <1>2, <1>3, <1>4
  <2>2. QED
    BY <1>5, <2>1
<1>7. /\ record.owner = 1 /\ record' # NoTeam /\ proc # 0 /\ saved' = saved
      /\ DOMAIN record.members = DOMAIN saved.members /\ made \subseteq Team /\ made \subseteq Members
      /\ Team' = Team /\ Team = DOMAIN record.members
      /\ run' = run /\ work' = work /\ landed' = landed /\ recovery' = recovery /\ proc' = proc
      /\ made' = made /\ unsaved' = unsaved /\ blind' = blind
  BY <1>1, <1>5 DEF OwnerInv, NoTeam, Team, ShapeInv
<1>8. /\ \A n : Safe(n) => Safe(n)'
      /\ \A n \in Team : Safe(n)'
      /\ \A n \in Team : Told(record, n) => Told(record, n)'
      /\ \A n \in Team : record'.members[n].discarded => Told(record, n)'
      /\ \A n \in Team : Told(saved, n)' <=> Told(saved, n)
      /\ Held = record /\ Held' = record'
  <2>1. \A n : Safe(n) => Safe(n)'
    BY <1>1, <1>4, <1>7 DEF Safe
  <2>2. QED
    BY <2>1, <1>6, <1>7 DEF Safe, Told, Held
<1>9. \A n \in made : worktree'[n] = worktree[n]
                        \/ (worktree'[n] = "none" /\ record'.members[n].discarded)
  BY <1>1, <1>6, <1>7
<1>10. worktree' \in [Members -> {"none", "clean", "dirty"}]
       /\ \A n \in Members : worktree[n] = "none" => worktree'[n] = "none"
  BY <1>1
\* The calls.
<1>11. PICK c : c = [cs[k] EXCEPT !.at = next, !.pc = IF next = 0 THEN "pruning" ELSE "removing"]
  OBVIOUS
<1>12. /\ c \in CallRecords /\ c.kind = "discard" /\ c.at = next
       /\ c.pc = IF next = 0 THEN "pruning" ELSE "removing"
  <2>1. cs[k] \in CallRecords
    OBVIOUS
  <2>2. QED
    BY <1>3, <1>11, <2>1 DEF CallRecords
<1>13. /\ calls' \in Seq(CallRecords) /\ DOMAIN calls' = DOMAIN cs /\ calls'[k] = c
       /\ \A j \in DOMAIN calls' : j # k => j \in DOMAIN calls /\ calls'[j] = calls[j]
  <2>1. calls' = [cs EXCEPT ![k] = c]
    BY <1>1, <1>11
  <2>2. QED
    BY <1>12, <2>1
<1>14. ShapeInv'
  BY <1>5, <1>7, <1>10, <1>13 DEF ShapeInv
<1>15. OwnerInv'
  BY <1>5, <1>7 DEF OwnerInv
<1>16. RunInv'
  <2>1. ASSUME NEW m \in Team, \A s \in Copies : s.members[m].dir \/ s.members[m].discarded
        PROVE  \A s \in Copies' : s.members[m].dir \/ s.members[m].discarded
    BY <1>6, <1>7, <2>1 DEF Copies
  <2>2. run.at \in {"running", "pruning"} => \A s \in Copies' : s.status \in {"running", "discarded"}
    BY <1>5, <1>7 DEF RunInv, Copies
  <2>3. \A n \in Members : worktree'[n] \in {worktree[n], "none"}
    BY <1>1
  <2>4. QED
    BY <1>5, <1>7, <1>8, <2>1, <2>2, <2>3, RunStays
<1>17. KeptInv'
  <2>1. \A n \in made : Told(Held, n)' <=> Told(record, n)'
    BY <1>8 DEF Told
  <2>2. \A n \in made' : /\ worktree'[n] = "dirty" \/ (worktree'[n] = "none" /\ Safe(n)')
                         /\ worktree'[n] = "none" => Told(Held, n)'
    BY <1>7, <1>8, <1>9, <2>1 DEF KeptInv
  <2>3. ASSUME NEW n \in Team
        PROVE  /\ n \in made /\ ~record'.members[n].dir => Safe(n)' /\ Told(record, n)'
               /\ n \in made /\ ~saved.members[n].dir => Safe(n)' /\ Told(saved, n)'
    BY <1>6, <1>7, <1>8 DEF KeptInv, Copies
  <2>4. ASSUME NEW s \in Copies', NEW n \in Team
        PROVE  /\ n \in made' /\ ~s.members[n].dir => Safe(n)' /\ Told(s, n)'
               /\ n \in unwanted'
    <3>1. s = record' \/ s = saved'
      BY DEF Copies
    <3>2. (s = record' => (Told(s, n)' <=> Told(record, n)')) /\ (s = saved' => (Told(s, n)' <=> Told(saved, n)'))
      BY DEF Told
    <3>3. QED
      BY <1>7, <2>3, <3>1, <3>2
  <2>5. \A s \in Copies' : DOMAIN s.members = Team
    BY <1>5, <1>7 DEF Copies
  <2>6. QED
    BY <2>2, <2>4, <2>5 DEF KeptInv
<1>18. RecoveryInv'
  BY <1>6, <1>7, <1>8, <1>10 DEF RecoveryInv
<1>19. (Gone(record) => Gone(record)') /\ (Gone(saved)' <=> Gone(saved)) /\ (next = 0 => Gone(record)')
  BY <1>5, <1>6, <1>7 DEF Gone
<1>20. DiscardInv'
  <2>1. \A s \in Copies' : s.status = "discarded" => Gone(s)'
    <3>1. record'.status = "discarded" => Gone(record)'
      BY <1>5, <1>19 DEF DiscardInv, Copies
    <3>2. saved'.status = "discarded" => Gone(saved)'
      BY <1>7, <1>19 DEF DiscardInv, Copies
    <3>3. QED
      BY <3>1, <3>2 DEF Copies, Gone
  <2>2. ASSUME NEW j \in DOMAIN calls'
        PROVE  /\ calls'[j].kind = "discard" /\ calls'[j].pc = "removing" =>
                    /\ Team' \subseteq unwanted' /\ calls'[j].at \in Team'
                    /\ \A n \in Team' : n < calls'[j].at => record'.members[n].discarded
               /\ calls'[j].kind = "discard" /\ calls'[j].pc = "pruning" /\ run'.at = "no" =>
                    ~record'.owed \/ Gone(record)'
    <3>1. CASE j = k
      BY <1>3, <1>6, <1>7, <1>12, <1>13, <1>19, <3>1
    <3>2. CASE j # k
      BY <1>5, <1>6, <1>7, <1>13, <1>19, <3>2 DEF DiscardInv
    <3>3. QED
      BY <3>1, <3>2
  <2>3. QED
    BY <2>1, <2>2 DEF DiscardInv
<1>21. SettledInv'
  BY <1>5, <1>7, <1>8 DEF SettledInv
<1>22. MergedInv'
  <2>1. \A j \in DOMAIN calls' :
           /\ calls'[j].pc \in {"applying", "applied", "refused"} => calls'[j].at \in Team' /\ recovery'.at = "done"
           /\ calls'[j].pc = "applied" => calls'[j].at \in landed'
    BY <1>7, <1>12, <1>13 DEF MergedInv
  <2>2. \A s \in Copies' : \A n \in DOMAIN s.members : s.members[n].merged => n \in landed'
    BY <1>5, <1>6, <1>7 DEF MergedInv, Copies
  <2>3. \A s \in Copies' : s.status = "merged" => \A n \in DOMAIN s.members :
             n \in landed' \/ s.members[n].discarded \/ n \notin made' \/ n \in unsaved' \cup blind'
    BY <1>5, <1>6, <1>7 DEF MergedInv, Copies
  <2>4. QED
    BY <2>1, <2>2, <2>3 DEF MergedInv
<1>23. QED
  BY <1>14, <1>15, <1>16, <1>17, <1>18, <1>20, <1>21, <1>22

LEMMA DiscardStep == ASSUME IInv, Discard PROVE IInv'
<1>1. PICK c, cs : /\ c = [kind |-> "discard", at |-> 0, pc |-> "removing"] /\ cs = Append(calls, c)
  OBVIOUS
<1>2. /\ record # NoTeam /\ unwanted' = unwanted \cup Team
      /\ DiscardFrom(cs, Len(calls) + 1, record, 1, worktree)
      /\ UNCHANGED <<run, work, landed, recovery, proc, made, unsaved, blind>>
  BY <1>1 DEF Discard
<1>3. /\ Shape(record) /\ calls \in Seq(CallRecords) /\ DOMAIN record.members = Team
      /\ worktree \in [Members -> {"none", "clean", "dirty"}]
  BY DEF IInv, ShapeInv, Team
<1>4. c \in CallRecords
  BY <1>1 DEF CallRecords
<1>5. /\ cs \in Seq(CallRecords) /\ Len(calls) + 1 \in DOMAIN cs /\ cs[Len(calls) + 1].kind = "discard"
      /\ \A j \in DOMAIN cs : j # Len(calls) + 1 => j \in DOMAIN calls /\ cs[j] = calls[j]
  BY <1>1, <1>3, <1>4
<1>6. \A n \in Team : ~(n < 1)
  BY <1>3 DEF Shape
<1>7. QED
  BY <1>2, <1>3, <1>5, <1>6, DiscardGoesOn

LEMMA DiscardRemovesStep ==
  ASSUME IInv, NEW k \in DOMAIN calls, DiscardRemoves(k) PROVE IInv'
<1>1. PICK m, r, trees : /\ m = calls[k].at /\ r = [record EXCEPT !.members[m].dir = FALSE]
                         /\ trees = [worktree EXCEPT ![m] = "none"]
  OBVIOUS
<1>2. /\ calls[k].kind = "discard" /\ calls[k].pc = "removing"
      /\ DiscardFrom(calls, k, r, m, trees)
      /\ UNCHANGED <<run, work, landed, recovery, proc, ghosts>>
  BY <1>1 DEF DiscardRemoves
<1>3. /\ record # NoTeam /\ Team \subseteq unwanted /\ m \in Team
      /\ \A n \in Team : n < m => record.members[n].discarded
  BY <1>1, <1>2 DEF IInv, OwnerInv, DiscardInv, Over
<1>4. /\ Shape(record) /\ calls \in Seq(CallRecords) /\ DOMAIN record.members = Team /\ m \in Nat
      /\ worktree \in [Members -> {"none", "clean", "dirty"}]
  BY <1>3 DEF IInv, ShapeInv, Team, Shape
<1>5. DirSet(record, r, m, FALSE)
  BY <1>1, <1>3, <1>4, MarkChanges
<1>6. /\ Shape(r) /\ r.status = record.status /\ r.owed = record.owed /\ r.owner = record.owner
      /\ DOMAIN r.members = Team
      /\ \A n \in Team : /\ r.members[n].patch = record.members[n].patch
                         /\ r.members[n].merged = record.members[n].merged
                         /\ r.members[n].discarded = record.members[n].discarded
                         /\ n < m => r.members[n].discarded
                         /\ \/ r.members[n].dir = record.members[n].dir
                            \/ n = m /\ ~r.members[n].dir
  BY <1>3, <1>4, <1>5 DEF DirSet
<1>7. /\ trees \in [Members -> {"none", "clean", "dirty"}]
      /\ \A n \in Members : trees[n] = worktree[n]
                              \/ (trees[n] = "none" /\ n = m /\ n \in Team /\ ~r.members[n].dir)
  BY <1>1, <1>3, <1>4, <1>5 DEF DirSet
<1>8. unwanted' = unwanted /\ UNCHANGED <<made, unsaved, blind>>
  BY <1>2 DEF ghosts
<1>9. QED
  BY SMTT(30), <1>2, <1>3, <1>4, <1>6, <1>7, <1>8, DiscardGoesOn

-----------------------------------------------------------------------------
(* start, #dispatch, cancel and the process. *)

\* The record of the run changes and with it nothing else.
LEMMA RunStep ==
  ASSUME IInv, record # NoTeam, run' \in RunRecords, run'.at = run.at, run'.next = run.next,
         UNCHANGED <<record, saved, work, disk, recovery, calls, proc, ghosts>>
  PROVE  IInv'
<1>1. Shape(record) /\ Shape(saved')
  BY DEF IInv, ShapeInv
<1>2. SameMarks(record, record')
  BY <1>1 DEF SameMarks
<1>3. Papers'
  BY <1>2, Quiet
<1>4. /\ record' = record /\ saved' = saved /\ work' = work /\ patches' = patches /\ made' = made
      /\ unsaved' = unsaved /\ unwanted' = unwanted /\ blind' = blind /\ worktree' = worktree
  BY DEF disk, ghosts
<1>5. /\ Copies' = Copies /\ Team' = Team
      /\ \A m : (Safe(m)' <=> Safe(m)) /\ (InFlight(m)' <=> InFlight(m))
      /\ \A m : Told(record, m)' <=> Told(record, m)
      /\ (Failing' <=> Failing) /\ (Going' <=> Going)
  BY <1>4 DEF Copies, Team, Safe, InFlight, Told, Going, Failing
<1>6. ShapeInv'
  BY <1>4 DEF IInv, ShapeInv
<1>7. RunInv'
  BY <1>4, <1>5 DEF IInv, RunInv
<1>8. QED
  BY <1>3, <1>6, <1>7 DEF IInv, Papers

LEMMA InterruptStep == ASSUME IInv, Interrupt PROVE IInv'
<1>1. /\ run.at # "no" /\ run \in RunRecords
      /\ run' = [run EXCEPT !.cut = TRUE] \/ run' = [run EXCEPT !.signal = TRUE]
      /\ UNCHANGED <<record, saved, work, disk, recovery, calls, proc, ghosts>>
  BY DEF Interrupt, CutOff, IInv, ShapeInv
<1>2. run' \in RunRecords /\ run'.at = run.at /\ run'.next = run.next
  BY <1>1 DEF RunRecords
<1>3. record # NoTeam
  BY <1>1 DEF IInv, OwnerInv, NoRun
<1>4. QED
  BY <1>1, <1>2, <1>3, RunStep

\* The status of a team that is planned, of whom no member is there yet.
LEMMA Planned ==
  ASSUME IInv, run.at = "planning",
         NEW r, record' = r, saved' = r, Shape(r), r.owner = record.owner,
         r.status \notin {"discarded", "merged"},
         \A m \in DOMAIN r.members : ~r.members[m].dir /\ ~r.members[m].patch
                                     /\ ~r.members[m].merged /\ ~r.members[m].discarded,
         run' \in RunRecords,
         \/ run'.at = "planning" /\ r.owed = record.owed /\ DOMAIN r.members = {}
         \/ run'.at = "running" /\ r.status = "running"
         \/ run'.at = "no" /\ ~r.owed,
         UNCHANGED <<work, disk, recovery, calls, proc, ghosts>>
  PROVE  IInv'
<1>1. /\ record # NoTeam /\ record.owner = 1 /\ record' # NoTeam /\ proc = 1 /\ recovery.at = "done"
      /\ made = {} /\ DOMAIN record.members = {} /\ \A m \in Members : work[m].pc = "idle"
  BY DEF IInv, OwnerInv, RunInv, NoRun, NoTeam
<1>2. /\ made' = {} /\ work' = work /\ worktree' = worktree /\ patches' = patches /\ landed' = landed
      /\ recovery' = recovery /\ calls' = calls /\ proc' = proc /\ Copies' = {r}
      /\ \A m \in Members : ~InFlight(m)' /\ work'[m].pc = "idle"
  BY <1>1 DEF disk, ghosts, Copies, InFlight
<1>3. \A k \in DOMAIN calls : /\ calls[k].pc \notin {"applying", "applied", "refused"}
                              /\ calls[k].kind = "discard" => calls[k].pc # "removing"
  BY <1>1 DEF IInv, MergedInv, DiscardInv, Team
<1>4. ShapeInv'
  BY <1>1, <1>2 DEF IInv, ShapeInv
<1>5. OwnerInv'
  BY <1>1, <1>2 DEF IInv, OwnerInv
<1>6. RunInv'
  BY <1>1, <1>2 DEF IInv, RunInv, Going, Failing
<1>7. KeptInv'
  BY <1>1, <1>2 DEF IInv, KeptInv
<1>8. RecoveryInv'
  BY <1>1, <1>2 DEF IInv, RecoveryInv
<1>9. DiscardInv'
  BY <1>1, <1>2, <1>3 DEF IInv, DiscardInv
<1>10. SettledInv'
  BY <1>1, <1>2 DEF IInv, SettledInv
<1>11. MergedInv'
  BY <1>1, <1>2, <1>3 DEF IInv, MergedInv
<1>12. QED
  BY <1>4, <1>5, <1>6, <1>7, <1>8, <1>9, <1>10, <1>11 DEF IInv

LEMMA CancelStep == ASSUME IInv, Cancel PROVE IInv'
<1>1. UNCHANGED <<work, disk, recovery, calls, proc, ghosts>>
  BY DEF Cancel
<1>2. CASE run.at = "running" /\ CutOff /\ UNCHANGED <<record, saved>>
  <2>1. run \in RunRecords /\ run' = [run EXCEPT !.cut = TRUE]
    BY <1>2 DEF CutOff, IInv, ShapeInv
  <2>2. run' \in RunRecords /\ run'.at = run.at /\ run'.next = run.next
    BY <2>1 DEF RunRecords
  <2>3. record # NoTeam
    BY <1>2 DEF IInv, OwnerInv, NoRun
  <2>4. QED
    BY <1>1, <1>2, <2>2, <2>3, RunStep
<1>3. CASE /\ run.at = "planning" /\ run' = run
           /\ record' = [record EXCEPT !.status = "cancelled"] /\ saved' = record'
  <2>1. PICK r : r = [record EXCEPT !.status = "cancelled"]
    OBVIOUS
  <2>2. SameMarks(record, r) /\ r.status = "cancelled" /\ r.owed = record.owed
    BY ZenonT(60), <2>1, FieldChanges DEF IInv, ShapeInv
  <2>3. DOMAIN record.members = {} /\ run' \in RunRecords /\ run'.at = "planning"
    BY <1>3 DEF IInv, RunInv, ShapeInv
  <2>4. record' = r /\ saved' = r /\ Shape(r) /\ r.owner = record.owner /\ DOMAIN r.members = {}
    BY <1>3, <2>1, <2>2, <2>3 DEF SameMarks
  <2>5. QED
    BY <1>1, <1>3, <2>2, <2>3, <2>4, Planned
<1>4. CASE /\ run.at = "rejected" /\ run' = run
           /\ record' = [record EXCEPT !.status = "cancelled"] /\ saved' = record'
  <2>1. PICK r : r = [record EXCEPT !.status = "cancelled"]
    OBVIOUS
  <2>2. SameMarks(record, r) /\ r.status = "cancelled" /\ r.owed = record.owed
    BY ZenonT(60), <2>1, FieldChanges DEF IInv, ShapeInv
  <2>3. record # NoTeam /\ recovery.at = "done" /\ Failing /\ Counts(record)
    BY <1>4, RecordCounts DEF IInv, OwnerInv, NoRun, Failing
  <2>4. /\ Shape(r) /\ r.owner = record.owner /\ DOMAIN r.members = Team
        /\ \A n \in Team : /\ r.members[n].dir = record.members[n].dir
                           /\ r.members[n].patch = record.members[n].patch
                           /\ r.members[n].discarded = record.members[n].discarded
                           /\ r.members[n].merged => n \in landed
    BY <2>2, <2>3 DEF SameMarks, Counts, Team
  <2>5. /\ calls' \in Seq(CallRecords) /\ DOMAIN calls' = DOMAIN calls
        /\ \A k \in DOMAIN calls : calls'[k] \in {calls[k], Over}
        /\ UNCHANGED <<run, work, worktree, patches, recovery, proc, ghosts>> /\ landed \subseteq landed'
    BY <1>1, <1>4 DEF IInv, ShapeInv, disk
  <2>6. record' = r /\ saved' = record'
    BY <1>4, <2>1
  <2>7. QED
    BY <2>2, <2>3, <2>4, <2>5, <2>6, MergeSaves
<1>5. QED
  BY <1>2, <1>3, <1>4 DEF Cancel, Save

\* The supervisor's answer, or its failure to give one.
LEMMA DispatchStep ==
  ASSUME IInv, run.at = "planning", NEW members, \A k \in DOMAIN members : k \in Nat \ {0},
         NEW limit \in Limits, Dispatch(members, limit),
         UNCHANGED <<work, disk, recovery, calls, proc, ghosts>>
  PROVE  IInv'
<1>1. PICK ms : ms = [k \in DOMAIN members |-> Queued(members[k])]
  OBVIOUS
<1>2. PICK r : r = [record EXCEPT !.status = "running", !.members = ms]
  OBVIOUS
<1>3. record' = r /\ saved' = r
  BY <1>1, <1>2 DEF Dispatch, Save
<1>4. record = [status |-> record.status, members |-> record.members, owed |-> record.owed,
                owner |-> record.owner]
  BY DEF IInv, ShapeInv, Shape
<1>5. r = [status |-> "running", members |-> ms, owed |-> record.owed, owner |-> record.owner]
  BY <1>2, <1>4
<1>6. /\ r.status = "running" /\ r.members = ms /\ r.owed = record.owed /\ r.owner = record.owner
      /\ r = [status |-> r.status, members |-> r.members, owed |-> r.owed, owner |-> r.owner]
  BY <1>5
<1>7. ASSUME NEW k \in DOMAIN ms
      PROVE  /\ k \in Nat \ {0} /\ IsMember(ms[k])
             /\ ~ms[k].dir /\ ~ms[k].patch /\ ~ms[k].merged /\ ~ms[k].discarded
  BY <1>1 DEF Queued, IsMember
<1>8. Shape(r)
  <2>1. ms = [k \in DOMAIN ms |-> ms[k]]
    BY <1>1
  <2>2. QED
    BY <1>6, <1>7, <2>1 DEF Shape
<1>9. run' \in RunRecords /\ run'.at = "running"
  <2>1. run \in RunRecords /\ limit \in Nat
    BY NumbersAssumption DEF IInv, ShapeInv
  <2>2. QED
    BY <2>1 DEF RunRecords, Dispatch
<1>10. QED
  BY <1>3, <1>6, <1>7, <1>8, <1>9, Planned

LEMMA GiveUpStep ==
  ASSUME IInv, run.at = "planning", GiveUp, UNCHANGED <<work, disk, recovery, calls, proc, ghosts>>
  PROVE  IInv'
<1>1. PICK q, r : q = [record EXCEPT !.status = "failed"] /\ r = [q EXCEPT !.owed = FALSE]
  OBVIOUS
<1>2. record' = r /\ saved' = r
  BY <1>1 DEF GiveUp, Save
<1>3. Shape(record) /\ DOMAIN record.members = {}
  BY DEF IInv, ShapeInv, RunInv
<1>4. SameMarks(record, q) /\ q.status = "failed"
  BY <1>1, <1>3, FieldChanges
<1>5. Shape(q)
  BY <1>4 DEF SameMarks
<1>6. SameMarks(q, r) /\ r.status = q.status /\ r.owed = FALSE
  <2>1. LET s == [q EXCEPT !.owed = FALSE] IN
          SameMarks(q, s) /\ s.status = q.status /\ s.owed = FALSE
    BY <1>5, FieldChanges
  <2>2. QED
    BY <1>1, <2>1
<1>7. Shape(r) /\ r.owner = record.owner /\ r.status = "failed" /\ DOMAIN r.members = {}
  BY <1>3, <1>4, <1>6 DEF SameMarks
<1>8. run' \in RunRecords /\ run'.at = "no"
  BY DEF GiveUp, NoRun, RunRecords
<1>9. QED
  BY <1>2, <1>6, <1>7, <1>8, Planned

LEMMA AttemptStep ==
  ASSUME IInv, run.at = "planning", NEW p, AfterAttempt(p),
         UNCHANGED <<work, disk, recovery, calls, proc, ghosts>>
  PROVE  IInv'
<1>1. CASE GiveUp
  BY <1>1, GiveUpStep
<1>2. CASE run' = [run EXCEPT !.attempt = 2] /\ UNCHANGED <<record, saved>>
  <2>1. run' \in RunRecords /\ run'.at = run.at /\ run'.next = run.next
    BY <1>2 DEF IInv, ShapeInv, RunRecords
  <2>2. record # NoTeam
    BY DEF IInv, OwnerInv, NoRun
  <2>3. QED
    BY <1>2, <2>1, <2>2, RunStep
<1>3. CASE \E limit \in Limits : Dispatch(RepairTeamPlan(p), limit)
  <2>1. \A k \in DOMAIN RepairTeamPlan(p) : k \in Nat \ {0}
    BY DEF RepairTeamPlan
  <2>2. PICK limit \in Limits : Dispatch(RepairTeamPlan(p), limit)
    BY <1>3
  <2>3. QED
    BY <2>1, <2>2, DispatchStep
<1>4. QED
  BY <1>1, <1>2, <1>3 DEF AfterAttempt

LEMMA PlanStep ==
  ASSUME IInv, PlanFails \/ \E p \in Plans : PlanArrives(p)
  PROVE  IInv'
<1>1. CASE PlanFails
  BY <1>1, AttemptStep DEF PlanFails
<1>2. ASSUME NEW p \in Plans, PlanArrives(p) PROVE IInv'
  <2>1. run.at = "planning" /\ UNCHANGED <<work, disk, recovery, calls, proc, ghosts>>
    BY <1>2 DEF PlanArrives
  <2>2. CASE Valid(p)
    <3>1. PICK limit \in Limits : Dispatch(AsWritten(p), limit)
      BY <1>2, <2>2 DEF PlanArrives
    <3>2. \A k \in DOMAIN AsWritten(p) : k \in Nat \ {0}
      BY DEF AsWritten
    <3>3. QED
      BY <2>1, <3>1, <3>2, DispatchStep
  <2>3. CASE ~Valid(p)
    BY <1>2, <2>1, <2>3, AttemptStep DEF PlanArrives
  <2>4. QED
    BY <2>2, <2>3
<1>3. QED
  BY <1>1, <1>2

LEMMA StartStep == ASSUME IInv, Start PROVE IInv'
<1>1. /\ proc = 0 /\ proc' = 1 /\ run' = [NoRun EXCEPT !.at = "planning"]
      /\ record' = [NoTeam EXCEPT !.status = "planning", !.owed = TRUE, !.owner = 1]
      /\ saved' = record' /\ recovery' = [recovery EXCEPT !.at = "done"]
      /\ work' = work /\ calls' = calls /\ UNCHANGED <<disk, ghosts>>
  BY DEF Start, Save
<1>2. record' = [status |-> "planning", members |-> <<>>, owed |-> TRUE, owner |-> 1]
  BY <1>1 DEF NoTeam
<1>3. /\ record'.status = "planning" /\ record'.members = <<>> /\ record'.owed = TRUE
      /\ record'.owner = 1 /\ DOMAIN record'.members = {} /\ Shape(record')
  BY <1>2 DEF Shape
<1>4. /\ record = NoTeam /\ saved = NoTeam /\ work = Unused /\ \A k \in DOMAIN calls : calls[k] = Over
  BY <1>1 DEF IInv, OwnerInv
<1>5. made = {} /\ \A m \in Members : work[m].pc = "idle"
  BY <1>4 DEF IInv, OwnerInv, NoTeam, Unused
<1>6. /\ made' = {} /\ Copies' = {record'} /\ record' # NoTeam
      /\ \A m \in Members : work'[m].pc = "idle" /\ ~InFlight(m)'
      /\ \A k \in DOMAIN calls' : calls'[k].pc = "over"
  <2>1. made' = {} /\ Copies' = {record'}
    BY <1>1, <1>5 DEF ghosts, Copies
  <2>2. record' # NoTeam
    BY <1>3 DEF NoTeam
  <2>3. \A m \in Members : work'[m].pc = "idle" /\ ~InFlight(m)'
    BY <1>1, <1>5 DEF InFlight
  <2>4. \A k \in DOMAIN calls' : calls'[k].pc = "over"
    BY <1>1, <1>4 DEF Over
  <2>5. QED
    BY <2>1, <2>2, <2>3, <2>4
<1>7. run' \in RunRecords /\ run'.at = "planning" /\ recovery' \in RecoveryRecords /\ recovery'.at = "done"
  BY <1>1 DEF NoRun, RunRecords, RecoveryRecords, IInv, ShapeInv
<1>8. ShapeInv'
  BY <1>1, <1>3, <1>6, <1>7 DEF IInv, ShapeInv, disk
<1>9. OwnerInv'
  BY <1>1, <1>3, <1>6, <1>7 DEF OwnerInv
<1>10. RunInv'
  BY <1>3, <1>6, <1>7 DEF RunInv, Going, Failing
<1>11. KeptInv' /\ RecoveryInv' /\ DiscardInv'
  BY <1>3, <1>6, <1>7 DEF KeptInv, RecoveryInv, DiscardInv
<1>12. SettledInv' /\ MergedInv'
  BY <1>3, <1>6, <1>7 DEF SettledInv, MergedInv
<1>13. QED
  BY <1>8, <1>9, <1>10, <1>11, <1>12 DEF IInv

\* Every worker is done, so every member has been captured.
LEMMA CleanupStep == ASSUME IInv, Cleanup PROVE IInv'
<1>1. /\ run.at = "running" /\ (\A m \in Members : ~InFlight(m)) /\ run' = [run EXCEPT !.at = "pruning"]
      /\ worktree' = [m \in Members |-> "none"]
      /\ record' = record /\ saved' = saved /\ work' = work /\ patches' = patches /\ landed' = landed
      /\ recovery' = recovery /\ calls' = calls /\ proc' = proc /\ UNCHANGED ghosts
  BY DEF Cleanup
<1>2. run' \in RunRecords /\ run'.at = "pruning"
  BY <1>1 DEF IInv, ShapeInv, RunRecords
<1>3. /\ made' = made /\ unsaved' = unsaved /\ unwanted' = unwanted /\ blind' = blind
      /\ Copies' = Copies /\ Team' = Team
      /\ \A m : (Safe(m)' <=> Safe(m)) /\ (InFlight(m)' <=> InFlight(m))
      /\ \A r, m : Told(r, m)' <=> Told(r, m)
      /\ \A m : Told(record, m)' <=> Told(record, m)
      /\ \A m : Told(saved, m)' <=> Told(saved, m)
      /\ \A r : Gone(r)' <=> Gone(r)
      /\ Gone(record)' <=> Gone(record)
      /\ ~Failing' /\ ~Going' /\ ~Failing
  BY <1>1, <1>2 DEF ghosts, Copies, Team, Safe, InFlight, Told, Gone, Failing, Going
<1>4. /\ record # NoTeam /\ Held = record /\ Held' = record /\ proc = 1 /\ recovery.at = "done"
  BY <1>1 DEF IInv, OwnerInv, NoRun, Held
<1>5. ASSUME NEW m \in made PROVE Safe(m) /\ Told(record, m)
  <2>1. m \in Members
    BY DEF IInv, ShapeInv
  <2>2. work[m].pc = "over"
    BY <1>1, <2>1 DEF InFlight, IInv, RunInv
  <2>3. QED
    BY <2>1, <2>2 DEF IInv, RunInv
<1>6. ShapeInv'
  BY <1>1, <1>2, <1>3 DEF IInv, ShapeInv
<1>7. OwnerInv'
  BY <1>1, <1>2, <1>3, <1>4 DEF IInv, OwnerInv
<1>8. RunInv'
  BY <1>1, <1>2, <1>3 DEF IInv, RunInv
<1>9. KeptInv'
  <2>1. \A m \in made' : worktree'[m] = "none" /\ Safe(m)' /\ Told(Held, m)'
    <3>1. \A m : Told(Held, m)' <=> Told(record, m)
      BY <1>1, <1>3, <1>4 DEF Told
    <3>2. made \subseteq Members
      BY DEF IInv, ShapeInv
    <3>3. QED
      BY <1>1, <1>3, <1>5, <3>1, <3>2
  <2>2. QED
    BY <1>1, <1>3, <2>1 DEF IInv, KeptInv
<1>10. RecoveryInv'
  BY <1>1, <1>4 DEF RecoveryInv
<1>11. DiscardInv' /\ SettledInv' /\ MergedInv'
  BY <1>1, <1>2, <1>3 DEF IInv, DiscardInv, SettledInv, MergedInv
<1>12. QED
  BY <1>6, <1>7, <1>8, <1>9, <1>10, <1>11 DEF IInv

LEMMA ConcludeStep == ASSUME IInv, Conclude PROVE IInv'
<1>1. PICK status : /\ status \in {"cancelled", "failed", "review"}
                    /\ record' = [record EXCEPT !.owed = FALSE, !.status = status]
  BY DEF Conclude, Save
<1>2. /\ run.at = "pruning" /\ run' = NoRun /\ saved' = record' /\ work' = work /\ recovery' = recovery
      /\ calls' = calls /\ proc' = proc /\ worktree' = worktree /\ patches' = patches /\ landed' = landed
      /\ made' = made /\ unsaved' = unsaved /\ unwanted' = unwanted /\ blind' = blind
  BY DEF Conclude, Save, disk, ghosts
<1>3. SameMarks(record, record') /\ record'.status = status /\ record'.owed = FALSE
  <2>1. Shape(record)
    BY DEF IInv, ShapeInv
  <2>2. PICK q : q = [record EXCEPT !.owed = FALSE]
    OBVIOUS
  <2>3. LET s == [record EXCEPT !.owed = FALSE] IN SameMarks(record, s) /\ s.owed = FALSE
    BY <2>1, FieldChanges
  <2>4. SameMarks(record, q) /\ q.owed = FALSE /\ Shape(q)
    BY <2>2, <2>3 DEF SameMarks
  <2>5. record' = [q EXCEPT !.status = status]
    BY <1>1, <2>2
  <2>6. LET s == [q EXCEPT !.status = status] IN
          SameMarks(q, s) /\ s.status = status /\ s.owed = q.owed
    BY ZenonT(60), <2>4, FieldChanges
  <2>7. SameMarks(q, record') /\ record'.status = status /\ record'.owed = FALSE
    BY <2>4, <2>5, <2>6
  <2>8. QED
    BY <2>4, <2>7 DEF SameMarks
<1>4. /\ record # NoTeam /\ record.owner = 1 /\ record' # NoTeam /\ proc = 1 /\ recovery.at = "done"
      /\ DOMAIN record.members = DOMAIN saved.members /\ made \subseteq Team /\ Team' = Team
      /\ Team = DOMAIN record.members /\ made \subseteq Members
      /\ \A m \in Members : ~InFlight(m)
  BY <1>2, <1>3 DEF IInv, OwnerInv, RunInv, NoRun, NoTeam, SameMarks, Team, ShapeInv, Going, Failing
<1>5. ASSUME NEW m \in made PROVE Safe(m) /\ Told(record, m)
  <2>1. work[m].pc = "over"
    BY <1>2, <1>4 DEF InFlight, IInv, RunInv
  <2>2. QED
    BY <1>4, <2>1 DEF IInv, RunInv
<1>6. run' \in RunRecords /\ run'.at = "no" /\ ~Failing' /\ ~Going'
  BY <1>2 DEF NoRun, RunRecords, Going, Failing
<1>7. /\ Shape(record') /\ record'.owner = record.owner /\ DOMAIN record'.members = Team
      /\ \A n \in Team : /\ record'.members[n].dir = record.members[n].dir
                         /\ record'.members[n].patch = record.members[n].patch
                         /\ record'.members[n].merged = record.members[n].merged
                         /\ record'.members[n].discarded = record.members[n].discarded
      /\ Copies' = {record'}
  BY <1>2, <1>3, <1>4 DEF SameMarks, Copies
<1>8. /\ \A m : Safe(m)' <=> Safe(m)
      /\ \A m \in Team : (Told(record, m)' <=> Told(record, m)) /\ (Told(saved, m)' <=> Told(record, m))
      /\ Held' = record'
      /\ Gone(record)' <=> Gone(record)
  BY <1>2, <1>4, <1>7 DEF Safe, Told, Held, Gone
<1>9. ShapeInv'
  BY <1>2, <1>6, <1>7 DEF IInv, ShapeInv
<1>10. OwnerInv'
  BY <1>2, <1>3, <1>4, <1>6, <1>7 DEF IInv, OwnerInv
<1>11. RunInv'
  <2>1. ASSUME NEW m \in Members
        PROVE  /\ ~InFlight(m)'
               /\ work'[m].pc # "idle" => m \in Team'
               /\ work'[m].pc \in {"removing", "removed", "over"} /\ m \in made' => Safe(m)' /\ Told(record, m)'
    BY <1>2, <1>4, <1>5, <1>8 DEF InFlight, IInv, RunInv
  <2>2. \A m \in Members : work'[m].pc \notin {"spawning", "running", "capturing", "removing", "removed"}
    BY <2>1 DEF InFlight
  <2>3. QED
    BY <1>6, <2>1, <2>2 DEF RunInv
<1>12. KeptInv'
  <2>1. \A m \in made' : /\ worktree'[m] = "dirty" \/ (worktree'[m] = "none" /\ Safe(m)')
                         /\ Told(record, m)' /\ Safe(m)'
    BY <1>2, <1>4, <1>5, <1>8 DEF IInv, KeptInv
  <2>2. \A m : Told(Held, m)' <=> Told(record, m)'
    BY <1>8 DEF Told
  <2>3. \A n \in Team : /\ record.members[n].patch => n \in patches \cup unwanted
                        /\ record.members[n].discarded => n \in unwanted
    BY <1>4 DEF IInv, KeptInv, Copies
  <2>4. ASSUME NEW r \in Copies', NEW n \in Team
        PROVE  /\ n \in made' /\ ~r.members[n].dir => Safe(n)' /\ Told(r, n)'
               /\ r.members[n].patch => n \in patches' \cup unwanted'
               /\ r.members[n].discarded => n \in unwanted'
    <3>1. r = record'
      BY <1>7
    <3>2. Told(r, n)' <=> Told(record, n)'
      BY <3>1 DEF Told
    <3>3. QED
      BY <1>2, <1>7, <2>1, <2>3, <3>1, <3>2
  <2>5. \A r \in Copies' : DOMAIN r.members = Team
    BY <1>7
  <2>6. QED
    BY <2>1, <2>2, <2>4, <2>5 DEF KeptInv
<1>13. RecoveryInv'
  BY <1>2, <1>4 DEF RecoveryInv
<1>14. DiscardInv'
  <2>1. \A r \in Copies' : r.status # "discarded"
    BY <1>1, <1>3, <1>7
  <2>2. QED
    BY <1>2, <1>3, <1>4, <1>7, <1>8, <2>1 DEF IInv, DiscardInv
<1>15. SettledInv'
  BY <1>2, <1>4, <1>5, <1>8 DEF SettledInv
<1>16. MergedInv'
  <2>1. \A r \in Copies' : r.status # "merged"
    BY <1>1, <1>3, <1>7
  <2>2. \A r \in Copies' : \A n \in DOMAIN r.members : r.members[n].merged => n \in landed'
    BY <1>2, <1>4, <1>7 DEF IInv, MergedInv, Copies
  <2>3. QED
    BY <1>2, <1>4, <2>1, <2>2 DEF IInv, MergedInv
<1>17. QED
  BY <1>9, <1>10, <1>11, <1>12, <1>13, <1>14, <1>15, <1>16 DEF IInv

\* A death leaves the disk; what had not been saved by then is accounted for.
LEMMA CrashStep == ASSUME IInv, Crash PROVE IInv'
<1>1. /\ record # NoTeam /\ record' = NoTeam /\ run' = NoRun /\ work' = Unused
      /\ recovery' = [at |-> "never", m |-> 0] /\ calls' = [k \in DOMAIN calls |-> Over]
      /\ blind' = blind \cup {m \in made : worktree[m] = "none" /\ ~saved.members[m].patch}
      /\ saved' = saved /\ worktree' = worktree /\ patches' = patches /\ landed' = landed
      /\ proc' = proc /\ made' = made /\ unsaved' = unsaved /\ unwanted' = unwanted
  BY DEF Crash, disk
<1>2. /\ proc # 0 /\ saved.owner = 1 /\ made \subseteq DOMAIN saved.members /\ made \subseteq Members
      /\ Shape(saved)
  BY <1>1 DEF IInv, OwnerInv, ShapeInv
<1>3. /\ DOMAIN record'.members = {} /\ Shape(record') /\ record'.status = "none" /\ record'.owed = FALSE
      /\ Team' = {} /\ Copies' = {record', saved} /\ Held' = saved /\ saved \in Copies
  BY <1>1 DEF NoTeam, Shape, Team, Copies, Held
<1>4. /\ \A m : Safe(m)' <=> Safe(m)
      /\ \A m : Told(saved, m) => Told(saved, m)'
      /\ \A m : Told(Held, m)' <=> Told(saved, m)'
      /\ Gone(saved)' <=> Gone(saved)
  BY <1>1, <1>3 DEF Safe, Told, Gone
<1>5. \A m \in Members : work'[m].pc = "idle" /\ ~InFlight(m)'
  BY <1>1 DEF Unused, InFlight
<1>6. \A k \in DOMAIN calls' : calls'[k] = Over /\ calls'[k].pc = "over"
  BY <1>1 DEF Over
<1>7. /\ run' \in RunRecords /\ run'.at = "no" /\ ~Failing' /\ ~Going'
      /\ recovery' \in RecoveryRecords /\ recovery'.at = "never"
  BY <1>1 DEF NoRun, RunRecords, RecoveryRecords, Going, Failing
<1>8. ShapeInv'
  <2>1. work' \in [Members -> WorkRecords]
    BY <1>1 DEF Unused, WorkRecords
  <2>2. calls' \in Seq(CallRecords)
    <3>1. Over \in CallRecords /\ calls \in Seq(CallRecords)
      BY DEF Over, CallRecords, IInv, ShapeInv
    <3>2. DOMAIN calls = 1 .. Len(calls) /\ Len(calls) \in Nat
      BY <3>1
    <3>3. calls' \in [1 .. Len(calls) -> CallRecords]
      BY <1>1, <3>1, <3>2
    <3>4. QED
      BY <3>2, <3>3, SeqDef
  <2>3. QED
    BY <1>1, <1>3, <1>7, <2>1, <2>2 DEF IInv, ShapeInv
<1>9. OwnerInv'
  BY <1>1, <1>2, <1>6, <1>7 DEF OwnerInv
<1>10. RunInv'
  BY <1>3, <1>5, <1>7 DEF RunInv
<1>11. KeptInv'
  <2>1. ASSUME NEW m \in made'
        PROVE  /\ worktree'[m] = "dirty" \/ (worktree'[m] = "none" /\ Safe(m)')
               /\ worktree'[m] = "none" => Told(saved, m)'
    BY <1>1, <1>4 DEF IInv, KeptInv, Told
  <2>2. ASSUME NEW r \in Copies', NEW m \in DOMAIN r.members
        PROVE  /\ m \in made' /\ ~r.members[m].dir => Safe(m)' /\ Told(r, m)'
               /\ r.members[m].patch => m \in patches' \cup unwanted'
               /\ r.members[m].discarded => m \in unwanted'
    <3>1. r = saved
      BY <1>3
    <3>2. Told(saved, m) => Told(r, m)'
      BY <1>1, <3>1 DEF Told
    <3>3. QED
      BY <1>1, <1>3, <1>4, <3>1, <3>2 DEF IInv, KeptInv
  <2>3. QED
    BY <1>4, <2>1, <2>2 DEF KeptInv
<1>12. RecoveryInv'
  BY <1>7 DEF RecoveryInv
<1>13. DiscardInv'
  <2>1. \A r \in Copies' : r.status = "discarded" => Gone(r)'
    <3>1. \A r : Gone(r)' <=> Gone(r)
      BY DEF Gone
    <3>2. QED
      BY <1>3, <3>1 DEF IInv, DiscardInv
  <2>2. QED
    BY <1>6, <2>1 DEF DiscardInv
<1>14. SettledInv'
  BY <1>1, <1>4 DEF IInv, SettledInv
<1>15. MergedInv'
  <2>1. \A r \in Copies' : \A m \in DOMAIN r.members : r.members[m].merged => m \in landed'
    BY <1>1, <1>3 DEF IInv, MergedInv
  <2>2. \A r \in Copies' : r.status = "merged" => \A m \in DOMAIN r.members :
           m \in landed' \/ r.members[m].discarded \/ m \notin made' \/ m \in unsaved' \cup blind'
    BY <1>1, <1>3 DEF IInv, MergedInv
  <2>3. QED
    BY <1>6, <2>1, <2>2 DEF MergedInv
<1>16. QED
  BY <1>8, <1>9, <1>10, <1>11, <1>12, <1>13, <1>14, <1>15 DEF IInv

\* What #load makes of a record.
LEMMA LoadedMarks ==
  ASSUME NEW r, Shape(r)
  PROVE  /\ SameMarks(r, Loaded(r))
         /\ Loaded(r).status \notin {"planning", "running"}
         /\ Loaded(r).status \in {r.status, "interrupted"}
         /\ ~Loaded(r).owed => r.status \notin {"planning", "running"} /\ ~r.owed
<1>1. CASE r.status \notin {"planning", "running"}
  BY <1>1 DEF Loaded, SameMarks
<1>2. CASE r.status \in {"planning", "running"}
  <2>1. r = [status |-> r.status, members |-> r.members, owed |-> r.owed, owner |-> r.owner]
    BY DEF Shape
  <2>2. PICK ns : ns = [m \in DOMAIN r.members |->
                          IF r.members[m].status \in {"queued", "running"}
                          THEN [r.members[m] EXCEPT !.status = "interrupted"] ELSE r.members[m]]
    OBVIOUS
  <2>3. Loaded(r) = [r EXCEPT !.status = "interrupted", !.owed = TRUE, !.members = ns]
    BY <1>2, <2>2 DEF Loaded
  <2>4. Loaded(r) = [status |-> "interrupted", members |-> ns, owed |-> TRUE, owner |-> r.owner]
    BY <2>1, <2>3
  <2>5. PICK s : s = Loaded(r)
    OBVIOUS
  <2>6. /\ s.status = "interrupted" /\ s.owed = TRUE /\ s.owner = r.owner /\ s.members = ns
        /\ s = [status |-> s.status, members |-> s.members, owed |-> s.owed, owner |-> s.owner]
    BY <2>4, <2>5
  <2>7. ASSUME NEW m \in DOMAIN r.members
        PROVE  /\ IsMember(ns[m]) /\ ns[m].dir = r.members[m].dir
               /\ ns[m].patch = r.members[m].patch /\ ns[m].merged = r.members[m].merged
               /\ ns[m].discarded = r.members[m].discarded
    <3>1. IsMember(r.members[m])
      BY DEF Shape
    <3>2. PICK x : x = [r.members[m] EXCEPT !.status = "interrupted"]
      OBVIOUS
    <3>3. /\ IsMember(x) /\ x.dir = r.members[m].dir /\ x.patch = r.members[m].patch
          /\ x.merged = r.members[m].merged /\ x.discarded = r.members[m].discarded
      BY <3>1, <3>2 DEF IsMember
    <3>4. ns[m] = x \/ ns[m] = r.members[m]
      BY <2>2, <3>2
    <3>5. QED
      BY <3>1, <3>3, <3>4
  <2>8. DOMAIN ns = DOMAIN r.members /\ ns = [m \in DOMAIN ns |-> ns[m]]
    BY <2>2
  <2>9. Shape(s)
    BY <2>6, <2>7, <2>8 DEF Shape
  <2>10. SameMarks(r, s)
    BY <2>6, <2>7, <2>8, <2>9 DEF SameMarks
  <2>11. QED
    BY <2>5, <2>6, <2>10
<1>3. QED
  BY <1>1, <1>2

\* A later process starts from the file, with everything to recover.
LEMMA RestartStep == ASSUME IInv, Restart PROVE IInv'
<1>1. /\ record = NoTeam /\ proc \in Nat /\ proc # 0 /\ proc' = proc + 1
      /\ record' = Loaded(saved) /\ saved' = record' /\ run' = run /\ work' = work
      /\ recovery' = recovery /\ calls' = calls /\ worktree' = worktree /\ patches' = patches
      /\ landed' = landed /\ made' = made /\ unsaved' = unsaved /\ unwanted' = unwanted
      /\ blind' = blind
  BY DEF Restart, Save, disk, ghosts, IInv, ShapeInv
<1>2. /\ run = NoRun /\ work = Unused /\ recovery.at = "never" /\ \A k \in DOMAIN calls : calls[k] = Over
      /\ saved.owner = 1 /\ made \subseteq DOMAIN saved.members /\ Shape(saved) /\ Held = saved
      /\ proc' # 0 /\ proc' # 1
  BY <1>1 DEF IInv, OwnerInv, ShapeInv, Held
<1>3. /\ SameMarks(saved, record') /\ record'.status \notin {"planning", "running"}
      /\ record'.status \in {saved.status, "interrupted"}
      /\ ~record'.owed => saved.status \notin {"planning", "running"} /\ ~saved.owed
  BY <1>1, <1>2, LoadedMarks
<1>4. /\ Shape(record') /\ record'.owner = 1 /\ record' # NoTeam /\ Held' = record'
      /\ DOMAIN record'.members = DOMAIN saved.members /\ Copies' = {record'}
      /\ \A m \in DOMAIN saved.members :
           /\ record'.members[m].dir = saved.members[m].dir
           /\ record'.members[m].patch = saved.members[m].patch
           /\ record'.members[m].merged = saved.members[m].merged
           /\ record'.members[m].discarded = saved.members[m].discarded
  BY <1>1, <1>2, <1>3 DEF SameMarks, NoTeam, Held, Copies
<1>5. /\ \A m : Safe(m)' <=> Safe(m)
      /\ \A m \in DOMAIN saved.members : Told(record, m)' <=> Told(saved, m)
      /\ \A m : Told(Held, m)' <=> Told(record, m)'
      /\ \A m : Told(saved, m)' <=> Told(record, m)'
      /\ Gone(record)' <=> Gone(saved)
  BY <1>1, <1>4 DEF Safe, Told, Gone
<1>6. \A m \in Members : work'[m].pc = "idle" /\ ~InFlight(m)'
  BY <1>1, <1>2 DEF Unused, InFlight
<1>7. run'.at = "no" /\ ~Failing' /\ ~Going' /\ \A k \in DOMAIN calls' : calls'[k].pc = "over"
  BY <1>1, <1>2 DEF NoRun, Over, Going, Failing
<1>8. ShapeInv'
  BY <1>1, <1>4 DEF IInv, ShapeInv
<1>9. OwnerInv'
  BY <1>1, <1>2, <1>4, <1>7 DEF OwnerInv
<1>10. RunInv'
  BY <1>6, <1>7 DEF RunInv
<1>11. KeptInv'
  <2>1. \A m \in made' : /\ worktree'[m] = "dirty" \/ (worktree'[m] = "none" /\ Safe(m)')
                         /\ worktree'[m] = "none" => Told(Held, m)'
    BY <1>1, <1>2, <1>5 DEF IInv, KeptInv
  <2>2. \A m \in DOMAIN saved.members :
          /\ m \in made /\ ~saved.members[m].dir => Safe(m) /\ Told(saved, m)
          /\ saved.members[m].patch => m \in patches \cup unwanted
          /\ saved.members[m].discarded => m \in unwanted
    BY DEF IInv, KeptInv, Copies
  <2>3. ASSUME NEW r \in Copies', NEW m \in DOMAIN r.members
        PROVE  /\ m \in made' /\ ~r.members[m].dir => Safe(m)' /\ Told(r, m)'
               /\ r.members[m].patch => m \in patches' \cup unwanted'
               /\ r.members[m].discarded => m \in unwanted'
    <3>1. r = record' /\ m \in DOMAIN saved.members
      BY <1>4
    <3>2. Told(r, m)' <=> Told(record, m)'
      BY <3>1 DEF Told
    <3>3. QED
      BY <1>1, <1>4, <1>5, <2>2, <3>1, <3>2
  <2>4. QED
    BY <2>1, <2>3 DEF KeptInv
<1>12. RecoveryInv'
  BY <1>1, <1>2 DEF RecoveryInv
<1>13. DiscardInv'
  <2>1. record'.status = "discarded" => Gone(record)'
    BY <1>3, <1>5 DEF IInv, DiscardInv, Copies
  <2>2. \A r \in Copies' : r.status = "discarded" => Gone(r)'
    BY <1>4, <2>1 DEF Gone
  <2>3. QED
    BY <1>7, <2>2 DEF DiscardInv
<1>14. SettledInv'
  <2>1. ~record'.owed => \A m \in made : Told(saved, m)
    BY <1>3 DEF IInv, SettledInv
  <2>2. QED
    BY <1>1, <1>2, <1>5, <2>1 DEF SettledInv
<1>15. MergedInv'
  <2>1. saved \in Copies
    BY DEF Copies
  <2>2. QED
    BY <1>1, <1>3, <1>4, <1>7, <2>1 DEF IInv, MergedInv
<1>16. QED
  BY <1>8, <1>9, <1>10, <1>11, <1>12, <1>13, <1>14, <1>15 DEF IInv

-----------------------------------------------------------------------------
LEMMA Initially == Init => IInv
<1> SUFFICES ASSUME Init PROVE IInv
  OBVIOUS
<1>1. /\ record = NoTeam /\ saved = NoTeam /\ run = NoRun /\ work = Unused /\ calls = <<>> /\ proc = 0
      /\ worktree = [m \in Members |-> "none"] /\ patches = {} /\ landed = {}
      /\ recovery = [at |-> "never", m |-> 0] /\ made = {}
  BY DEF Init
<1>2. /\ Copies = {NoTeam} /\ Team = {} /\ NoTeam.members = <<>> /\ NoTeam.status = "none"
      /\ NoTeam.owed = FALSE /\ DOMAIN NoTeam.members = {}
  BY <1>1 DEF Copies, Team, NoTeam
<1>3. Shape(NoTeam)
  BY DEF NoTeam, Shape
<1>4. /\ run \in RunRecords /\ run.at = "no" /\ recovery \in RecoveryRecords /\ recovery.at = "never"
      /\ DOMAIN calls = {} /\ calls \in Seq(CallRecords)
      /\ work \in [Members -> WorkRecords] /\ \A m \in Members : work[m].pc = "idle" /\ ~InFlight(m)
  BY <1>1 DEF NoRun, RunRecords, RecoveryRecords, Unused, WorkRecords, InFlight
<1>5. ShapeInv /\ OwnerInv
  BY <1>1, <1>2, <1>3, <1>4 DEF ShapeInv, OwnerInv
<1>6. RunInv /\ KeptInv /\ RecoveryInv
  BY <1>1, <1>2, <1>4 DEF RunInv, KeptInv, RecoveryInv, Going, Failing
<1>7. DiscardInv /\ SettledInv /\ MergedInv
  BY <1>1, <1>2, <1>4 DEF DiscardInv, SettledInv, MergedInv
<1>8. QED
  BY <1>5, <1>6, <1>7 DEF IInv

LEMMA WorkerStep ==
  ASSUME IInv, NEW m \in Members, Worker(m) \/ Turn(m) \/ LastTurn(m) \/ AgentEnds(m)
  PROVE  IInv'
<1>1. CASE Take(m)
  BY <1>1, TakeStep
<1>2. CASE WorktreeAdded(m)
  BY <1>2, WorktreeAddedStep
<1>3. CASE WorktreeFails(m)
  BY <1>3, WorktreeFailsStep
<1>4. CASE Spawned(m) \/ SpawnFails(m) \/ LastTurn(m) \/ AgentEnds(m) \/ LeaveRace(m)
  BY <1>4, MemberStep
<1>5. CASE Turn(m)
  BY <1>5, TurnStep
<1>6. CASE Capture(m)
  BY <1>6, CaptureStep
<1>7. CASE Teardown(m)
  BY <1>7, TeardownStep
<1>8. CASE Settle(m)
  BY <1>8, SettleStep
<1>9. CASE CaptureThrows(m)
  BY <1>9, CaptureThrowsStep
<1>10. QED
  BY <1>1, <1>2, <1>3, <1>4, <1>5, <1>6, <1>7, <1>8, <1>9 DEF Worker

LEMMA CallStep ==
  ASSUME IInv, NEW k \in DOMAIN calls,
         MergeBegins(k) \/ MergeRejects(k) \/ GitApplies(k) \/ MergeContinues(k) \/ DiscardRemoves(k) \/ DiscardEnds(k)
  PROVE  IInv'
<1>1. CASE MergeBegins(k)
  BY <1>1, MergeBeginsStep
<1>2. CASE GitApplies(k)
  BY <1>2, GitAppliesStep
<1>3. CASE MergeContinues(k)
  BY <1>3, MergeContinuesStep
<1>4. CASE DiscardRemoves(k)
  BY <1>4, DiscardRemovesStep
<1>5. CASE DiscardEnds(k)
  BY <1>5, DiscardEndsStep
<1>6. CASE MergeRejects(k)
  BY <1>6, MergeRejectsStep
<1>7. QED
  BY <1>1, <1>2, <1>3, <1>4, <1>5, <1>6

LEMMA Invariance == Spec => []IInv
<1>1. IInv /\ [Next]_vars => IInv'
  <2> SUFFICES ASSUME IInv, [Next]_vars PROVE IInv'
    OBVIOUS
  <2>1. CASE Start
    BY <2>1, StartStep
  <2>2. CASE PlanFails \/ \E p \in Plans : PlanArrives(p)
    BY <2>2, PlanStep
  <2>3. CASE \E m \in Members : Worker(m) \/ Turn(m) \/ LastTurn(m) \/ AgentEnds(m)
    BY <2>3, WorkerStep
  <2>4. CASE Cleanup
    BY <2>4, CleanupStep
  <2>5. CASE Conclude
    BY <2>5, ConcludeStep
  <2>6. CASE Cancel
    BY <2>6, CancelStep
  <2>7. CASE Interrupt
    BY <2>7, InterruptStep
  <2>8. CASE Recover \/ Merge
    BY <2>8, RecoverStep
  <2>9. CASE RecoveryCaptures
    BY <2>9, RecoveryCapturesStep
  <2>10. CASE RecoveryRemoves
    BY <2>10, RecoveryRemovesStep
  <2>11. CASE RecoveryEnds
    BY <2>11, RecoveryEndsStep
  <2>12. CASE Discard
    BY <2>12, DiscardStep
  <2>13. CASE \E k \in DOMAIN calls : MergeBegins(k) \/ MergeRejects(k) \/ GitApplies(k)
                                       \/ MergeContinues(k) \/ DiscardRemoves(k) \/ DiscardEnds(k)
    BY <2>13, CallStep
  <2>14. CASE Crash
    BY <2>14, CrashStep
  <2>15. CASE Restart
    BY <2>15, RestartStep
  <2>16. CASE UNCHANGED vars
    BY <2>16, Stutter DEF vars, disk, ghosts
  <2>17. CASE StartRejects
    BY <2>17, StartRejectsStep
  <2>18. CASE RecoveryThrows
    BY <2>18, RecoveryThrowsStep
  <2>19. QED
    BY <2>1, <2>2, <2>3, <2>4, <2>5, <2>6, <2>7, <2>8, <2>9, <2>10, <2>11, <2>12, <2>13, <2>14,
       <2>15, <2>16, <2>17, <2>18 DEF Next
<1>2. QED
  BY <1>1, Initially, PTL DEF Spec

\* Capture before teardown: what a member changed is in its worktree or in a patch
\* on disk at every instant, whoever stops the team and whenever the process dies,
\* and a team that is settled names every such patch in its record.
THEOREM WorkIsKept == Spec => []WorkKept
<1>1. IInv => WorkKept
  <2> SUFFICES ASSUME IInv, NEW m \in made \ (unsaved \cup unwanted)
               PROVE  /\ worktree[m] = "dirty" \/ m \in patches
                      /\ Settled /\ m \notin blind => record.members[m].patch
    BY DEF WorkKept
  <2>1. worktree[m] = "dirty" \/ m \in patches
    BY DEF IInv, KeptInv, Safe
  <2>2. ASSUME Settled, m \notin blind PROVE record.members[m].patch
    <3>1. Told(record, m) /\ m \in DOMAIN record.members
      BY <2>2 DEF Settled, IInv, SettledInv, OwnerInv
    <3>2. ~record.members[m].discarded
      BY <3>1 DEF IInv, KeptInv, Copies
    <3>3. QED
      BY <2>2, <3>1, <3>2 DEF Told
  <2>3. QED
    BY <2>1, <2>2
<1>2. QED
  BY <1>1, Invariance, PTL

\* merge: a member counts as merged, in memory or on disk, only when its patch is
\* in the user's tree, and a team as merged only when all that was made is.
THEOREM MergedMeansLanded == Spec => []MergedIsTrue
<1>1. IInv => MergedIsTrue
  BY DEF IInv, MergedInv, MergedIsTrue, Copies, Team
<1>2. QED
  BY <1>1, Invariance, PTL

-----------------------------------------------------------------------------
(* Induction, and functions defined by recursion. *)

\* What holds at 0 and climbs holds up to n.
LEMMA Climb ==
  ASSUME NEW n \in Nat, NEW A, 0 \in A, \A i \in 1..n : i - 1 \in A => i \in A
  PROVE  \A i \in 0..n : i \in A
<1> DEFINE B == {i \in 0..n : i \notin A}
<1>1. B \in SUBSET Nat /\ \A i \in 0..n : i \notin B => i \in A
  OBVIOUS
<1>2. SUFFICES ASSUME B # {} PROVE FALSE
  BY <1>1
<1>3. PICK k \in B : \A j \in B : k <= j
  <2> HIDE DEF B
  <2>1. Min(B) \in B /\ \A j \in B : Min(B) <= j
    BY <1>1, <1>2, Least
  <2>2. QED
    BY <2>1
<1>4. k \in 0..n /\ k \notin A /\ k # 0
  OBVIOUS
<1> HIDE DEF B
<1>6. k \in 1..n /\ k - 1 \in 0..n /\ k - 1 < k
  BY <1>4
<1>7. k - 1 \notin B
  BY <1>3, <1>6
<1>8. QED
  BY <1>1, <1>4, <1>6, <1>7

\* f[i] comes from its value at up[i], or is b[i] where up[i] is not smaller.
Solves(f, n, up, b, G) ==
  \A i \in 0..n : f[i] = IF up[i] < i THEN G[i][f[up[i]]] ELSE b[i]

\* A function on 0..n may be defined at i from its value at a smaller number.
LEMMA Recursion ==
  ASSUME NEW n \in Nat, NEW S, NEW up \in [0..n -> 0..n], NEW b \in [0..n -> S],
         NEW G \in [0..n -> [S -> S]]
  PROVE  \E f \in [0..n -> S] : Solves(f, n, up, b, G)
<1> DEFINE Good(k) == \E f \in [0..k -> S] :
             \A i \in 0..k : f[i] = IF up[i] < i THEN G[i][f[up[i]]] ELSE b[i]
<1> DEFINE B == {k \in 0..n : ~Good(k)}
<1> HIDE DEF Good
<1>0. B \in SUBSET Nat /\ \A k \in 0..n : k \notin B <=> Good(k)
  OBVIOUS
<1> HIDE DEF B
<1>1. SUFFICES B = {}
  <2>1. n \in 0..n
    OBVIOUS
  <2>2. Good(n)
    BY <2>1, <1>0, <1>1
  <2>3. QED
    BY <2>2 DEF Good, Solves
<1>2. SUFFICES ASSUME B # {} PROVE FALSE
  OBVIOUS
<1>3. PICK k \in B : \A j \in B : k <= j
  <2>1. Min(B) \in B /\ \A j \in B : Min(B) <= j
    BY <1>0, <1>2, Least
  <2>2. QED
    BY <2>1
<1>4. CASE k = 0
  <2>1. 0 \in 0..n /\ up[0] \in 0..n /\ ~(up[0] < 0) /\ b[0] \in S
    OBVIOUS
  <2> DEFINE f == [i \in 0..0 |-> b[0]]
  <2>2. f \in [0..0 -> S]
    BY <2>1
  <2>3. \A i \in 0..0 : f[i] = IF up[i] < i THEN G[i][f[up[i]]] ELSE b[i]
    BY <2>1
  <2>4. Good(0)
    BY <2>2, <2>3 DEF Good
  <2>5. QED
    BY <2>4, <1>0, <1>3, <1>4
<1>5. CASE k # 0
  <2>1. k \in 0..n /\ k \in Nat /\ k - 1 \in 0..n
    BY <1>5, <1>3 DEF B
  <2>a. k - 1 \notin B
    BY <2>1, <1>3
  <2>2. PICK f \in [0..(k - 1) -> S] :
          \A i \in 0..(k - 1) : f[i] = IF up[i] < i THEN G[i][f[up[i]]] ELSE b[i]
    BY <2>1, <2>a, <1>0 DEF Good
  <2> DEFINE v == IF up[k] < k THEN G[k][f[up[k]]] ELSE b[k]
  <2> DEFINE g == [i \in 0..k |-> IF i = k THEN v ELSE f[i]]
  <2>3. up[k] \in 0..n /\ b[k] \in S
    BY <2>1
  <2>4. ASSUME up[k] < k PROVE f[up[k]] \in S /\ G[k][f[up[k]]] \in S
    <3>1. up[k] \in 0..(k - 1)
      BY <2>1, <2>3, <2>4
    <3>2. f[up[k]] \in S
      BY <3>1
    <3>3. G[k] \in [S -> S]
      BY <2>1, <3>2
    <3>4. QED
      BY <3>2, <3>3
  <2>5. v \in S
    BY <2>3, <2>4
  <2> HIDE DEF v
  <2>6. g \in [0..k -> S]
    BY <2>1, <2>5
  <2>7. ASSUME NEW i \in 0..k
        PROVE  g[i] = IF up[i] < i THEN G[i][g[up[i]]] ELSE b[i]
    <3>1. up[i] \in 0..n
      BY SMTT(30), <2>1
    <3>2. CASE i = k
      <4>1. up[k] < k => up[k] \in 0..k /\ up[k] # k
        BY SMTT(30), <3>1, <3>2, <2>1
      <4>2. up[k] < k => g[up[k]] = f[up[k]]
        BY <4>1
      <4>3. g[k] = v
        BY <2>1
      <4>4. QED
        BY <3>2, <4>2, <4>3 DEF v
    <3>3. CASE i # k
      <4>1. i \in 0..(k - 1) /\ g[i] = f[i]
        BY <3>3, <2>1
      <4>2. up[i] < i => up[i] \in 0..k /\ up[i] # k
        <5>1. ASSUME NEW u \in 0..n, u < i PROVE u \in 0..k /\ u # k
          BY <5>1, <2>1, <4>1
        <5>2. QED
          BY <3>1, <4>1, <5>1
      <4>3. up[i] < i => g[up[i]] = f[up[i]]
        BY <4>2
      <4>4. QED
        BY <4>1, <4>3, <2>2
    <3>4. QED
      BY <3>2, <3>3
  <2>8. Good(k)
    BY <2>6, <2>7 DEF Good
  <2>9. QED
    BY <2>8, <2>1, <1>0, <1>3
<1>6. QED
  BY <1>4, <1>5


\* A function on 0..n may start from b and be defined at i from its value at i - 1.
Builds(f, n, b, G) == f[0] = b /\ \A i \in 1..n : f[i] = G[i][f[i - 1]]

LEMMA Building ==
  ASSUME NEW n \in Nat, NEW S, NEW b \in S, NEW G \in [1..n -> [S -> S]]
  PROVE  \E f \in [0..n -> S] : Builds(f, n, b, G)
<1> DEFINE up == [i \in 0..n |-> IF i = 0 THEN 0 ELSE i - 1]
<1> DEFINE c == [i \in 0..n |-> b]
<1> DEFINE H == [i \in 0..n |-> IF i = 0 THEN [s \in S |-> s] ELSE G[i]]
<1>1. up \in [0..n -> 0..n] /\ c \in [0..n -> S]
  OBVIOUS
<1>2. H \in [0..n -> [S -> S]]
  <2>1. \A i \in 0..n : i # 0 => i \in 1..n
    OBVIOUS
  <2>2. \A i \in 0..n : H[i] \in [S -> S]
    BY <2>1
  <2>3. QED
    BY <2>2
<1>3. /\ \A i \in 1..n : i \in 0..n /\ up[i] < i /\ up[i] = i - 1 /\ H[i] = G[i]
      /\ 0 \in 0..n /\ ~(up[0] < 0) /\ c[0] = b
  OBVIOUS
<1> HIDE DEF up, c, H
<1>4. PICK f \in [0..n -> S] : Solves(f, n, up, c, H)
  BY <1>1, <1>2, Recursion
<1>5. Builds(f, n, b, G)
  BY <1>3, <1>4 DEF Solves, Builds
<1>6. QED
  BY <1>5

-----------------------------------------------------------------------------
(* What a team has spent. *)

\* The members of r are numbered 1 to n and have cost numbers of units.
Priced(r, n) ==
  /\ n \in Nat /\ DOMAIN r.members = 1..n /\ Len(r.members) = n
  /\ \A m \in 1..n : r.members[m].cost \in Nat

\* total is the sum over the first members, for each number of them.
Sums(total, r, n) ==
  /\ total[0] = 0 /\ \A m \in 1..n : total[m] = total[m - 1] + r.members[m].cost

LEMMA SpentSums ==
  ASSUME NEW r, NEW n, Priced(r, n)
  PROVE  \E total \in [0..n -> Nat] : Sums(total, r, n) /\ Spent(r) = total[n]
<1> DEFINE G == [m \in 1..n |-> [t \in Nat |-> t + r.members[m].cost]]
<1> DEFINE Q(total) == total = [m \in 0..n |->
        IF m = 0 THEN 0 ELSE total[m - 1] + r.members[m].cost]
<1>1. n \in Nat /\ Len(r.members) = n /\ \A m \in 1..n : r.members[m].cost \in Nat
  BY DEF Priced
<1>2. G \in [1..n -> [Nat -> Nat]]
  <2>1. \A m \in 1..n : G[m] \in [Nat -> Nat]
    BY <1>1
  <2>2. QED
    BY <2>1
<1>3. \A m \in 1..n, t \in Nat : G[m][t] = t + r.members[m].cost
  OBVIOUS
<1> HIDE DEF G
<1>4. PICK p \in [0..n -> Nat] : Builds(p, n, 0, G)
  BY <1>1, <1>2, Building
<1>5. ASSUME NEW m \in 0..n
      PROVE  p[m] = IF m = 0 THEN 0 ELSE p[m - 1] + r.members[m].cost
  <2>1. CASE m = 0
    BY <2>1, <1>4 DEF Builds
  <2>2. CASE m # 0
    <3>1. m \in 1..n /\ m - 1 \in 0..n
      BY <2>2, <1>1
    <3>2. p[m - 1] \in Nat /\ p[m] = G[m][p[m - 1]]
      BY <3>1, <1>4 DEF Builds
    <3>3. QED
      BY <2>2, <3>1, <3>2, <1>3
  <2>3. QED
    BY <2>1, <2>2
<1>6. Q(p)
  BY <1>5
<1> DEFINE w == CHOOSE total : Q(total)
<1>7. Q(w)
  BY <1>6
<1>8. Spent(r) = w[n]
  BY <1>1 DEF Spent
<1> HIDE DEF w
<1>9. \A m \in 0..n : w[m] = IF m = 0 THEN 0 ELSE w[m - 1] + r.members[m].cost
  BY <1>7
<1> HIDE DEF Q
<1>10. \A m \in 0..n : p[m] = w[m]
  <2> DEFINE A == {m \in 0..n : p[m] = w[m]}
  <2>1. 0 \in A
    BY <1>1, <1>5, <1>9
  <2>2. ASSUME NEW m \in 1..n, m - 1 \in A PROVE m \in A
    <3>1. m \in 0..n /\ m # 0 /\ p[m - 1] = w[m - 1]
      BY <1>1, <2>2
    <3>2. QED
      BY <3>1, <1>5, <1>9
  <2> HIDE DEF A
  <2>3. \A m \in 0..n : m \in A
    BY <1>1, <2>1, <2>2, Climb
  <2>4. QED
    BY <2>3 DEF A
<1>11. Sums(p, r, n)
  <2>1. ASSUME NEW m \in 1..n PROVE p[m] = p[m - 1] + r.members[m].cost
    <3>1. m \in 0..n /\ m # 0
      BY <1>1
    <3>2. QED
      BY <3>1, <1>5
  <2>2. p[0] = 0
    BY <1>1, <1>5
  <2>3. QED
    BY <2>1, <2>2 DEF Sums
<1>12. n \in 0..n
  BY <1>1
<1>13. QED
  BY <1>4, <1>8, <1>10, <1>11, <1>12

\* One member may spend some more, or none may.
LEMMA SpentAdds ==
  ASSUME NEW r, NEW s, NEW n, Priced(r, n), Priced(s, n), NEW k \in Nat \ {0}, NEW price \in Nat,
         \A m \in 1..n : s.members[m].cost = r.members[m].cost + (IF m = k THEN price ELSE 0)
  PROVE  Spent(s) = Spent(r) + (IF k <= n THEN price ELSE 0)
<1>1. n \in Nat /\ \A m \in 1..n : r.members[m].cost \in Nat
  BY DEF Priced
<1>2. PICK p \in [0..n -> Nat] : Sums(p, r, n) /\ Spent(r) = p[n]
  BY SpentSums
<1>3. PICK q \in [0..n -> Nat] : Sums(q, s, n) /\ Spent(s) = q[n]
  BY SpentSums
<1> DEFINE A == {m \in 0..n : q[m] = p[m] + (IF k <= m THEN price ELSE 0)}
<1>4. 0 \in A
  BY <1>1, <1>2, <1>3 DEF Sums
<1>5. ASSUME NEW m \in 1..n, m - 1 \in A PROVE m \in A
  <2>1. /\ m \in 0..n /\ m - 1 \in 0..n
        /\ q[m - 1] = p[m - 1] + (IF k <= m - 1 THEN price ELSE 0)
    BY <1>1, <1>5
  <2>2. p[m] = p[m - 1] + r.members[m].cost /\ q[m] = q[m - 1] + s.members[m].cost
    BY <1>2, <1>3 DEF Sums
  <2>3. p[m - 1] \in Nat /\ q[m - 1] \in Nat /\ r.members[m].cost \in Nat
    BY <1>1, <2>1
  <2>4. s.members[m].cost = r.members[m].cost + (IF m = k THEN price ELSE 0)
    OBVIOUS
  <2>5. CASE k < m
    BY <2>1, <2>2, <2>3, <2>4, <2>5
  <2>6. CASE k = m
    BY <2>1, <2>2, <2>3, <2>4, <2>6
  <2>7. CASE k > m
    BY <2>1, <2>2, <2>3, <2>4, <2>7
  <2>8. QED
    BY <2>5, <2>6, <2>7
<1> HIDE DEF A
<1>6. \A m \in 0..n : m \in A
  BY <1>1, <1>4, <1>5, Climb
<1>7. n \in 0..n
  BY <1>1
<1>8. QED
  BY <1>2, <1>3, <1>6, <1>7 DEF A

LEMMA NothingSpent ==
  ASSUME NEW r, NEW n, Priced(r, n), \A m \in 1..n : r.members[m].cost = 0
  PROVE  Spent(r) = 0
<1>1. n \in Nat
  BY DEF Priced
<1>2. PICK p \in [0..n -> Nat] : Sums(p, r, n) /\ Spent(r) = p[n]
  BY SpentSums
<1> DEFINE A == {m \in 0..n : p[m] = 0}
<1>3. 0 \in A
  BY <1>1, <1>2 DEF Sums
<1>4. \A m \in 1..n : m - 1 \in A => m \in A
  BY <1>1, <1>2 DEF Sums
<1> HIDE DEF A
<1>5. \A m \in 0..n : m \in A
  BY <1>1, <1>3, <1>4, Climb
<1>6. n \in 0..n
  BY <1>1
<1>7. QED
  BY <1>2, <1>5, <1>6 DEF A

-----------------------------------------------------------------------------
(* The union-find. *)

\* What holds at a number when it holds at all smaller ones holds up to n.
LEMMA Descent ==
  ASSUME NEW n \in Nat, NEW A,
         \A i \in 1..n : (\A j \in 1..n : j < i => j \in A) => i \in A
  PROVE  \A i \in 1..n : i \in A
<1> DEFINE B == {i \in 1..n : i \notin A}
<1>1. B \subseteq Nat /\ \A i \in 1..n : i \notin B => i \in A
  OBVIOUS
<1>2. SUFFICES ASSUME B # {} PROVE FALSE
  BY <1>1
<1> HIDE DEF B
<1>3. Min(B) \in B /\ \A j \in B : Min(B) <= j
  BY <1>1, <1>2, Least
<1>4. PICK k \in B : \A j \in B : k <= j
  BY <1>3
<1>5. k \in 1..n /\ k \notin A
  BY DEF B
<1>6. \A j \in 1..n : j < k => j \notin B
  BY <1>4, <1>5
<1>7. QED
  BY <1>1, <1>5, <1>6

\* Parents are not larger, so every number is in a tree with the smallest as its root.
Forests(n) == {f \in [1..n -> 1..n] : \A k \in 1..n : f[k] <= k}

Rooting(root, f, n) == \A k \in 1..n : root[k] = IF f[k] = k THEN k ELSE root[f[k]]

\* find by its loop.
LEMMA FindDef ==
  ASSUME NEW n \in Nat, NEW f \in Forests(n)
  PROVE  \E root \in [1..n -> 0..n] : Rooting(root, f, n) /\ \A k \in 1..n : Find(f, k) = root[k]
<1> DEFINE up == [k \in 0..n |-> IF k = 0 THEN 0 ELSE f[k]]
<1> DEFINE b == [k \in 0..n |-> k]
<1> DEFINE G == [k \in 0..n |-> [s \in 0..n |-> s]]
<1> DEFINE Q(root) == root = [k \in 1..n |-> IF f[k] = k THEN k ELSE root[f[k]]]
<1>1. f \in [1..n -> 1..n] /\ \A k \in 1..n : f[k] \in 1..n /\ f[k] <= k
  BY DEF Forests
<1>2. up \in [0..n -> 0..n]
  <2>1. \A k \in 0..n : k # 0 => k \in 1..n
    OBVIOUS
  <2>2. \A k \in 0..n : up[k] \in 0..n
    BY <1>1, <2>1
  <2>3. QED
    BY <2>2
<1>3. b \in [0..n -> 0..n] /\ G \in [0..n -> [0..n -> 0..n]]
  OBVIOUS
<1>4. \A k \in 1..n : k \in 0..n /\ up[k] = f[k] /\ b[k] = k /\ \A s \in 0..n : G[k][s] = s
  OBVIOUS
<1> HIDE DEF up, b, G
<1>5. PICK p \in [0..n -> 0..n] : Solves(p, n, up, b, G)
  BY <1>2, <1>3, Recursion
<1>6. ASSUME NEW k \in 1..n PROVE p[k] = IF f[k] = k THEN k ELSE p[f[k]]
  <2>1. p[k] = IF f[k] < k THEN G[k][p[f[k]]] ELSE k
    BY <1>4, <1>5 DEF Solves
  <2>2. f[k] \in 0..n /\ f[k] <= k /\ p[f[k]] \in 0..n /\ k \in 1..n
    BY <1>1, <1>5
  <2>3. G[k][p[f[k]]] = p[f[k]]
    BY <1>4, <2>2
  <2>4. f[k] < k <=> f[k] # k
    BY SMTT(30), <2>2
  <2>5. QED
    BY <2>1, <2>3, <2>4
<1>7. PICK q \in [1..n -> 0..n] : \A k \in 1..n : q[k] = p[k]
  <2> DEFINE c == [k \in 1..n |-> p[k]]
  <2>1. c \in [1..n -> 0..n] /\ \A k \in 1..n : c[k] = p[k]
    BY <1>5
  <2>2. QED
    BY <2>1
<1>8. \A k \in 1..n : q[k] = IF f[k] = k THEN k ELSE q[f[k]]
  BY <1>1, <1>6, <1>7
<1>9. Q(q)
  BY <1>7, <1>8
<1> DEFINE w == CHOOSE root : Q(root)
<1>10. Q(w)
  BY <1>9
<1>11. \A k \in 1..n : Find(f, k) = w[k]
  <2>1. DOMAIN f = 1..n
    BY <1>1
  <2>2. QED
    BY <2>1 DEF Find
<1> HIDE DEF w
<1>12. \A k \in 1..n : w[k] = IF f[k] = k THEN k ELSE w[f[k]]
  BY <1>10
<1> HIDE DEF Q
<1> DEFINE A == {k \in 1..n : q[k] = w[k]}
<1>13. ASSUME NEW k \in 1..n, \A j \in 1..n : j < k => j \in A PROVE k \in A
  <2>1. CASE f[k] = k
    BY <2>1, <1>8, <1>12
  <2>2. CASE f[k] # k
    <3>1. f[k] \in 1..n /\ f[k] < k
      BY <1>1, <2>2
    <3>2. q[f[k]] = w[f[k]]
      BY <3>1, <1>13
    <3>3. QED
      BY <2>2, <3>2, <1>8, <1>12
  <2>3. QED
    BY <2>1, <2>2
<1> HIDE DEF A
<1>14. \A k \in 1..n : k \in A
  BY <1>13, Descent
<1>15. \A k \in 1..n : Find(f, k) = q[k]
  BY <1>11, <1>14 DEF A
<1>16. QED
  BY <1>7, <1>8, <1>15 DEF Rooting

\* What find returns is a root, and no larger than where it began.
LEMMA Found ==
  ASSUME NEW n \in Nat, NEW f \in Forests(n)
  PROVE  \A k \in 1..n : /\ Find(f, k) \in 1..n /\ Find(f, k) <= k /\ f[Find(f, k)] = Find(f, k)
                         /\ Find(f, k) = IF f[k] = k THEN k ELSE Find(f, f[k])
<1>1. f \in [1..n -> 1..n] /\ \A k \in 1..n : f[k] \in 1..n /\ f[k] <= k
  BY DEF Forests
<1>2. PICK root \in [1..n -> 0..n] : Rooting(root, f, n) /\ \A k \in 1..n : Find(f, k) = root[k]
  BY FindDef
<1>3. \A k \in 1..n : Find(f, k) = IF f[k] = k THEN k ELSE Find(f, f[k])
  BY <1>1, <1>2 DEF Rooting
<1> DEFINE A == {k \in 1..n : Find(f, k) \in 1..n /\ Find(f, k) <= k /\ f[Find(f, k)] = Find(f, k)}
<1>4. ASSUME NEW k \in 1..n, \A j \in 1..n : j < k => j \in A PROVE k \in A
  <2>1. CASE f[k] = k
    BY <2>1, <1>3
  <2>2. CASE f[k] # k
    <3>1. f[k] \in 1..n /\ f[k] < k /\ Find(f, k) = Find(f, f[k])
      BY <1>1, <1>3, <2>2
    <3>2. f[k] \in A
      BY <3>1, <1>4
    <3>3. QED
      BY <3>1, <3>2
  <2>3. QED
    BY <2>1, <2>2
<1> HIDE DEF A
<1>5. \A k \in 1..n : k \in A
  BY <1>4, Descent
<1>6. QED
  BY <1>3, <1>5 DEF A

\* union joins the two trees and leaves the others as they are.
Unites(f, g, n, i, j) ==
  /\ Find(g, i) = Find(g, j)
  /\ \A x, y \in 1..n : Find(f, x) = Find(f, y) => Find(g, x) = Find(g, y)

LEMMA JoinUnites ==
  ASSUME NEW n \in Nat, NEW f \in Forests(n), NEW i \in 1..n, NEW j \in 1..n
  PROVE  Join(f, i, j) \in Forests(n) /\ Unites(f, Join(f, i, j), n, i, j)
<1>1. f \in [1..n -> 1..n] /\ \A k \in 1..n : f[k] \in 1..n /\ f[k] <= k
  BY DEF Forests
<1>2. PICK a, b : a = Find(f, i) /\ b = Find(f, j)
  OBVIOUS
<1>3. a \in 1..n /\ b \in 1..n /\ f[a] = a /\ f[b] = b
  BY <1>2, Found
<1>4. PICK lo, hi : /\ lo = (IF a < b THEN a ELSE b) /\ hi = (IF a < b THEN b ELSE a)
  OBVIOUS
<1>5. lo \in 1..n /\ hi \in 1..n /\ lo <= hi /\ f[lo] = lo /\ f[hi] = hi
  BY <1>3, <1>4
<1>6. PICK g : g = Join(f, i, j)
  OBVIOUS
<1>7. g = [f EXCEPT ![hi] = lo]
  BY <1>2, <1>4, <1>6 DEF Join
<1>8. g[hi] = lo /\ (\A k \in 1..n : k # hi => g[k] = f[k]) /\ g \in [1..n -> 1..n]
  BY <1>1, <1>5, <1>7
<1>9. g \in Forests(n)
  <2>1. \A k \in 1..n : g[k] <= k
    BY <1>1, <1>5, <1>8
  <2>2. QED
    BY <1>8, <2>1 DEF Forests
<1> DEFINE A == {k \in 1..n : Find(g, k) = IF Find(f, k) = hi THEN lo ELSE Find(f, k)}
<1>10. g[lo] = lo
  BY <1>5, <1>8
<1>11. Find(g, lo) = lo
  BY <1>5, <1>9, <1>10, Found
<1>12. ASSUME NEW k \in 1..n, \A l \in 1..n : l < k => l \in A PROVE k \in A
  <2>1. CASE k = hi
    <3>1. Find(f, k) = hi
      BY <1>5, <2>1, Found
    <3>2. Find(g, k) = lo
      <4>1. CASE lo = hi
        BY <2>1, <4>1, <1>11
      <4>2. CASE lo # hi
        BY <2>1, <4>2, <1>5, <1>8, <1>9, <1>11, Found
      <4>3. QED
        BY <4>1, <4>2
    <3>3. QED
      BY <3>1, <3>2
  <2>2. CASE k # hi /\ f[k] = k
    <3>1. Find(f, k) = k
      BY <2>2, Found
    <3>2. g[k] = k
      BY <2>2, <1>8
    <3>3. Find(g, k) = k
      BY <3>2, <1>9, Found
    <3>4. QED
      BY <2>2, <3>1, <3>3
  <2>3. CASE k # hi /\ f[k] # k
    <3>1. f[k] \in 1..n /\ f[k] < k /\ g[k] = f[k]
      BY <1>1, <1>8, <2>3
    <3>2. Find(f, k) = Find(f, f[k]) /\ Find(g, k) = Find(g, f[k])
      BY <3>1, <2>3, <1>9, Found
    <3>3. f[k] \in A
      BY <3>1, <1>12
    <3>4. QED
      BY <3>2, <3>3
  <2>4. QED
    BY <2>1, <2>2, <2>3
<1> HIDE DEF A
<1>13. \A k \in 1..n : k \in A
  BY <1>12, Descent
<1>14. \A k \in 1..n : Find(g, k) = IF Find(f, k) = hi THEN lo ELSE Find(f, k)
  BY <1>13 DEF A
<1>15. Find(g, i) = Find(g, j)
  <2>1. {a, b} = {lo, hi}
    BY <1>4
  <2>2. Find(g, i) = (IF a = hi THEN lo ELSE a) /\ Find(g, j) = (IF b = hi THEN lo ELSE b)
    BY <1>2, <1>14
  <2>3. QED
    BY <2>1, <2>2
<1>16. \A x, y \in 1..n : Find(f, x) = Find(f, y) => Find(g, x) = Find(g, y)
  BY <1>14
<1>17. QED
  BY <1>6, <1>9, <1>15, <1>16 DEF Unites

\* Whom f has in one tree, g has in one tree.
Coarser(f, g, n) == \A x, y \in 1..n : Find(f, x) = Find(f, y) => Find(g, x) = Find(g, y)

\* The pair is joined: i comes before j and they collide.
Joins(claims, i, j) == i < j /\ Collide(claims[i], claims[j])

\* The inner loop, cell by cell.
Cells(cell, claims, f, i, n) ==
  /\ cell[0] = f /\ JoinRow(claims, f, i) = cell[n]
  /\ \A j \in 1..n :
       cell[j] = IF Joins(claims, i, j) THEN Join(cell[j - 1], i, j) ELSE cell[j - 1]

LEMMA RowDef ==
  ASSUME NEW claims, NEW n \in Nat, Len(claims) = n, NEW f \in Forests(n), NEW i \in 1..n
  PROVE  \E cell \in [0..n -> Forests(n)] : Cells(cell, claims, f, i, n)
<1> DEFINE S == Forests(n)
<1> DEFINE G == [j \in 1..n |-> [g \in S |-> IF Joins(claims, i, j) THEN Join(g, i, j) ELSE g]]
<1> DEFINE Q(cell) == cell = [j \in 0 .. n |->
        CASE j = 0 -> f
          [] i < j /\ Collide(claims[i], claims[j]) -> Join(cell[j - 1], i, j)
          [] OTHER -> cell[j - 1]]
<1>1. \A j \in 1..n, g \in S : Join(g, i, j) \in S
  BY JoinUnites
<1> HIDE DEF S
<1>2. G \in [1..n -> [S -> S]]
  BY <1>1
<1>3. \A j \in 1..n, g \in S : G[j][g] = IF Joins(claims, i, j) THEN Join(g, i, j) ELSE g
  OBVIOUS
<1> HIDE DEF G
<1>4. f \in S
  BY DEF S
<1>5. PICK p \in [0..n -> S] : Builds(p, n, f, G)
  BY <1>2, <1>4, Building
<1>6. ASSUME NEW j \in 1..n
      PROVE  p[j] = IF Joins(claims, i, j) THEN Join(p[j - 1], i, j) ELSE p[j - 1]
  <2>1. j - 1 \in 0..n
    OBVIOUS
  <2>2. p[j - 1] \in S /\ p[j] = G[j][p[j - 1]]
    BY <2>1, <1>5 DEF Builds
  <2>3. QED
    BY <2>2, <1>3
<1>7. p[0] = f
  BY <1>5 DEF Builds
<1>8. Q(p)
  <2>1. \A j \in 0..n : j # 0 => j \in 1..n
    OBVIOUS
  <2>2. ASSUME NEW j \in 0..n
        PROVE  p[j] = CASE j = 0 -> f
                        [] i < j /\ Collide(claims[i], claims[j]) -> Join(p[j - 1], i, j)
                        [] OTHER -> p[j - 1]
    <3>1. CASE j = 0
      BY <3>1, <1>7
    <3>2. CASE j # 0
      BY <3>2, <2>1, <1>6 DEF Joins
    <3>3. QED
      BY <3>1, <3>2
  <2>3. QED
    BY <2>2, <1>5
<1> DEFINE w == CHOOSE cell : Q(cell)
<1>9. Q(w)
  BY <1>8
<1>10. JoinRow(claims, f, i) = w[n]
  BY DEF JoinRow
<1> HIDE DEF w
<1>11. w[0] = f
  BY <1>9
<1>12. \A j \in 1..n : w[j] = IF Joins(claims, i, j) THEN Join(w[j - 1], i, j) ELSE w[j - 1]
  <2>1. \A j \in 1..n : j \in 0..n /\ j # 0
    OBVIOUS
  <2>2. QED
    BY <2>1, <1>9 DEF Joins
<1> HIDE DEF Q
<1> DEFINE A == {j \in 0..n : p[j] = w[j]}
<1>13. 0 \in A
  BY <1>7, <1>11
<1>14. \A j \in 1..n : j - 1 \in A => j \in A
  BY <1>6, <1>12
<1> HIDE DEF A
<1>15. \A j \in 0..n : j \in A
  BY <1>13, <1>14, Climb
<1>16. p[n] = w[n]
  BY <1>15 DEF A
<1>17. Cells(p, claims, f, i, n)
  BY <1>6, <1>7, <1>10, <1>16 DEF Cells
<1>18. QED
  BY <1>5, <1>17 DEF S

LEMMA RowJoins ==
  ASSUME NEW claims, NEW n \in Nat, Len(claims) = n, NEW f \in Forests(n), NEW i \in 1..n
  PROVE  LET g == JoinRow(claims, f, i) IN
           /\ g \in Forests(n) /\ Coarser(f, g, n)
           /\ \A j \in 1..n : Joins(claims, i, j) => Find(g, i) = Find(g, j)
<1>a. PICK cell \in [0..n -> Forests(n)] : Cells(cell, claims, f, i, n)
  BY RowDef
<1>1. /\ cell[0] = f /\ JoinRow(claims, f, i) = cell[n]
      /\ \A j \in 1..n :
           cell[j] = IF Joins(claims, i, j) THEN Join(cell[j - 1], i, j) ELSE cell[j - 1]
  BY <1>a DEF Cells
<1> DEFINE P(j) == /\ Coarser(f, cell[j], n)
                   /\ \A l \in 1..j : Joins(claims, i, l) => Find(cell[j], i) = Find(cell[j], l)
<1> DEFINE A == {j \in 0..n : P(j)}
<1>2. 0 \in A
  <2>1. Coarser(f, cell[0], n)
    BY <1>1 DEF Coarser
  <2>2. QED
    BY <2>1
<1>3. ASSUME NEW j \in 1..n, j - 1 \in A PROVE j \in A
  <2>1. cell[j - 1] \in Forests(n) /\ P(j - 1)
    BY <1>1, <1>3
  <2>2. CASE Joins(claims, i, j)
    <3>1. Unites(cell[j - 1], cell[j], n, i, j)
      BY <1>1, <2>1, <2>2, JoinUnites
    <3>2. Coarser(f, cell[j], n)
      BY <2>1, <3>1 DEF Unites, Coarser
    <3>3. ASSUME NEW l \in 1..j, Joins(claims, i, l) PROVE Find(cell[j], i) = Find(cell[j], l)
      <4>1. CASE l = j
        BY <4>1, <3>1 DEF Unites
      <4>2. CASE l # j
        <5>1. l \in 1..(j - 1) /\ l \in 1..n
          BY <4>2
        <5>2. QED
          BY <5>1, <2>1, <3>1, <3>3 DEF Unites
      <4>3. QED
        BY <4>1, <4>2
    <3>4. QED
      BY <3>2, <3>3
  <2>3. CASE ~Joins(claims, i, j)
    <3>1. cell[j] = cell[j - 1]
      BY <1>1, <2>3
    <3>2. \A l \in 1..j : Joins(claims, i, l) => l \in 1..(j - 1)
      BY <2>3
    <3>3. QED
      BY <2>1, <3>1, <3>2
  <2>4. QED
    BY <2>2, <2>3
<1> HIDE DEF A
<1>4. \A j \in 0..n : j \in A
  BY <1>2, <1>3, Climb
<1>5. P(n)
  BY <1>4 DEF A
<1>6. cell[n] \in Forests(n)
  BY <1>1
<1>7. QED
  BY <1>1, <1>5, <1>6

\* The outer loop.
LEMMA RowsDef ==
  ASSUME NEW claims, NEW n \in Nat, Len(claims) = n, DOMAIN claims = 1..n
  PROVE  \E rows \in [0..n -> Forests(n)] :
           /\ \A i \in 1..n : rows[i] = JoinRow(claims, rows[i - 1], i)
           /\ Roots(claims) = [i \in 1..n |-> Find(rows[n], i)]
<1> DEFINE S == Forests(n)
<1> DEFINE ids == [k \in DOMAIN claims |-> k]
<1> DEFINE G == [i \in 1..n |-> [g \in S |-> JoinRow(claims, g, i)]]
<1> DEFINE Q(rows) == rows = [i \in 0 .. n |->
        IF i = 0 THEN [k \in DOMAIN claims |-> k] ELSE JoinRow(claims, rows[i - 1], i)]
<1>1. \A i \in 1..n, g \in S : JoinRow(claims, g, i) \in S
  BY RowJoins
<1>2. ids \in S
  BY DEF Forests
<1> HIDE DEF S
<1>3. G \in [1..n -> [S -> S]]
  BY <1>1
<1>4. \A i \in 1..n, g \in S : G[i][g] = JoinRow(claims, g, i)
  OBVIOUS
<1> HIDE DEF G
<1>5. PICK p \in [0..n -> S] : Builds(p, n, ids, G)
  BY <1>2, <1>3, Building
<1>6. ASSUME NEW i \in 1..n PROVE p[i] = JoinRow(claims, p[i - 1], i)
  <2>1. i - 1 \in 0..n
    OBVIOUS
  <2>2. p[i - 1] \in S /\ p[i] = G[i][p[i - 1]]
    BY <2>1, <1>5 DEF Builds
  <2>3. QED
    BY <2>2, <1>4
<1>7. p[0] = ids
  BY <1>5 DEF Builds
<1>8. Q(p)
  <2>1. \A i \in 0..n : i # 0 => i \in 1..n
    OBVIOUS
  <2>2. \A i \in 0..n : p[i] = IF i = 0 THEN ids ELSE JoinRow(claims, p[i - 1], i)
    BY <2>1, <1>6, <1>7
  <2>3. QED
    BY <2>2, <1>5
<1> DEFINE w == CHOOSE rows : Q(rows)
<1>9. Q(w)
  BY <1>8
<1>10. Roots(claims) = [i \in 1..n |-> Find(w[n], i)]
  BY DEF Roots
<1> HIDE DEF w
<1>11. w[0] = ids
  BY <1>9
<1>12. \A i \in 1..n : w[i] = JoinRow(claims, w[i - 1], i)
  <2>1. \A i \in 1..n : i \in 0..n /\ i # 0
    OBVIOUS
  <2>2. QED
    BY <2>1, <1>9
<1> HIDE DEF Q, ids
<1> DEFINE A == {i \in 0..n : p[i] = w[i]}
<1>13. 0 \in A
  BY <1>7, <1>11
<1>14. \A i \in 1..n : i - 1 \in A => i \in A
  BY <1>6, <1>12
<1> HIDE DEF A
<1>15. \A i \in 0..n : i \in A
  BY <1>13, <1>14, Climb
<1>16. p[n] = w[n]
  BY <1>15 DEF A
<1>17. QED
  BY <1>5, <1>6, <1>10, <1>16 DEF S

\* root names for each claim the smallest of its tree, and colliding ones are in one.
Grouping(root, claims, n) ==
  /\ root \in [1..n -> 1..n]
  /\ \A k \in 1..n : root[k] <= k /\ root[root[k]] = root[k]
  /\ \A i, j \in 1..n : Joins(claims, i, j) => root[i] = root[j]

LEMMA RootsGroup ==
  ASSUME NEW claims, NEW n \in Nat, Len(claims) = n, DOMAIN claims = 1..n
  PROVE  Grouping(Roots(claims), claims, n)
<1>1. PICK rows \in [0..n -> Forests(n)] :
           /\ \A i \in 1..n : rows[i] = JoinRow(claims, rows[i - 1], i)
           /\ Roots(claims) = [i \in 1..n |-> Find(rows[n], i)]
  BY RowsDef
<1> DEFINE P(i) == \A h \in 1..i, l \in 1..n : Joins(claims, h, l) => Find(rows[i], h) = Find(rows[i], l)
<1> DEFINE A == {i \in 0..n : P(i)}
<1>2. 0 \in A
  OBVIOUS
<1>3. ASSUME NEW i \in 1..n, i - 1 \in A PROVE i \in A
  <2>1. i - 1 \in 0..n /\ P(i - 1) /\ rows[i] = JoinRow(claims, rows[i - 1], i)
    BY <1>1, <1>3
  <2>2. rows[i - 1] \in Forests(n)
    BY <1>1, <2>1
  <2>3. /\ Coarser(rows[i - 1], rows[i], n)
        /\ \A j \in 1..n : Joins(claims, i, j) => Find(rows[i], i) = Find(rows[i], j)
    BY <2>1, <2>2, RowJoins
  <2>4. ASSUME NEW h \in 1..i, NEW l \in 1..n, Joins(claims, h, l)
        PROVE  Find(rows[i], h) = Find(rows[i], l)
    <3>1. CASE h = i
      BY <3>1, <2>3, <2>4
    <3>2. CASE h # i
      <4>1. h \in 1..(i - 1) /\ h \in 1..n
        BY <3>2
      <4>2. Find(rows[i - 1], h) = Find(rows[i - 1], l)
        BY <4>1, <2>1, <2>4
      <4>3. QED
        BY <4>1, <4>2, <2>3 DEF Coarser
    <3>3. QED
      BY <3>1, <3>2
  <2>5. QED
    BY <2>4
<1> HIDE DEF A
<1>4. \A i \in 0..n : i \in A
  BY <1>2, <1>3, Climb
<1>5. P(n)
  BY <1>4 DEF A
<1>6. PICK f \in Forests(n) : f = rows[n]
  BY <1>1
<1>7. \A k \in 1..n : Roots(claims)[k] = Find(f, k)
  BY <1>1, <1>6
<1>8. \A k \in 1..n : /\ Find(f, k) \in 1..n /\ Find(f, k) <= k /\ f[Find(f, k)] = Find(f, k)
                      /\ Find(f, k) = IF f[k] = k THEN k ELSE Find(f, f[k])
  BY Found
<1>9. \A k \in 1..n : Find(f, Find(f, k)) = Find(f, k)
  BY <1>8
<1>10. Roots(claims) \in [1..n -> 1..n]
  BY <1>1, <1>6, <1>8
<1>11. \A i, j \in 1..n : Joins(claims, i, j) => Find(f, i) = Find(f, j)
  BY <1>5, <1>6
<1>12. QED
  BY <1>7, <1>8, <1>9, <1>10, <1>11 DEF Grouping

-----------------------------------------------------------------------------
(* The groups. *)

\* s has every root up to m, once.
Lists(s, root, m) ==
  /\ s \in Seq(Nat)
  /\ \A k \in DOMAIN s : s[k] \in 1..m /\ root[s[k]] = s[k]
  /\ \A k, l \in DOMAIN s : s[k] = s[l] => k = l
  /\ \A i \in 1..m : root[i] = i => \E k \in DOMAIN s : s[k] = i

LEMMA ListGrows ==
  ASSUME NEW s, NEW root, NEW m \in Nat, Lists(s, root, m)
  PROVE  /\ root[m + 1] = m + 1 => Lists(Append(s, m + 1), root, m + 1)
         /\ root[m + 1] # m + 1 => Lists(s, root, m + 1)
<1>1. /\ s \in Seq(Nat) /\ DOMAIN s = 1 .. Len(s) /\ Len(s) \in Nat
      /\ \A k \in DOMAIN s : s[k] \in 1..m /\ root[s[k]] = s[k]
      /\ \A k, l \in DOMAIN s : s[k] = s[l] => k = l
      /\ \A i \in 1..m : root[i] = i => \E k \in DOMAIN s : s[k] = i
  BY DEF Lists
<1>2. ASSUME root[m + 1] = m + 1 PROVE Lists(Append(s, m + 1), root, m + 1)
  <2>1. PICK t : t = Append(s, m + 1)
    OBVIOUS
  <2>2. /\ t \in Seq(Nat) /\ DOMAIN t = 1 .. Len(s) + 1 /\ t[Len(s) + 1] = m + 1
        /\ \A k \in DOMAIN s : t[k] = s[k]
    BY <1>1, <2>1
  <2>3. \A k \in DOMAIN t : k \in DOMAIN s \/ k = Len(s) + 1
    BY <1>1, <2>2
  <2>4. \A k \in DOMAIN t : t[k] \in 1..m + 1 /\ root[t[k]] = t[k]
    <3> SUFFICES ASSUME NEW k \in DOMAIN t PROVE t[k] \in 1..m + 1 /\ root[t[k]] = t[k]
      OBVIOUS
    <3>1. CASE k \in DOMAIN s
      BY <3>1, <1>1, <2>2
    <3>2. CASE k = Len(s) + 1
      BY <3>2, <1>2, <2>2
    <3>3. QED
      BY <2>3, <3>1, <3>2
  <2>5. \A k, l \in DOMAIN t : t[k] = t[l] => k = l
    <3> SUFFICES ASSUME NEW k \in DOMAIN t, NEW l \in DOMAIN t, t[k] = t[l] PROVE k = l
      OBVIOUS
    <3>1. \A h \in DOMAIN s : t[h] \in 1..m /\ t[h] # m + 1
      BY <1>1, <2>2
    <3>2. QED
      BY <1>1, <2>2, <2>3, <3>1
  <2>6. \A i \in 1..m + 1 : root[i] = i => \E k \in DOMAIN t : t[k] = i
    <3> SUFFICES ASSUME NEW i \in 1..m + 1, root[i] = i PROVE \E k \in DOMAIN t : t[k] = i
      OBVIOUS
    <3>1. CASE i \in 1..m
      <4>1. PICK k \in DOMAIN s : s[k] = i
        BY <1>1, <3>1
      <4>2. k \in DOMAIN t /\ t[k] = i
        BY <1>1, <2>2, <4>1
      <4>3. QED
        BY <4>2
    <3>2. CASE i = m + 1
      <4>1. Len(s) + 1 \in DOMAIN t
        BY <1>1, <2>2
      <4>2. QED
        BY <4>1, <2>2, <3>2
    <3>3. QED
      BY <3>1, <3>2
  <2>7. QED
    BY <2>1, <2>2, <2>4, <2>5, <2>6 DEF Lists
<1>3. ASSUME root[m + 1] # m + 1 PROVE Lists(s, root, m + 1)
  <2>1. \A k \in DOMAIN s : s[k] \in 1..m + 1
    BY <1>1
  <2>2. \A i \in 1..m + 1 : root[i] = i => i \in 1..m
    BY <1>3
  <2>3. QED
    BY <1>1, <2>1, <2>2 DEF Lists
<1>4. QED
  BY <1>2, <1>3

LEMMA FirstsList ==
  ASSUME NEW n \in Nat, NEW root, Len(root) = n
  PROVE  Lists(Firsts(root), root, n)
<1> DEFINE S == Seq(Nat)
<1> DEFINE G == [m \in 1..n |-> [s \in S |-> IF root[m] = m THEN Append(s, m) ELSE s]]
<1> DEFINE Q(upTo) == upTo = [m \in 0 .. n |->
        CASE m = 0 -> <<>>
          [] m > 0 /\ root[m] = m -> Append(upTo[m - 1], m)
          [] OTHER -> upTo[m - 1]]
<1>1. \A m \in 1..n, s \in S : Append(s, m) \in S
  OBVIOUS
<1>2. <<>> \in S
  OBVIOUS
<1> HIDE DEF S
<1>3. G \in [1..n -> [S -> S]]
  BY <1>1
<1>4. \A m \in 1..n, s \in S : G[m][s] = IF root[m] = m THEN Append(s, m) ELSE s
  OBVIOUS
<1> HIDE DEF G
<1>5. PICK p \in [0..n -> S] : Builds(p, n, <<>>, G)
  BY <1>2, <1>3, Building
<1>6. ASSUME NEW m \in 1..n PROVE p[m] = IF root[m] = m THEN Append(p[m - 1], m) ELSE p[m - 1]
  <2>1. m - 1 \in 0..n
    OBVIOUS
  <2>2. p[m - 1] \in S /\ p[m] = G[m][p[m - 1]]
    BY <2>1, <1>5 DEF Builds
  <2>3. QED
    BY <2>2, <1>4
<1>7. p[0] = <<>>
  BY <1>5 DEF Builds
<1>8. Q(p)
  <2>1. \A m \in 0..n : m # 0 => m \in 1..n
    OBVIOUS
  <2>2. ASSUME NEW m \in 0..n
        PROVE  p[m] = CASE m = 0 -> <<>>
                        [] m > 0 /\ root[m] = m -> Append(p[m - 1], m)
                        [] OTHER -> p[m - 1]
    <3>1. CASE m = 0
      BY <3>1, <1>7
    <3>2. CASE m # 0
      BY <3>2, <2>1, <1>6
    <3>3. QED
      BY <3>1, <3>2
  <2>3. QED
    BY <2>2, <1>5
<1> DEFINE w == CHOOSE upTo : Q(upTo)
<1>9. Q(w)
  BY <1>8
<1>10. Firsts(root) = w[n]
  BY DEF Firsts
<1> HIDE DEF w
<1>11. w[0] = <<>>
  BY <1>9
<1>12. \A m \in 1..n : w[m] = IF root[m] = m THEN Append(w[m - 1], m) ELSE w[m - 1]
  <2>1. \A m \in 1..n : m \in 0..n /\ m # 0 /\ m > 0
    OBVIOUS
  <2>2. QED
    BY <2>1, <1>9
<1> HIDE DEF Q
<1> DEFINE A == {m \in 0..n : Lists(w[m], root, m)}
<1>13. 0 \in A
  <2>1. <<>> \in Seq(Nat) /\ DOMAIN <<>> = {} /\ \A i \in 1..0 : FALSE
    OBVIOUS
  <2>2. Lists(<<>>, root, 0)
    BY <2>1 DEF Lists
  <2>3. QED
    BY <1>11, <2>2
<1>14. ASSUME NEW m \in 1..n, m - 1 \in A PROVE m \in A
  <2>1. Lists(w[m - 1], root, m - 1) /\ m - 1 \in Nat /\ (m - 1) + 1 = m
    BY <1>14
  <2>2. PICK l \in Nat : l = m - 1 /\ l + 1 = m
    BY <2>1
  <2>3. Lists(w[m - 1], root, l)
    BY <2>1, <2>2
  <2>4. /\ root[m] = m => Lists(Append(w[m - 1], m), root, m)
        /\ root[m] # m => Lists(w[m - 1], root, m)
    BY <2>2, <2>3, ListGrows
  <2>5. Lists(w[m], root, m)
    BY <1>12, <2>4
  <2>6. QED
    BY <2>5
<1> HIDE DEF A
<1>15. \A m \in 0..n : m \in A
  BY <1>13, <1>14, Climb
<1>16. QED
  BY <1>10, <1>15 DEF A

\* The sets of ms are parts of 1..n, apart from one another and all of it together, and
\* claims in two of them do not collide.
Parted(ms, claims, n) ==
  /\ ms \in Seq(SUBSET (1..n))
  /\ \A i \in 1..n : \E k \in DOMAIN ms : i \in ms[k]
  /\ \A k, l \in DOMAIN ms : k # l =>
       \A i \in ms[k], j \in ms[l] : i # j /\ ~Collide(claims[i], claims[j])

LEMMA CollideBoth == ASSUME NEW s, NEW t, Collide(s, t) PROVE Collide(t, s)
  BY DEF Collide, ScopesOverlap

\* Groups by root.
LEMMA GroupsPart ==
  ASSUME NEW n \in Nat, NEW claims, NEW root, Grouping(root, claims, n),
         NEW s, Lists(s, root, n)
  PROVE  Parted([k \in DOMAIN s |-> {i \in 1..n : root[i] = s[k]}], claims, n)
<1> DEFINE ms == [k \in DOMAIN s |-> {i \in 1..n : root[i] = s[k]}]
<1>1. /\ s \in Seq(Nat) /\ DOMAIN s = 1 .. Len(s) /\ Len(s) \in Nat
      /\ \A k, l \in DOMAIN s : s[k] = s[l] => k = l
      /\ \A i \in 1..n : root[i] = i => \E k \in DOMAIN s : s[k] = i
  BY DEF Lists
<1>2. /\ \A i \in 1..n : root[i] \in 1..n /\ root[root[i]] = root[i]
      /\ \A i, j \in 1..n : Joins(claims, i, j) => root[i] = root[j]
  BY DEF Grouping
<1>3. ms \in Seq(SUBSET (1..n))
  BY <1>1
<1>4. DOMAIN ms = DOMAIN s /\ \A k \in DOMAIN s : \A i : i \in ms[k] <=> i \in 1..n /\ root[i] = s[k]
  OBVIOUS
<1> HIDE DEF ms
<1>5. \A i \in 1..n : \E k \in DOMAIN ms : i \in ms[k]
  <2> SUFFICES ASSUME NEW i \in 1..n PROVE \E k \in DOMAIN ms : i \in ms[k]
    OBVIOUS
  <2>1. PICK k \in DOMAIN s : s[k] = root[i]
    BY <1>1, <1>2
  <2>2. QED
    BY <1>4, <2>1
<1>6. ASSUME NEW k \in DOMAIN ms, NEW l \in DOMAIN ms, k # l, NEW i \in ms[k], NEW j \in ms[l]
      PROVE  i # j /\ ~Collide(claims[i], claims[j])
  <2>1. i \in 1..n /\ j \in 1..n /\ root[i] = s[k] /\ root[j] = s[l]
    BY <1>4, <1>6
  <2>2. root[i] # root[j]
    BY <1>1, <1>4, <1>6, <2>1
  <2>3. i # j /\ ~Joins(claims, i, j) /\ ~Joins(claims, j, i)
    BY <1>2, <2>1, <2>2
  <2>4. i < j \/ j < i
    BY <2>1, <2>3
  <2>5. QED
    BY <2>3, <2>4, CollideBoth DEF Joins
<1>7. Parted(ms, claims, n)
  BY <1>3, <1>5, <1>6 DEF Parted
<1>8. QED
  BY <1>7 DEF ms

\* The fold of the tail.
LEMMA FoldParts ==
  ASSUME NEW n \in Nat, NEW claims, NEW ms, Parted(ms, claims, n), NEW max \in Nat \ {0},
         Len(ms) > max
  PROVE  Parted(Append(SubSeq(ms, 1, max - 1),
                       UNION {ms[k] : k \in {h \in DOMAIN ms : h >= max}}), claims, n)
<1> DEFINE tail == UNION {ms[k] : k \in {h \in DOMAIN ms : h >= max}}
<1> DEFINE head == SubSeq(ms, 1, max - 1)
<1> DEFINE ns == Append(head, tail)
<1>1. /\ ms \in Seq(SUBSET (1..n)) /\ DOMAIN ms = 1 .. Len(ms) /\ Len(ms) \in Nat
      /\ \A k \in DOMAIN ms : ms[k] \subseteq 1..n
  BY DEF Parted
<1>2. tail \in SUBSET (1..n) /\ \A i : i \in tail <=> \E k \in DOMAIN ms : k >= max /\ i \in ms[k]
  BY <1>1
<1>3. /\ head \in Seq(SUBSET (1..n)) /\ Len(head) = max - 1
      /\ \A k \in 1..(max - 1) : head[k] = ms[k]
  BY <1>1
<1> HIDE DEF tail, head
<1>4. /\ ns \in Seq(SUBSET (1..n)) /\ DOMAIN ns = 1..max /\ ns[max] = tail
      /\ \A k \in 1..(max - 1) : ns[k] = ms[k]
  BY <1>2, <1>3
<1> HIDE DEF ns
<1>5. ASSUME NEW k \in DOMAIN ns, NEW i \in ns[k]
      PROVE  \E h \in DOMAIN ms : i \in ms[h] /\ k = IF h < max THEN h ELSE max
  <2>1. CASE k = max
    BY <2>1, <1>1, <1>2, <1>4, <1>5
  <2>2. CASE k # max
    BY <2>2, <1>1, <1>4, <1>5
  <2>3. QED
    BY <2>1, <2>2
<1>6. \A i \in 1..n : \E k \in DOMAIN ns : i \in ns[k]
  <2> SUFFICES ASSUME NEW i \in 1..n PROVE \E k \in DOMAIN ns : i \in ns[k]
    OBVIOUS
  <2>1. PICK h \in DOMAIN ms : i \in ms[h]
    BY DEF Parted
  <2>2. CASE h < max
    BY <2>1, <2>2, <1>1, <1>4
  <2>3. CASE h >= max
    BY <2>1, <2>3, <1>1, <1>2, <1>4
  <2>4. QED
    BY <1>1, <2>2, <2>3
<1>7. ASSUME NEW k \in DOMAIN ns, NEW l \in DOMAIN ns, k # l, NEW i \in ns[k], NEW j \in ns[l]
      PROVE  i # j /\ ~Collide(claims[i], claims[j])
  <2>1. PICK g \in DOMAIN ms : i \in ms[g] /\ k = IF g < max THEN g ELSE max
    BY <1>5, <1>7
  <2>2. PICK h \in DOMAIN ms : j \in ms[h] /\ l = IF h < max THEN h ELSE max
    BY <1>5, <1>7
  <2>3. g # h
    BY <1>7, <2>1, <2>2
  <2>4. QED
    BY <2>1, <2>2, <2>3 DEF Parted
<1>8. Parted(ns, claims, n)
  BY <1>4, <1>6, <1>7 DEF Parted
<1>9. QED
  BY <1>8 DEF ns, head, tail

LEMMA MergedParts ==
  ASSUME NEW p, NEW n \in Nat, DOMAIN p = 1..n, Len(p) = n
  PROVE  Parted(Merged(p), Claims(p), n)
<1> DEFINE c == Claims(p)
<1> DEFINE root == Roots(c)
<1> DEFINE firsts == Firsts(root)
<1> DEFINE groups == [k \in DOMAIN firsts |-> {i \in DOMAIN p : root[i] = firsts[k]}]
<1>1. DOMAIN c = 1..n /\ Len(c) = n
  BY DEF Claims
<1> HIDE DEF c
<1>2. Grouping(root, c, n)
  BY <1>1, RootsGroup
<1> HIDE DEF root
<1>3. Len(root) = n
  BY <1>2 DEF Grouping
<1>4. Lists(firsts, root, n)
  BY <1>3, FirstsList
<1> HIDE DEF firsts
<1>5. Parted(groups, c, n)
  BY <1>2, <1>4, GroupsPart
<1> HIDE DEF groups
<1>6. MaxMembers \in Nat \ {0}
  BY NumbersAssumption
<1>7. Merged(p) = IF Len(groups) > MaxMembers
                  THEN Append(SubSeq(groups, 1, MaxMembers - 1),
                              UNION {groups[k] : k \in {h \in DOMAIN groups : h >= MaxMembers}})
                  ELSE groups
  BY DEF Merged, groups, firsts, root, c
<1>8. CASE Len(groups) > MaxMembers
  BY <1>5, <1>6, <1>7, <1>8, FoldParts DEF c
<1>9. CASE ~(Len(groups) > MaxMembers)
  BY <1>5, <1>7, <1>9 DEF c
<1>10. QED
  BY <1>8, <1>9

\* The members of ms share out the subtasks of p, and no two of them may touch one file.
Apart(ms, p) ==
  /\ \A k, l \in DOMAIN ms : k # l =>
       ~Collide(ms[k].scopes, ms[l].scopes) /\ ms[k].parts \cap ms[l].parts = {}
  /\ UNION {ms[k].parts : k \in DOMAIN ms} = DOMAIN p

LEMMA WrittenApart ==
  ASSUME NEW p, NEW n \in Nat, DOMAIN p = 1..n, Len(p) = n, Valid(p)
  PROVE  Apart(AsWritten(p), p) /\ DOMAIN AsWritten(p) = 1..n
<1>1. /\ DOMAIN AsWritten(p) = 1..n
      /\ \A i \in 1..n : AsWritten(p)[i].parts = {i} /\ AsWritten(p)[i].scopes = p[i]
  BY DEF AsWritten
<1>2. \A i, j \in 1..n : i < j => ~Collide(p[i], p[j])
  BY DEF Valid
<1>3. ASSUME NEW k \in 1..n, NEW l \in 1..n, k # l PROVE ~Collide(p[k], p[l])
  <2>1. k < l \/ l < k
    BY <1>3
  <2>2. QED
    BY <1>2, <2>1, CollideBoth
<1>4. UNION {AsWritten(p)[k].parts : k \in DOMAIN AsWritten(p)} = 1..n
  BY <1>1
<1>5. QED
  BY <1>1, <1>3, <1>4 DEF Apart

LEMMA RepairedApart ==
  ASSUME NEW p, NEW n \in Nat, DOMAIN p = 1..n, Len(p) = n
  PROVE  Apart(RepairTeamPlan(p), p) /\ \E k \in Nat : DOMAIN RepairTeamPlan(p) = 1..k
<1> DEFINE c == Claims(p)
<1> DEFINE ms == Merged(p)
<1> DEFINE r == RepairTeamPlan(p)
<1>1. Parted(ms, c, n)
  BY MergedParts
<1> HIDE DEF c, ms
<1>2. /\ Len(ms) \in Nat /\ DOMAIN ms = 1 .. Len(ms) /\ \A k \in DOMAIN ms : ms[k] \subseteq 1..n
  BY <1>1 DEF Parted
<1>3. /\ DOMAIN r = 1 .. Len(ms)
      /\ \A k \in DOMAIN r : r[k].parts = ms[k] /\ r[k].scopes = UNION {c[i] : i \in ms[k]}
  BY DEF RepairTeamPlan, c, ms
<1> HIDE DEF r
<1>4. ASSUME NEW k \in DOMAIN r, NEW l \in DOMAIN r, k # l
      PROVE  ~Collide(r[k].scopes, r[l].scopes) /\ r[k].parts \cap r[l].parts = {}
  <2>1. k \in DOMAIN ms /\ l \in DOMAIN ms
    BY <1>2, <1>3
  <2>2. \A i \in ms[k], j \in ms[l] : i # j /\ ~Collide(c[i], c[j])
    BY <1>1, <1>4, <2>1 DEF Parted
  <2>3. ASSUME Collide(r[k].scopes, r[l].scopes) PROVE FALSE
    <3>1. PICK a \in r[k].scopes, b \in r[l].scopes : ScopesOverlap(a, b)
      BY <2>3 DEF Collide
    <3>2. PICK i \in ms[k] : a \in c[i]
      BY <1>3, <3>1
    <3>3. PICK j \in ms[l] : b \in c[j]
      BY <1>3, <3>1
    <3>4. Collide(c[i], c[j])
      BY <3>1, <3>2, <3>3 DEF Collide
    <3>5. QED
      BY <2>2, <3>4
  <2>4. r[k].parts \cap r[l].parts = {}
    BY <1>3, <2>2
  <2>5. QED
    BY <2>3, <2>4
<1>5. UNION {r[k].parts : k \in DOMAIN r} = 1..n
  BY <1>1, <1>2, <1>3 DEF Parted
<1>6. QED
  BY <1>2, <1>3, <1>4, <1>5 DEF Apart, r

-----------------------------------------------------------------------------
(* The members themselves: what a step leaves of their claims and their cost. *)

SameClaims(r, s) ==
  /\ DOMAIN s.members = DOMAIN r.members
  /\ \A m \in DOMAIN r.members : /\ s.members[m].parts = r.members[m].parts
                                 /\ s.members[m].scopes = r.members[m].scopes

Same(r, s) ==
  SameClaims(r, s) /\ \A m \in DOMAIN r.members : s.members[m].cost = r.members[m].cost

LEMMA SameTwice == ASSUME NEW r, NEW s, NEW t, Same(r, s), Same(s, t) PROVE Same(r, t)
  BY DEF Same, SameClaims

LEMMA SameMember ==
  ASSUME NEW r, Shape(r), NEW m, NEW x,
         m \in DOMAIN r.members =>
           x.parts = r.members[m].parts /\ x.scopes = r.members[m].scopes /\ x.cost = r.members[m].cost
  PROVE  Same(r, [r EXCEPT !.members[m] = x])
<1>1. r = [status |-> r.status, members |-> r.members, owed |-> r.owed, owner |-> r.owner]
  BY DEF Shape
<1>2. PICK s : s = [r EXCEPT !.members[m] = x]
  OBVIOUS
<1>3. s = [status |-> r.status, members |-> [r.members EXCEPT ![m] = x], owed |-> r.owed,
           owner |-> r.owner]
  BY <1>1, <1>2
<1>4. s.members = [r.members EXCEPT ![m] = x]
  BY <1>3
<1>5. r.members = [n \in DOMAIN r.members |-> r.members[n]]
  BY DEF Shape
<1>6. DOMAIN s.members = DOMAIN r.members
  BY <1>4, <1>5
<1>7. \A n \in DOMAIN r.members : s.members[n] = IF n = m THEN x ELSE r.members[n]
  BY <1>4, <1>5
<1>8. Same(r, s)
  BY <1>6, <1>7 DEF Same, SameClaims
<1>9. QED
  BY <1>2, <1>8

\* What the steps set of a member is neither its claim nor its cost.
LEMMA SameMarked ==
  ASSUME NEW r, Shape(r), NEW m, NEW v
  PROVE  /\ Same(r, [r EXCEPT !.members[m].dir = v])
         /\ Same(r, [r EXCEPT !.members[m].patch = v])
         /\ Same(r, [r EXCEPT !.members[m].merged = v])
         /\ Same(r, [r EXCEPT !.members[m].status = v])
<1>1. m \in DOMAIN r.members => IsMember(r.members[m])
  BY DEF Shape
<1>2. Same(r, [r EXCEPT !.members[m].dir = v])
  <2>1. PICK x : x = [r.members[m] EXCEPT !.dir = v]
    OBVIOUS
  <2>2. m \in DOMAIN r.members =>
          x.parts = r.members[m].parts /\ x.scopes = r.members[m].scopes /\ x.cost = r.members[m].cost
    BY <1>1, <2>1 DEF IsMember
  <2>3. [r EXCEPT !.members[m].dir = v] = [r EXCEPT !.members[m] = x]
    BY <2>1
  <2>4. QED
    BY <2>2, <2>3, SameMember
<1>3. Same(r, [r EXCEPT !.members[m].patch = v])
  <2>1. PICK x : x = [r.members[m] EXCEPT !.patch = v]
    OBVIOUS
  <2>2. m \in DOMAIN r.members =>
          x.parts = r.members[m].parts /\ x.scopes = r.members[m].scopes /\ x.cost = r.members[m].cost
    BY <1>1, <2>1 DEF IsMember
  <2>3. [r EXCEPT !.members[m].patch = v] = [r EXCEPT !.members[m] = x]
    BY <2>1
  <2>4. QED
    BY <2>2, <2>3, SameMember
<1>4. Same(r, [r EXCEPT !.members[m].merged = v])
  <2>1. PICK x : x = [r.members[m] EXCEPT !.merged = v]
    OBVIOUS
  <2>2. m \in DOMAIN r.members =>
          x.parts = r.members[m].parts /\ x.scopes = r.members[m].scopes /\ x.cost = r.members[m].cost
    BY <1>1, <2>1 DEF IsMember
  <2>3. [r EXCEPT !.members[m].merged = v] = [r EXCEPT !.members[m] = x]
    BY <2>1
  <2>4. QED
    BY <2>2, <2>3, SameMember
<1>5. Same(r, [r EXCEPT !.members[m].status = v])
  <2>1. PICK x : x = [r.members[m] EXCEPT !.status = v]
    OBVIOUS
  <2>2. m \in DOMAIN r.members =>
          x.parts = r.members[m].parts /\ x.scopes = r.members[m].scopes /\ x.cost = r.members[m].cost
    BY <1>1, <2>1 DEF IsMember
  <2>3. [r EXCEPT !.members[m].status = v] = [r EXCEPT !.members[m] = x]
    BY <2>1
  <2>4. QED
    BY <2>2, <2>3, SameMember
<1>6. QED
  BY <1>2, <1>3, <1>4, <1>5

LEMMA SameFields ==
  ASSUME NEW r, Shape(r), NEW v
  PROVE  Same(r, [r EXCEPT !.status = v]) /\ Same(r, [r EXCEPT !.owed = v])
<1>1. r = [status |-> r.status, members |-> r.members, owed |-> r.owed, owner |-> r.owner]
  BY DEF Shape
<1>2. [r EXCEPT !.status = v] =
        [status |-> v, members |-> r.members, owed |-> r.owed, owner |-> r.owner]
  BY <1>1
<1>3. [r EXCEPT !.owed = v] =
        [status |-> r.status, members |-> r.members, owed |-> v, owner |-> r.owner]
  BY <1>1
<1>4. QED
  BY <1>2, <1>3 DEF Same, SameClaims

\* Only a turn costs something.
LEMMA TurnCosts ==
  ASSUME Shape(record), NEW m \in Team, NEW price
  PROVE  LET s == WithTurn(m, price) IN
           /\ SameClaims(record, s) /\ s.members[m].cost = record.members[m].cost + price
           /\ \A n \in Team : n # m => s.members[n].cost = record.members[n].cost
<1>1. m \in DOMAIN record.members /\ IsMember(record.members[m])
  BY DEF Shape, Team
<1>2. PICK x : x = [record.members[m] EXCEPT !.turns = @ + 1, !.cost = @ + price]
  OBVIOUS
<1>3. /\ IsMember(x) /\ x.parts = record.members[m].parts /\ x.scopes = record.members[m].scopes
      /\ x.cost = record.members[m].cost + price
  BY <1>1, <1>2 DEF IsMember
<1>4. Changed(record, [record EXCEPT !.members[m] = x], m, x)
  BY <1>1, <1>3, MemberChanges
<1>5. WithTurn(m, price) = [record EXCEPT !.members[m] = x]
  BY <1>1, <1>2 DEF WithTurn, Shape
<1>6. PICK s : s = WithTurn(m, price) /\ Changed(record, s, m, x)
  BY <1>4, <1>5
<1>7. /\ SameClaims(record, s) /\ s.members[m].cost = record.members[m].cost + price
      /\ \A n \in Team : n # m => s.members[n].cost = record.members[n].cost
  BY <1>1, <1>3, <1>6 DEF Changed, SameClaims, Team
<1>8. QED
  BY <1>6, <1>7

LEMMA SameDropped == ASSUME NEW r, Shape(r), NEW ms PROVE Same(r, Dropped(r, ms))
<1> DEFINE ns == [n \in DOMAIN r.members |->
                    IF n \in ms THEN [r.members[n] EXCEPT !.patch = FALSE, !.discarded = TRUE,
                                                          !.merged = FALSE]
                    ELSE r.members[n]]
<1>1. r = [status |-> r.status, members |-> r.members, owed |-> r.owed, owner |-> r.owner]
  BY DEF Shape
<1>2. Dropped(r, ms) = [r EXCEPT !.members = ns]
  BY DEF Dropped
<1>3. ASSUME NEW n \in DOMAIN r.members
      PROVE  /\ ns[n].parts = r.members[n].parts /\ ns[n].scopes = r.members[n].scopes
             /\ ns[n].cost = r.members[n].cost
  <2>1. IsMember(r.members[n])
    BY DEF Shape
  <2>2. PICK x : x = [r.members[n] EXCEPT !.patch = FALSE, !.discarded = TRUE, !.merged = FALSE]
    OBVIOUS
  <2>3. /\ x.parts = r.members[n].parts /\ x.scopes = r.members[n].scopes
        /\ x.cost = r.members[n].cost
    BY <2>1, <2>2 DEF IsMember
  <2>4. ns[n] = IF n \in ms THEN x ELSE r.members[n]
    BY <2>2
  <2>5. QED
    BY <2>3, <2>4
<1>4. DOMAIN ns = DOMAIN r.members
  OBVIOUS
<1> HIDE DEF ns
<1>5. [r EXCEPT !.members = ns].members = ns
  BY <1>1
<1>6. QED
  BY <1>2, <1>3, <1>4, <1>5 DEF Same, SameClaims

LEMMA SameLoaded == ASSUME NEW r, Shape(r) PROVE Same(r, Loaded(r))
<1>1. CASE r.status \notin {"planning", "running"}
  BY <1>1 DEF Loaded, Same, SameClaims
<1>2. CASE r.status \in {"planning", "running"}
  <2>1. r = [status |-> r.status, members |-> r.members, owed |-> r.owed, owner |-> r.owner]
    BY DEF Shape
  <2>2. PICK ns : ns = [m \in DOMAIN r.members |->
                          IF r.members[m].status \in {"queued", "running"}
                          THEN [r.members[m] EXCEPT !.status = "interrupted"] ELSE r.members[m]]
    OBVIOUS
  <2>3. Loaded(r) = [r EXCEPT !.status = "interrupted", !.owed = TRUE, !.members = ns]
    BY <1>2, <2>2 DEF Loaded
  <2>4. Loaded(r) = [status |-> "interrupted", members |-> ns, owed |-> TRUE, owner |-> r.owner]
    BY <2>1, <2>3
  <2>5. ASSUME NEW m \in DOMAIN r.members
        PROVE  /\ ns[m].parts = r.members[m].parts /\ ns[m].scopes = r.members[m].scopes
               /\ ns[m].cost = r.members[m].cost
    <3>1. IsMember(r.members[m])
      BY DEF Shape
    <3>2. PICK x : x = [r.members[m] EXCEPT !.status = "interrupted"]
      OBVIOUS
    <3>3. /\ x.parts = r.members[m].parts /\ x.scopes = r.members[m].scopes
          /\ x.cost = r.members[m].cost
      BY <3>1, <3>2 DEF IsMember
    <3>4. ns[m] = x \/ ns[m] = r.members[m]
      BY <2>2, <3>2
    <3>5. QED
      BY <3>3, <3>4
  <2>6. DOMAIN ns = DOMAIN r.members /\ Loaded(r).members = ns
    BY <2>2, <2>4
  <2>7. QED
    BY <2>5, <2>6 DEF Same, SameClaims
<1>3. QED
  BY <1>1, <1>2

LEMMA SameSelf == ASSUME NEW r PROVE Same(r, r)
  BY DEF Same, SameClaims

-----------------------------------------------------------------------------
(* Every step but a start, a plan's, a turn's, a death's and a restart's. *)

\* The members stay what they are, in both copies.
Stays == Same(record, record') /\ saved' \in {saved, record'}

LEMMA CapturedStays == ASSUME Shape(record), NEW m, Captured(m) PROVE Stays
<1>1. CASE UNCHANGED <<record, saved>>
  BY <1>1, SameSelf DEF Stays
<1>2. CASE Keep([record EXCEPT !.members[m].patch = TRUE])
  <2>1. Same(record, [record EXCEPT !.members[m].patch = TRUE])
    BY SameMarked
  <2>2. QED
    BY <1>2, <2>1 DEF Keep, Stays
<1>3. QED
  BY <1>1, <1>2 DEF Captured

LEMMA WorkerStays == ASSUME IInv, NEW m \in Members, Worker(m) \/ AgentEnds(m) PROVE Stays
<1>1. Shape(record)
  BY DEF IInv, ShapeInv
<1>2. CASE Take(m)
  <2>1. PICK v : record' = [record EXCEPT !.members[m].status = v] /\ saved' = record'
    BY <1>2 DEF Take, Save
  <2>2. Same(record, record')
    BY <1>1, <2>1, SameMarked
  <2>3. QED
    BY <2>1, <2>2 DEF Stays
<1>3. CASE WorktreeAdded(m)
  BY <1>1, <1>3, SameMarked DEF WorktreeAdded, Save, Stays
<1>4. CASE WorktreeFails(m)
  BY <1>1, <1>4, SameMarked DEF WorktreeFails, Save, Stays
<1>5. CASE \/ Spawned(m) \/ SpawnFails(m) \/ LeaveRace(m) \/ CaptureThrows(m) \/ Teardown(m)
           \/ AgentEnds(m)
  BY <1>5, SameSelf DEF Spawned, SpawnFails, LeaveRace, CaptureThrows, Teardown, AgentEnds, Stays
<1>6. CASE Capture(m)
  BY <1>1, <1>6, CapturedStays DEF Capture
<1>7. CASE Settle(m)
  <2>1. PICK v : record' = [record EXCEPT !.members[m].dir = FALSE, !.members[m].status = v]
    BY <1>7 DEF Settle, Save
  <2>2. saved' = record'
    BY <1>7 DEF Settle, Save
  <2>3. m \in Team
    BY <1>7 DEF Settle, IInv, RunInv
  <2>4. PICK s : s = [record EXCEPT !.members[m].dir = FALSE]
    OBVIOUS
  <2>5. Shape(s) /\ Same(record, s)
    BY <1>1, <2>3, <2>4, MarkChanges, SameMarked DEF Team, DirSet
  <2>6. record' = [s EXCEPT !.members[m].status = v]
    BY <2>1, <2>4
  <2>7. Same(s, record')
    BY <2>5, <2>6, SameMarked
  <2>8. QED
    BY <2>2, <2>5, <2>7, SameTwice DEF Stays
<1>8. QED
  BY <1>2, <1>3, <1>4, <1>5, <1>6, <1>7 DEF Worker

LEMMA MergeEndsStays ==
  ASSUME NEW k, NEW r, Shape(r), Same(record, r), MergeEnds(k, r)
  PROVE  Stays
<1>1. PICK v : record' = [r EXCEPT !.status = v] /\ saved' = record'
  BY DEF MergeEnds, Save
<1>2. Same(r, record')
  BY <1>1, SameFields
<1>3. QED
  BY <1>1, <1>2, SameTwice DEF Stays

LEMMA DiscardStays ==
  ASSUME NEW cs, NEW k, NEW r, Shape(r), Same(record, r), NEW i, NEW trees,
         DiscardFrom(cs, k, r, i, trees)
  PROVE  Stays
<1>1. PICK ms : saved' = saved /\ record' \in {Dropped(r, ms), [Dropped(r, ms) EXCEPT !.status = "discarded"]}
  BY DEF DiscardFrom, Keep
<1>2. PICK d : d = Dropped(r, ms)
  OBVIOUS
<1>3. Shape(d) /\ Same(r, d)
  BY <1>2, DropChanges, SameDropped DEF DropSet
<1>4. Same(d, record')
  <2>1. CASE record' = d
    BY <2>1, SameSelf
  <2>2. CASE record' = [d EXCEPT !.status = "discarded"]
    BY <1>3, <2>2, SameFields
  <2>3. QED
    BY <1>1, <1>2, <2>1, <2>2
<1>5. QED
  BY <1>1, <1>3, <1>4, SameTwice DEF Stays

LEMMA CallStays ==
  ASSUME IInv, NEW k \in DOMAIN calls,
         \/ MergeBegins(k) \/ MergeRejects(k) \/ GitApplies(k) \/ MergeContinues(k)
         \/ DiscardRemoves(k) \/ DiscardEnds(k)
  PROVE  Stays
<1>1. Shape(record) /\ Same(record, record)
  BY SameSelf DEF IInv, ShapeInv
<1>2. CASE MergeBegins(k)
  <2>1. MergeEnds(k, record) \/ UNCHANGED <<record, saved>>
    BY <1>2 DEF MergeBegins
  <2>2. QED
    BY <1>1, <2>1, MergeEndsStays DEF Stays
<1>3. CASE GitApplies(k) \/ MergeRejects(k)
  BY <1>1, <1>3 DEF GitApplies, MergeRejects, Stays
<1>4. CASE MergeContinues(k)
  <2>1. CASE Applied(k)
    <3>1. calls[k].at \in Team
      BY <2>1 DEF Applied, IInv, MergedInv
    <3>2. PICK r : r = [record EXCEPT !.members[calls[k].at].merged = TRUE]
      OBVIOUS
    <3>3. Shape(r) /\ Same(record, r)
      BY <1>1, <3>1, <3>2, MarkChanges, SameMarked DEF Team, MergedSet
    <3>4. MergeEnds(k, r) \/ Save(r)
      BY <1>4, <2>1, <3>2 DEF MergeContinues
    <3>5. QED
      BY <3>3, <3>4, MergeEndsStays DEF Save, Stays
  <2>2. CASE ~Applied(k)
    BY <1>1, <1>4, <2>2, MergeEndsStays DEF MergeContinues
  <2>3. QED
    BY <2>1, <2>2
<1>5. CASE DiscardRemoves(k)
  <2>1. PICK m : m = calls[k].at
    OBVIOUS
  <2>2. m \in Team
    BY <1>5, <2>1 DEF DiscardRemoves, IInv, DiscardInv
  <2>3. PICK r : r = [record EXCEPT !.members[m].dir = FALSE]
    OBVIOUS
  <2>4. Shape(r) /\ Same(record, r)
    BY <1>1, <2>2, <2>3, MarkChanges, SameMarked DEF Team, DirSet
  <2>5. \E trees : DiscardFrom(calls, k, r, m, trees)
    BY <1>5, <2>1, <2>3 DEF DiscardRemoves
  <2>6. QED
    BY <2>4, <2>5, DiscardStays
<1>6. CASE DiscardEnds(k)
  BY <1>1, <1>6, SameFields DEF DiscardEnds, Save, Stays
<1>7. QED
  BY <1>2, <1>3, <1>4, <1>5, <1>6

LEMMA OtherStays ==
  ASSUME IInv,
         \/ Cleanup \/ Conclude \/ StartRejects \/ Cancel \/ Interrupt
         \/ Recover \/ RecoveryCaptures \/ RecoveryThrows
         \/ RecoveryRemoves \/ RecoveryEnds \/ Merge \/ Discard \/ UNCHANGED vars
  PROVE  Stays
<1>1. Shape(record) /\ Same(record, record)
  BY SameSelf DEF IInv, ShapeInv
<1>2. CASE Cleanup \/ StartRejects \/ Interrupt \/ Recover \/ RecoveryThrows \/ Merge \/ UNCHANGED vars
  BY <1>1, <1>2 DEF Cleanup, StartRejects, Interrupt, Recover, RecoveryThrows, Merge, vars, Stays
<1>3. CASE Conclude
  <2>1. PICK v : record' = [record EXCEPT !.owed = FALSE, !.status = v] /\ saved' = record'
    BY <1>3 DEF Conclude, Save
  <2>2. PICK s : s = [record EXCEPT !.owed = FALSE]
    OBVIOUS
  <2>3. Shape(s) /\ Same(record, s)
    BY <1>1, <2>2, FieldChanges, SameFields DEF SameMarks
  <2>4. record' = [s EXCEPT !.status = v]
    BY <2>1, <2>2
  <2>5. Same(s, record')
    BY <2>3, <2>4, SameFields
  <2>6. QED
    BY <2>1, <2>3, <2>5, SameTwice DEF Stays
<1>4. CASE Cancel
  <2>1. CASE UNCHANGED <<record, saved>>
    BY <1>1, <2>1 DEF Stays
  <2>2. CASE Save([record EXCEPT !.status = "cancelled"])
    <3>1. Same(record, [record EXCEPT !.status = "cancelled"])
      BY <1>1, SameFields
    <3>2. QED
      BY <2>2, <3>1 DEF Save, Stays
  <2>3. QED
    BY <1>4, <2>1, <2>2 DEF Cancel
<1>5. CASE RecoveryCaptures
  BY <1>1, <1>5, CapturedStays DEF RecoveryCaptures
<1>6. CASE RecoveryRemoves
  BY <1>1, <1>6, SameMarked DEF RecoveryRemoves, Keep, Stays
<1>7. CASE RecoveryEnds
  BY <1>1, <1>7, SameFields DEF RecoveryEnds, Save, Stays
<1>8. CASE Discard
  BY <1>1, <1>8, DiscardStays DEF Discard
<1>9. QED
  BY <1>2, <1>3, <1>4, <1>5, <1>6, <1>7, <1>8

-----------------------------------------------------------------------------
(* Who the members are. *)

StaffInv ==
  /\ plan = <<>> \/ plan \in Plans
  /\ \A r \in Copies : /\ \E n \in Nat : Priced(r, n)
                       /\ DOMAIN r.members # {} => Apart(r.members, plan)

LEMMA LenOf == ASSUME NEW f, NEW n \in Nat, f = [m \in 1..n |-> f[m]] PROVE Len(f) = n
<1> DEFINE S == {f[m] : m \in 1..n}
<1>1. f \in [1..n -> S]
  OBVIOUS
<1>2. f \in Seq(S)
  BY <1>1
<1> HIDE DEF S
<1>3. DOMAIN f = 1 .. Len(f) /\ Len(f) \in Nat /\ DOMAIN f = 1..n
  BY <1>1, <1>2
<1>4. QED
  BY <1>3

LEMMA StaffPriced ==
  ASSUME NEW s, Shape(s), NEW n \in Nat, DOMAIN s.members = 1..n,
         \A m \in 1..n : s.members[m].cost \in Nat
  PROVE  Priced(s, n)
<1>1. s.members = [m \in 1..n |-> s.members[m]]
  BY DEF Shape
<1>2. Len(s.members) = n
  BY <1>1, LenOf
<1>3. QED
  BY <1>2 DEF Priced

LEMMA SamePriced ==
  ASSUME NEW r, NEW s, Shape(s), Same(r, s), NEW n, Priced(r, n)
  PROVE  Priced(s, n)
  BY StaffPriced DEF Same, SameClaims, Priced

LEMMA SameApart ==
  ASSUME NEW r, NEW s, SameClaims(r, s), NEW p, Apart(r.members, p)
  PROVE  Apart(s.members, p)
<1>1. DOMAIN s.members = DOMAIN r.members
  BY DEF SameClaims
<1>2. \A m \in DOMAIN r.members : s.members[m].parts = r.members[m].parts
  BY DEF SameClaims
<1>3. \A m \in DOMAIN r.members : s.members[m].scopes = r.members[m].scopes
  BY DEF SameClaims
<1>4. {s.members[k].parts : k \in DOMAIN s.members} = {r.members[k].parts : k \in DOMAIN r.members}
  BY <1>1, <1>2
<1>5. UNION {s.members[k].parts : k \in DOMAIN s.members} = DOMAIN p
  BY <1>4 DEF Apart
<1>6. ASSUME NEW k \in DOMAIN s.members, NEW l \in DOMAIN s.members, k # l
      PROVE  /\ ~Collide(s.members[k].scopes, s.members[l].scopes)
             /\ s.members[k].parts \cap s.members[l].parts = {}
  <2>1. /\ ~Collide(r.members[k].scopes, r.members[l].scopes)
        /\ r.members[k].parts \cap r.members[l].parts = {}
    BY <1>1, <1>6 DEF Apart
  <2> QED  BY <2>1, <1>1, <1>2, <1>3
<1> QED  BY <1>5, <1>6 DEF Apart

LEMMA StaffStays ==
  ASSUME IInv', StaffInv, Stays, plan' = plan
  PROVE  StaffInv'
<1>1. record \in Copies /\ saved \in Copies /\ Shape(record') /\ Shape(saved')
  BY DEF Copies, IInv, ShapeInv
<1>2. ASSUME NEW s \in Copies'
      PROVE  /\ \E n \in Nat : Priced(s, n)
             /\ DOMAIN s.members # {} => Apart(s.members, plan')
  <2>1. PICK r \in Copies : Same(r, s) /\ Shape(s)
    BY <1>1, SameSelf DEF Copies, Stays
  <2>2. PICK n \in Nat : Priced(r, n)
    BY DEF StaffInv
  <2>3. Priced(s, n)
    BY <2>1, <2>2, SamePriced
  <2>4. DOMAIN s.members # {} => Apart(s.members, plan)
    BY <2>1, SameApart DEF StaffInv, Same, SameClaims
  <2>5. QED
    BY <2>3, <2>4
<1>3. QED
  BY <1>2 DEF StaffInv, Stays

LEMMA PlanShape ==
  ASSUME NEW p \in Plans \ {<<>>}
  PROVE  Len(p) \in Nat /\ DOMAIN p = 1 .. Len(p)
  BY PlansAssumption

\* A plan is dispatched.
LEMMA StaffDispatch ==
  ASSUME IInv, IInv', NEW ms, NEW n \in Nat, DOMAIN ms = 1..n, NEW limit, Dispatch(ms, limit),
         plan' \in Plans, Apart(ms, plan')
  PROVE  StaffInv' /\ Priced(record', n) /\ \A m \in 1..n : record'.members[m].cost = 0
<1>1. /\ record = [status |-> record.status, members |-> record.members, owed |-> record.owed,
                   owner |-> record.owner]
      /\ Shape(record')
  BY DEF IInv, ShapeInv, Shape
<1>2. PICK ns : ns = [k \in DOMAIN ms |-> Queued(ms[k])]
  OBVIOUS
<1>3. record' = [record EXCEPT !.status = "running", !.members = ns] /\ saved' = record'
  BY <1>2 DEF Dispatch, Save
<1>4. record'.members = ns
  BY <1>1, <1>3
<1>5. /\ DOMAIN ns = 1..n
      /\ \A k \in 1..n : ns[k].parts = ms[k].parts /\ ns[k].scopes = ms[k].scopes /\ ns[k].cost = 0
  BY <1>2 DEF Queued
<1>6. Priced(record', n)
  <2>1. \A m \in 1..n : record'.members[m].cost \in Nat
    BY <1>4, <1>5
  <2>2. DOMAIN record'.members = 1..n
    BY <1>4, <1>5
  <2>3. QED
    BY <1>1, <2>1, <2>2, StaffPriced
<1>7. Apart(ns, plan')
  BY ZenonT(60), <1>5 DEF Apart
<1>8. Copies' = {record'}
  BY <1>3 DEF Copies
<1>9. QED
  BY <1>4, <1>5, <1>6, <1>7, <1>8 DEF StaffInv

\* While the team is planned it has no members.
LEMMA NoStaffYet ==
  ASSUME IInv, IInv', run.at = "planning", plan' = <<>> \/ plan' \in Plans,
         Same(record, record'), saved' \in {saved, record'}
  PROVE  StaffInv'
<1>1. DOMAIN record.members = {} /\ record # NoTeam
  BY DEF IInv, RunInv, OwnerInv, NoRun
<1>2. DOMAIN saved.members = {}
  BY <1>1 DEF IInv, OwnerInv
<1>3. \A s \in Copies' : DOMAIN s.members = {} /\ Shape(s)
  BY <1>1, <1>2 DEF Copies, Same, SameClaims, IInv, ShapeInv
<1>4. 1..0 = {}
  OBVIOUS
<1>5. \A s \in Copies' : Priced(s, 0)
  BY <1>3, <1>4, StaffPriced
<1>6. QED
  BY <1>3, <1>5 DEF StaffInv

\* A step of the planning keeps the record as it is or dispatches the members.
LEMMA AttemptStaff ==
  ASSUME IInv, NEW p, AfterAttempt(p), p = <<>> \/ p \in Plans
  PROVE  \/ GiveUp
         \/ UNCHANGED <<record, saved>> /\ run' = [run EXCEPT !.attempt = 2]
         \/ /\ p \in Plans
            /\ \E n \in Nat : /\ DOMAIN RepairTeamPlan(p) = 1..n /\ Apart(RepairTeamPlan(p), p)
                              /\ \E limit \in Limits : Dispatch(RepairTeamPlan(p), limit)
<1>1. ASSUME p # <<>>
      PROVE  \E n \in Nat : DOMAIN RepairTeamPlan(p) = 1..n /\ Apart(RepairTeamPlan(p), p)
  <2>1. Len(p) \in Nat /\ DOMAIN p = 1 .. Len(p)
    BY <1>1, PlanShape
  <2>2. QED
    BY <2>1, RepairedApart
<1>2. CASE run.attempt = 1
  BY <1>2 DEF AfterAttempt
<1>3. CASE run.attempt # 1 /\ p = <<>>
  BY <1>3 DEF AfterAttempt
<1>4. CASE run.attempt # 1 /\ p # <<>>
  <2>1. \E limit \in Limits : Dispatch(RepairTeamPlan(p), limit)
    BY <1>4 DEF AfterAttempt
  <2>2. QED
    BY <1>1, <1>4, <2>1
<1>5. QED
  BY <1>2, <1>3, <1>4

\* What a step of the planning comes to.
LEMMA PlanEffect ==
  ASSUME IInv, StaffInv, PlanFails \/ \E p \in Plans : PlanArrives(p)
  PROVE  /\ run.at = "planning" /\ work' = work /\ (plan' = <<>> \/ plan' \in Plans)
         /\ \/ Same(record, record') /\ saved' \in {saved, record'} /\ run'.at \in {"no", "planning"}
            \/ \E ms : \E n \in Nat :
                 /\ DOMAIN ms = 1..n /\ plan' \in Plans /\ Apart(ms, plan')
                 /\ \E limit \in Limits : Dispatch(ms, limit)
<1>1. Shape(record) /\ run \in RunRecords /\ (plan = <<>> \/ plan \in Plans)
  BY DEF IInv, ShapeInv, StaffInv
<1>2. ASSUME GiveUp
      PROVE  Same(record, record') /\ saved' \in {saved, record'} /\ run'.at = "no"
  <2>1. PICK s : s = [record EXCEPT !.status = "failed"]
    OBVIOUS
  <2>2. record' = [s EXCEPT !.owed = FALSE] /\ saved' = record'
    BY <1>2, <2>1 DEF GiveUp, Save
  <2>3. Shape(s) /\ Same(record, s)
    BY <1>1, <2>1, FieldChanges, SameFields DEF SameMarks
  <2>4. Same(s, record')
    BY <2>2, <2>3, SameFields
  <2>5. QED
    BY <1>2, <2>2, <2>3, <2>4, SameTwice DEF GiveUp, NoRun
<1>3. ASSUME run.at = "planning", NEW p, p = <<>> \/ p \in Plans, plan' = p, AfterAttempt(p)
      PROVE  \/ Same(record, record') /\ saved' \in {saved, record'} /\ run'.at \in {"no", "planning"}
             \/ \E ms : \E n \in Nat :
                  /\ DOMAIN ms = 1..n /\ plan' \in Plans /\ Apart(ms, plan')
                  /\ \E limit \in Limits : Dispatch(ms, limit)
  <2>1. CASE GiveUp
    BY <1>2, <2>1
  <2>2. CASE UNCHANGED <<record, saved>> /\ run' = [run EXCEPT !.attempt = 2]
    BY <1>1, <1>3, <2>2, SameSelf DEF RunRecords
  <2>3. CASE /\ p \in Plans
             /\ \E n \in Nat : /\ DOMAIN RepairTeamPlan(p) = 1..n /\ Apart(RepairTeamPlan(p), p)
                               /\ \E limit \in Limits : Dispatch(RepairTeamPlan(p), limit)
    BY <1>3, <2>3
  <2>4. QED
    BY <1>3, <2>1, <2>2, <2>3, AttemptStaff
<1>4. CASE PlanFails
  BY <1>1, <1>3, <1>4 DEF PlanFails
<1>5. ASSUME NEW p \in Plans, PlanArrives(p)
      PROVE  /\ run.at = "planning" /\ work' = work /\ (plan' = <<>> \/ plan' \in Plans)
             /\ \/ Same(record, record') /\ saved' \in {saved, record'} /\ run'.at \in {"no", "planning"}
                \/ \E ms : \E n \in Nat :
                     /\ DOMAIN ms = 1..n /\ plan' \in Plans /\ Apart(ms, plan')
                     /\ \E limit \in Limits : Dispatch(ms, limit)
  <2>1. run.at = "planning" /\ work' = work /\ plan' = p /\ p # <<>>
    BY <1>5 DEF PlanArrives
  <2>2. CASE Valid(p)
    <3>1. Len(p) \in Nat /\ DOMAIN p = 1 .. Len(p)
      BY <2>1, PlanShape
    <3>2. Apart(AsWritten(p), p) /\ DOMAIN AsWritten(p) = 1 .. Len(p)
      BY <2>2, <3>1, WrittenApart
    <3>3. \E limit \in Limits : Dispatch(AsWritten(p), limit)
      BY <1>5, <2>2 DEF PlanArrives
    <3>4. QED
      BY <2>1, <3>1, <3>2, <3>3
  <2>3. CASE ~Valid(p)
    BY <1>3, <1>5, <2>1, <2>3 DEF PlanArrives
  <2>4. QED
    BY <2>2, <2>3
<1>6. QED
  BY <1>4, <1>5

LEMMA TurnStaff ==
  ASSUME IInv, IInv', StaffInv, NEW m \in Members, work[m].pc = "running", NEW price \in Prices,
         record' = WithTurn(m, price), saved' = saved, plan' = plan
  PROVE  /\ StaffInv' /\ Spent(record) \in Nat
         /\ Spent(record') = Spent(record) + price
<1>1. /\ Shape(record) /\ Shape(record') /\ m \in Team /\ m \in Nat \ {0} /\ price \in Nat
      /\ record \in Copies
  BY NumbersAssumption DEF IInv, ShapeInv, RunInv, Members, Copies
<1>2. /\ SameClaims(record, record') /\ record'.members[m].cost = record.members[m].cost + price
      /\ \A k \in Team : k # m => record'.members[k].cost = record.members[k].cost
  BY <1>1, TurnCosts
<1>3. PICK n \in Nat : Priced(record, n)
  BY <1>1 DEF StaffInv
<1>4. DOMAIN record.members = 1..n /\ Team = 1..n /\ \A k \in 1..n : record.members[k].cost \in Nat
  BY <1>3 DEF Priced, Team
<1>5. \A k \in 1..n : record'.members[k].cost = record.members[k].cost + (IF k = m THEN price ELSE 0)
  BY <1>2, <1>4
<1>6. Priced(record', n)
  <2>1. \A k \in 1..n : record'.members[k].cost \in Nat
    BY SMTT(30), <1>1, <1>4, <1>5
  <2>2. DOMAIN record'.members = 1..n
    BY <1>2, <1>4 DEF SameClaims
  <2>3. QED
    BY <1>1, <2>1, <2>2, StaffPriced
<1>7. Spent(record') = Spent(record) + price
  <2>1. Spent(record') = Spent(record) + (IF m <= n THEN price ELSE 0)
    BY <1>1, <1>3, <1>5, <1>6, SpentAdds
  <2>2. m <= n
    BY <1>1, <1>4
  <2>3. QED
    BY <2>1, <2>2
<1>8. Spent(record) \in Nat
  BY <1>3, SpentSums
<1>9. StaffInv'
  <2>1. DOMAIN record'.members # {} => Apart(record'.members, plan)
    BY <1>1, <1>2, SameApart DEF StaffInv, SameClaims
  <2>2. saved \in Copies
    BY DEF Copies
  <2>3. Copies' = {record', saved}
    BY DEF Copies
  <2>4. QED
    BY <1>6, <2>1, <2>2, <2>3 DEF StaffInv
<1>10. QED
  BY <1>7, <1>8, <1>9

LEMMA StaffStep ==
  ASSUME IInv, IInv', StaffInv, [Next]_vars
  PROVE  StaffInv'
<1>1. CASE Start
  <2>1. record = NoTeam /\ saved = NoTeam /\ plan' = plan
    BY <1>1 DEF Start, IInv, OwnerInv
  <2>2. record' = [NoTeam EXCEPT !.status = "planning", !.owed = TRUE, !.owner = 1] /\ saved' = record'
    BY <1>1 DEF Start, Save
  <2>3. record'.members = <<>> /\ Shape(record')
    BY <2>2 DEF NoTeam, IInv, ShapeInv
  <2>4. Stays
    BY <2>1, <2>2, <2>3 DEF Stays, Same, SameClaims, NoTeam
  <2>5. QED
    BY <2>1, <2>4, StaffStays
<1>2. CASE PlanFails \/ \E p \in Plans : PlanArrives(p)
  <2>1. /\ run.at = "planning" /\ (plan' = <<>> \/ plan' \in Plans)
        /\ \/ Same(record, record') /\ saved' \in {saved, record'}
           \/ \E ms : \E n \in Nat :
                /\ DOMAIN ms = 1..n /\ plan' \in Plans /\ Apart(ms, plan')
                /\ \E limit \in Limits : Dispatch(ms, limit)
    BY <1>2, PlanEffect
  <2>2. QED
    BY <2>1, NoStaffYet, StaffDispatch
<1>3. ASSUME NEW m \in Members, Worker(m) \/ AgentEnds(m) PROVE StaffInv'
  <2>1. plan' = plan
    BY <1>3 DEF Worker, AgentEnds, Take, WorktreeAdded, WorktreeFails, Spawned, SpawnFails, LeaveRace,
                Capture, CaptureThrows, Teardown, Settle
  <2>2. QED
    BY <1>3, <2>1, WorkerStays, StaffStays
<1>4. ASSUME NEW m \in Members, Turn(m) \/ LastTurn(m) PROVE StaffInv'
  <2>1. PICK price \in Prices : record' = WithTurn(m, price) /\ saved' = saved
    BY <1>4 DEF Turn, Counted, LastTurn, Keep
  <2>2. work[m].pc = "running" /\ plan' = plan
    BY <1>4 DEF Turn, LastTurn
  <2>3. QED
    BY <2>1, <2>2, TurnStaff
<1>5. CASE \/ Cleanup \/ Conclude \/ StartRejects \/ Cancel \/ Interrupt
           \/ Recover \/ RecoveryCaptures \/ RecoveryThrows
           \/ RecoveryRemoves \/ RecoveryEnds \/ Merge \/ Discard \/ UNCHANGED vars
  <2>1. plan' = plan
    BY <1>5 DEF Cleanup, Conclude, StartRejects, Cancel, Interrupt, Recover, RecoveryCaptures,
                RecoveryThrows, RecoveryRemoves, RecoveryEnds, Merge, Discard, vars
  <2>2. QED
    BY <1>5, <2>1, OtherStays, StaffStays
<1>6. ASSUME NEW k \in DOMAIN calls,
             \/ MergeBegins(k) \/ MergeRejects(k) \/ GitApplies(k) \/ MergeContinues(k)
             \/ DiscardRemoves(k) \/ DiscardEnds(k)
      PROVE  StaffInv'
  <2>1. plan' = plan
    BY <1>6 DEF MergeBegins, MergeRejects, GitApplies, MergeContinues, DiscardRemoves, DiscardEnds
  <2>2. QED
    BY <1>6, <2>1, CallStays, StaffStays
<1>7. CASE Crash
  <2>1. record' = NoTeam /\ saved' = saved /\ plan' = plan
    BY <1>7 DEF Crash
  <2>2. DOMAIN NoTeam.members = {} /\ DOMAIN NoTeam.members = 1..0 /\ Shape(record')
    BY DEF NoTeam, IInv, ShapeInv
  <2>3. Priced(NoTeam, 0)
    BY <2>1, <2>2, StaffPriced
  <2>4. Copies' = {NoTeam, saved} /\ saved \in Copies
    BY <2>1 DEF Copies
  <2>5. QED
    BY <2>1, <2>2, <2>3, <2>4 DEF StaffInv
<1>8. CASE Restart
  <2>1. record' = Loaded(saved) /\ saved' = record' /\ plan' = plan
    BY <1>8 DEF Restart, Save
  <2>2. Same(saved, record') /\ Shape(record') /\ saved \in Copies
    BY <2>1, SameLoaded DEF IInv, ShapeInv, Copies
  <2>3. PICK n \in Nat : Priced(saved, n)
    BY <2>2 DEF StaffInv
  <2>4. Priced(record', n)
    BY <2>2, <2>3, SamePriced
  <2>5. DOMAIN record'.members # {} => Apart(record'.members, plan)
    BY <2>2, SameApart DEF StaffInv, Same, SameClaims
  <2>6. Copies' = {record'}
    BY <2>1 DEF Copies
  <2>7. QED
    BY <2>1, <2>4, <2>5, <2>6 DEF StaffInv
<1>9. QED
  BY <1>1, <1>2, <1>3, <1>4, <1>5, <1>6, <1>7, <1>8 DEF Next

LEMMA StaffAtFirst == Init => StaffInv
<1> SUFFICES ASSUME Init PROVE StaffInv
  OBVIOUS
<1>1. Copies = {NoTeam} /\ plan = <<>> /\ Shape(NoTeam)
  BY Initially DEF Init, Copies, IInv, ShapeInv
<1>2. DOMAIN NoTeam.members = {} /\ DOMAIN NoTeam.members = 1..0
  BY DEF NoTeam
<1>3. Priced(NoTeam, 0)
  BY <1>1, <1>2, StaffPriced
<1>4. QED
  BY <1>1, <1>2, <1>3 DEF StaffInv

LEMMA Staffed == Spec => []StaffInv
<1>1. IInv /\ IInv' /\ StaffInv /\ [Next]_vars => StaffInv'
  BY StaffStep
<1>2. QED
  BY <1>1, StaffAtFirst, Invariance, PTL DEF Spec

\* "A plan is never dispatched until its file scopes are provably disjoint" and a
\* repair drops no work: whatever was planned, no two members may touch one file,
\* and every subtask is somebody's (validateTeamPlan and repairTeamPlan).
THEOREM ScopesAreDisjoint == Spec => []MembersDisjoint
<1>1. IInv /\ StaffInv => MembersDisjoint
  <2> SUFFICES ASSUME IInv, StaffInv PROVE MembersDisjoint
    OBVIOUS
  <2>1. record \in Copies /\ record.members = [m \in DOMAIN record.members |-> record.members[m]]
    BY DEF Copies, IInv, ShapeInv, Shape
  <2>2. DOMAIN record.members = {} => record.members = <<>>
    BY <2>1
  <2>3. QED
    BY <2>1, <2>2 DEF StaffInv, Apart, MembersDisjoint, Team
<1>2. QED
  BY <1>1, Invariance, Staffed, PTL

-----------------------------------------------------------------------------
(* What they may spend. *)

\* The members whose run goes on, and those of them that have not lost the race
\* with the cutoff, who may yet count the turn they are in.
Busy == {m \in Members : InFlight(m)}
Racing == {m \in Members : work[m].pc = "running" /\ work[m].why = "none"}

\* Before the cutoff less than the ceiling is spent; behind it the turns that may
\* yet be counted are no more than the other workers.
SpendInv ==
  run.at = "running" =>
    /\ run.limit >= 1 /\ Cardinality(Busy) <= run.limit
    /\ Ceiling > 0 =>
         /\ ~run.cut => Spent(record) < Ceiling
         /\ run.cut => Spent(record) + Cardinality(Racing) <= Ceiling + run.limit - 1

LEMMA FiniteCrowd ==
  ASSUME NEW S, S \subseteq Members
  PROVE  IsFiniteSet(S) /\ Cardinality(S) \in Nat
<1>1. IsFiniteSet(Members)
  BY NumbersAssumption, FS_Interval DEF Members
<1>2. QED
  BY <1>1, FS_Subset, FS_CardinalityType

LEMMA SmallerCounts ==
  ASSUME NEW S, S \subseteq Members, NEW T, T \subseteq S
  PROVE  Cardinality(T) <= Cardinality(S)
  BY FiniteCrowd, FS_Subset

LEMMA OneLess ==
  ASSUME NEW S, S \subseteq Members, NEW m \in S, NEW T, T \subseteq S \ {m}
  PROVE  Cardinality(T) <= Cardinality(S) - 1
<1>1. IsFiniteSet(S) /\ IsFiniteSet(S \ {m}) /\ Cardinality(S) \in Nat /\ Cardinality(T) \in Nat
  BY FiniteCrowd
<1>2. Cardinality(S \ {m}) = Cardinality(S) - 1
  BY <1>1, FS_RemoveElement
<1>3. Cardinality(T) <= Cardinality(S \ {m})
  BY <1>1, FS_Subset
<1>4. QED
  BY <1>2, <1>3

LEMMA OneMore ==
  ASSUME NEW S, S \subseteq Members, NEW m, NEW T, T \subseteq S \cup {m}
  PROVE  Cardinality(T) <= Cardinality(S) + 1
<1>1. IsFiniteSet(S) /\ Cardinality(S) \in Nat
  BY FiniteCrowd
<1>2. IsFiniteSet(S \cup {m}) /\ Cardinality(S \cup {m}) <= Cardinality(S) + 1
  BY <1>1, FS_AddElement
<1>3. Cardinality(T) <= Cardinality(S \cup {m}) /\ Cardinality(T) \in Nat /\ Cardinality(S \cup {m}) \in Nat
  BY <1>2, FS_Subset, FS_CardinalityType
<1>4. QED
  BY <1>1, <1>2, <1>3

LEMMA Crowd ==
  /\ Busy \subseteq Members /\ Racing \subseteq Busy
  /\ Cardinality(Busy) \in Nat /\ Cardinality(Racing) \in Nat
  /\ Cardinality(Racing) <= Cardinality(Busy)
<1>1. Busy \subseteq Members /\ Racing \subseteq Busy
  BY DEF Busy, Racing, InFlight
<1>2. QED
  BY <1>1, FiniteCrowd, SmallerCounts

LEMMA RunNumbers == ASSUME IInv PROVE run.limit \in Nat /\ Ceiling \in Nat
  BY NumbersAssumption DEF IInv, ShapeInv, RunRecords

LEMMA SpentStays ==
  ASSUME IInv', StaffInv, Same(record, record')
  PROVE  Spent(record) \in Nat /\ Spent(record') = Spent(record)
<1>1. record \in Copies /\ Shape(record')
  BY DEF Copies, IInv, ShapeInv
<1>2. PICK n \in Nat : Priced(record, n)
  BY <1>1 DEF StaffInv
<1>3. Priced(record', n)
  BY <1>1, <1>2, SamePriced
<1>4. \A m \in 1..n : record'.members[m].cost = record.members[m].cost + (IF m = 1 THEN 0 ELSE 0)
  BY <1>2 DEF Priced, Same
<1>5. Spent(record) \in Nat
  BY <1>2, SpentSums
<1>6. Spent(record') = Spent(record) + (IF 1 <= n THEN 0 ELSE 0)
  <2>1. PICK k \in Nat \ {0} : k = 1
    OBVIOUS
  <2>2. \A m \in 1..n : record'.members[m].cost = record.members[m].cost + (IF m = k THEN 0 ELSE 0)
    BY <1>4
  <2>3. Spent(record') = Spent(record) + (IF k <= n THEN 0 ELSE 0)
    BY <1>2, <1>3, <2>2, SpentAdds
  <2>4. QED
    BY <2>1, <2>3
<1>7. QED
  BY <1>5, <1>6

\* A step that costs nothing, starts nobody and gives nobody a chance to count.
LEMMA SpendStays ==
  ASSUME IInv, IInv', StaffInv, SpendInv, Same(record, record'),
         run'.at = run.at, run'.cut = run.cut, run'.limit = run.limit,
         run.at = "running" => Busy' \subseteq Busy /\ (run.cut => Racing' \subseteq Racing)
  PROVE  SpendInv'
<1> SUFFICES ASSUME run'.at = "running"
             PROVE  /\ run'.limit >= 1 /\ Cardinality(Busy') <= run'.limit
                    /\ Ceiling > 0 =>
                         /\ ~run'.cut => Spent(record') < Ceiling
                         /\ run'.cut => Spent(record') + Cardinality(Racing') <= Ceiling + run'.limit - 1
  BY DEF SpendInv
<1>1. Spent(record) \in Nat /\ Spent(record') = Spent(record) /\ run.limit \in Nat /\ Ceiling \in Nat
  BY SpentStays, RunNumbers
<1>2. Busy' \subseteq Busy /\ Busy \subseteq Members /\ Racing \subseteq Members
  BY Crowd
<1>3. Cardinality(Busy') <= Cardinality(Busy) /\ Cardinality(Busy) \in Nat /\ Cardinality(Busy') \in Nat
  BY <1>2, SmallerCounts, FiniteCrowd
<1>4. ASSUME run.cut
      PROVE  Cardinality(Racing') <= Cardinality(Racing) /\ Cardinality(Racing) \in Nat
             /\ Cardinality(Racing') \in Nat
  BY <1>2, <1>4, SmallerCounts, FiniteCrowd
<1>5. QED
  BY <1>1, <1>3, <1>4 DEF SpendInv

\* Where a member's run is, after a step that sets it.
LEMMA OneMoves ==
  ASSUME IInv, NEW m \in Members, NEW w, w.pc \in {"idle", "over"} \/ InFlight(m),
         work' = [work EXCEPT ![m] = w], run.cut => (w.pc = "running" /\ w.why = "none" => m \in Racing)
  PROVE  Busy' \subseteq Busy /\ (run.cut => Racing' \subseteq Racing)
<1>1. work'[m] = w /\ \A n \in Members : n # m => work'[n] = work[n]
  BY DEF IInv, ShapeInv
<1>2. Busy' \subseteq Busy
  BY <1>1 DEF Busy, InFlight
<1>3. ASSUME run.cut, NEW n \in Racing' PROVE n \in Racing
  BY <1>1, <1>3 DEF Racing
<1>4. QED
  BY <1>2, <1>3

LEMMA WorkerSpends ==
  ASSUME IInv, IInv', StaffInv, SpendInv, NEW m \in Members,
         \/ WorktreeAdded(m) \/ WorktreeFails(m) \/ Spawned(m) \/ SpawnFails(m) \/ LeaveRace(m)
         \/ Capture(m) \/ Teardown(m) \/ Settle(m) \/ AgentEnds(m)
  PROVE  SpendInv'
<1>1. Same(record, record') /\ run' = run
  BY WorkerStays DEF Stays, Worker, WorktreeAdded, WorktreeFails, Spawned, SpawnFails, LeaveRace,
     Capture, Teardown, Settle, AgentEnds
<1>2. work[m] \in WorkRecords
  BY DEF IInv, ShapeInv
<1>3. \/ work' = work
      \/ \E w : /\ w.pc \in {"idle", "over"} \/ InFlight(m)
                /\ work' = [work EXCEPT ![m] = w]
                /\ run.cut => (w.pc = "running" /\ w.why = "none" => m \in Racing)
  <2>1. CASE WorktreeAdded(m)
    <3>1. PICK w : w = [work[m] EXCEPT !.pc = "spawning"]
      OBVIOUS
    <3>2. w.pc = "spawning" /\ InFlight(m) /\ work' = [work EXCEPT ![m] = w]
      BY <1>2, <2>1, <3>1 DEF WorktreeAdded, WorkRecords, InFlight
    <3>3. QED
      BY <3>2
  <2>2. CASE WorktreeFails(m) \/ Settle(m)
    BY <2>2 DEF WorktreeFails, Settle, Done
  <2>3. CASE Spawned(m)
    <3>1. PICK w : w = [pc |-> "running", why |-> IF Fired THEN "cancelled" ELSE "none"]
      OBVIOUS
    <3>2. InFlight(m) /\ work' = [work EXCEPT ![m] = w] /\ (run.cut => w.why = "cancelled")
      BY <2>3, <3>1 DEF Spawned, InFlight, Fired
    <3>3. QED
      BY <3>2
  <2>4. CASE SpawnFails(m) \/ LeaveRace(m)
    <3>1. PICK v : work' = [work EXCEPT ![m] = [pc |-> "capturing", why |-> v]]
      BY <2>4 DEF SpawnFails, LeaveRace
    <3>2. PICK w : w = [pc |-> "capturing", why |-> v]
      OBVIOUS
    <3>3. w.pc = "capturing" /\ InFlight(m) /\ work' = [work EXCEPT ![m] = w]
      BY <2>4, <3>1, <3>2 DEF SpawnFails, LeaveRace, InFlight
    <3>4. QED
      BY <3>3
  <2>5. CASE AgentEnds(m)
    <3>1. CASE work' = work
      BY <3>1
    <3>2. CASE work' # work
      <4>1. PICK v : work' = [work EXCEPT ![m] = [pc |-> "capturing", why |-> v]]
        BY <2>5, <3>2 DEF AgentEnds
      <4>2. PICK w : w = [pc |-> "capturing", why |-> v]
        OBVIOUS
      <4>3. w.pc = "capturing" /\ InFlight(m) /\ work' = [work EXCEPT ![m] = w]
        BY <2>5, <4>1, <4>2 DEF AgentEnds, InFlight
      <4>4. QED
        BY <4>3
    <3>3. QED
      BY <3>1, <3>2
  <2>6. CASE Capture(m)
    <3>1. PICK w : w = [work[m] EXCEPT !.pc = "removing"]
      OBVIOUS
    <3>2. w.pc = "removing" /\ InFlight(m) /\ work' = [work EXCEPT ![m] = w]
      BY <1>2, <2>6, <3>1 DEF Capture, WorkRecords, InFlight
    <3>3. QED
      BY <3>2
  <2>7. CASE Teardown(m)
    <3>1. PICK w : w = [work[m] EXCEPT !.pc = "removed"]
      OBVIOUS
    <3>2. w.pc = "removed" /\ InFlight(m) /\ work' = [work EXCEPT ![m] = w]
      BY <1>2, <2>7, <3>1 DEF Teardown, WorkRecords, InFlight
    <3>3. QED
      BY <3>2
  <2>8. QED
    BY <2>1, <2>2, <2>3, <2>4, <2>5, <2>6, <2>7
<1>4. Busy' \subseteq Busy /\ (run.cut => Racing' \subseteq Racing)
  BY <1>3, OneMoves DEF Busy, Racing, InFlight
<1>5. QED
  BY <1>1, <1>4, SpendStays

LEMMA TakeSpends ==
  ASSUME IInv, IInv', StaffInv, SpendInv, NEW m \in Members, Take(m), run.at = "running"
  PROVE  SpendInv'
<1>1. /\ Same(record, record') /\ run \in RunRecords /\ work \in [Members -> WorkRecords]
      /\ run' = [run EXCEPT !.next = @ + 1]
      /\ run.at = "running" /\ Cardinality(Busy) < run.limit
  BY WorkerStays DEF Stays, Worker, Take, Busy, IInv, ShapeInv
<1>2. run'.at = run.at /\ run'.cut = run.cut /\ run'.limit = run.limit
  BY <1>1 DEF RunRecords
<1>3. PICK w : work' = [work EXCEPT ![m] = w] /\ w.pc \in {"adding", "over"}
  <2>1. CASE run.cut
    <3>1. work' = [work EXCEPT ![m] = Done] /\ Done.pc = "over"
      BY <2>1 DEF Take, Done
    <3>2. QED
      BY <3>1
  <2>2. CASE ~run.cut
    <3>1. PICK w : w = [work[m] EXCEPT !.pc = "adding"]
      OBVIOUS
    <3>2. w.pc = "adding" /\ work' = [work EXCEPT ![m] = w]
      BY <1>1, <2>2, <3>1 DEF Take, WorkRecords
    <3>3. QED
      BY <3>2
  <2>3. QED
    BY <2>1, <2>2
<1>4. work'[m] = w /\ \A n \in Members : n # m => work'[n] = work[n]
  BY <1>1, <1>3
<1>5. Busy' \subseteq Busy \cup {m} /\ Racing' \subseteq Racing
  BY <1>3, <1>4 DEF Busy, Racing, InFlight
<1>6. Cardinality(Busy') <= Cardinality(Busy) + 1 /\ Cardinality(Busy') \in Nat
  <2>1. Busy \subseteq Members /\ Busy' \subseteq Members
    BY Crowd DEF Busy
  <2>2. QED
    BY <1>5, <2>1, OneMore, FiniteCrowd
<1>7. Cardinality(Racing') <= Cardinality(Racing) /\ Cardinality(Racing') \in Nat
  <2>1. Racing \subseteq Members /\ Racing' \subseteq Members
    BY DEF Racing
  <2>2. QED
    BY <1>5, <2>1, SmallerCounts, FiniteCrowd
<1>8. Spent(record) \in Nat /\ Spent(record') = Spent(record) /\ run.limit \in Nat /\ Ceiling \in Nat
  BY <1>1, SpentStays, RunNumbers
<1>9. Cardinality(Busy) \in Nat /\ Cardinality(Racing) \in Nat
  BY Crowd
<1>10. QED
  BY <1>1, <1>2, <1>6, <1>7, <1>8, <1>9 DEF SpendInv

\* The turn that reaches the ceiling loses the race itself, so that its worker is
\* not among those who may yet count one.
LEMMA TurnSpends ==
  ASSUME IInv, IInv', StaffInv, SpendInv, NEW m \in Members, Turn(m)
  PROVE  SpendInv'
<1>1. /\ work[m].pc = "running" /\ ~run.cut /\ plan' = plan /\ saved' = saved
      /\ run \in RunRecords /\ work \in [Members -> WorkRecords]
  BY DEF Turn, Fired, Counted, Keep, IInv, ShapeInv
<1>2. PICK price \in Prices : Counted(m, price)
  BY DEF Turn
<1>3. record' = WithTurn(m, price) /\ price \in {0, 1}
  BY <1>2, NumbersAssumption DEF Counted, Keep
<1>4. Spent(record) \in Nat /\ Spent(record') = Spent(record) + price
  BY <1>1, <1>3, TurnStaff
<1>5. run.limit \in Nat /\ Ceiling \in Nat /\ m \in Busy
  BY <1>1, RunNumbers DEF Busy, InFlight
<1>6. CASE AtCeiling(record', m)
  <2>1. run' = [run EXCEPT !.cut = TRUE] /\ work' = [work EXCEPT ![m].why = "cancelled"]
    BY <1>2, <1>3, <1>6 DEF Counted
  <2>2. run'.at = run.at /\ run'.cut = TRUE /\ run'.limit = run.limit
    BY <1>1, <2>1 DEF RunRecords
  <2>3. /\ work'[m].why = "cancelled" /\ work'[m].pc = work[m].pc
        /\ \A n \in Members : n # m => work'[n] = work[n]
    BY <1>1, <2>1 DEF WorkRecords
  <2>4. Busy' \subseteq Busy /\ Racing' \subseteq Busy \ {m}
    BY <2>3 DEF Busy, Racing, InFlight
  <2>5. /\ Cardinality(Busy') <= Cardinality(Busy) /\ Cardinality(Racing') <= Cardinality(Busy) - 1
        /\ Cardinality(Busy) \in Nat /\ Cardinality(Busy') \in Nat /\ Cardinality(Racing') \in Nat
    <3>1. Busy \subseteq Members /\ Busy' \subseteq Members /\ Racing' \subseteq Members
      BY DEF Busy, Racing
    <3>2. QED
      BY <1>5, <2>4, <3>1, SmallerCounts, OneLess, FiniteCrowd
  <2>6. QED
    BY <1>1, <1>3, <1>4, <1>5, <2>2, <2>5 DEF SpendInv
<1>7. CASE ~AtCeiling(record', m)
  <2>1. run' = run /\ work' = work
    BY <1>2, <1>3, <1>7 DEF Counted
  <2>2. Ceiling > 0 => Spent(record') < Ceiling
    BY <1>3, <1>4, <1>5, <1>7 DEF AtCeiling
  <2>3. Busy' = Busy
    BY <2>1 DEF Busy, InFlight
  <2>4. QED
    BY <1>1, <2>1, <2>2, <2>3 DEF SpendInv
<1>8. QED
  BY <1>6, <1>7

LEMMA LastTurnSpends ==
  ASSUME IInv, IInv', StaffInv, SpendInv, NEW m \in Members, LastTurn(m), run.at = "running"
  PROVE  SpendInv'
<1>1. /\ work[m].pc = "running" /\ work[m].why = "none" /\ run.cut /\ plan' = plan /\ saved' = saved
      /\ run' = run \/ run' = [run EXCEPT !.cut = TRUE]
      /\ work' = [work EXCEPT ![m].why = "cancelled"]
      /\ work \in [Members -> WorkRecords] /\ run \in RunRecords
  BY DEF LastTurn, Fired, Failing, CutOff, Keep, IInv, ShapeInv
<1>2. PICK price \in Prices : record' = WithTurn(m, price)
  BY DEF LastTurn, Keep
<1>3. Spent(record) \in Nat /\ Spent(record') = Spent(record) + price /\ price \in {0, 1}
  BY <1>1, <1>2, TurnStaff, NumbersAssumption
<1>4. /\ work'[m].why = "cancelled" /\ work'[m].pc = work[m].pc
      /\ \A n \in Members : n # m => work'[n] = work[n]
  BY <1>1 DEF WorkRecords
<1>5. Busy' \subseteq Busy /\ Racing' \subseteq Racing \ {m} /\ m \in Racing
  BY <1>1, <1>4 DEF Busy, Racing, InFlight
<1>6. /\ Cardinality(Busy') <= Cardinality(Busy) /\ Cardinality(Racing') <= Cardinality(Racing) - 1
      /\ Cardinality(Busy) \in Nat /\ Cardinality(Busy') \in Nat
      /\ Cardinality(Racing) \in Nat /\ Cardinality(Racing') \in Nat
  <2>1. Busy \subseteq Members /\ Busy' \subseteq Members /\ Racing \subseteq Members /\ Racing' \subseteq Members
    BY DEF Busy, Racing
  <2>2. QED
    BY <1>5, <2>1, SmallerCounts, OneLess, FiniteCrowd
<1>7. run.limit \in Nat /\ Ceiling \in Nat
  BY RunNumbers
<1>8. run'.at = "running" /\ run'.cut = TRUE /\ run'.limit = run.limit /\ run.cut = TRUE
  BY <1>1 DEF RunRecords
<1>9. QED
  BY <1>3, <1>6, <1>7, <1>8 DEF SpendInv

\* The cutoff comes while less than the ceiling is spent.
LEMMA CutOffSpends ==
  ASSUME IInv, IInv', StaffInv, SpendInv, CutOff, UNCHANGED <<record, saved, work>>
  PROVE  SpendInv'
<1>1. run \in RunRecords /\ run' = [run EXCEPT !.cut = TRUE] /\ Same(record, record')
  BY SameSelf DEF IInv, ShapeInv, CutOff
<1>2. run'.at = run.at /\ run'.cut = TRUE /\ run'.limit = run.limit
  BY <1>1 DEF RunRecords
<1>3. Spent(record) \in Nat /\ Spent(record') = Spent(record) /\ run.limit \in Nat /\ Ceiling \in Nat
  BY <1>1, SpentStays, RunNumbers
<1>4. Busy' = Busy /\ Racing' = Racing
  BY DEF Busy, Racing, InFlight
<1>5. /\ Cardinality(Busy) \in Nat /\ Cardinality(Racing) \in Nat
      /\ Cardinality(Racing) <= Cardinality(Busy)
  BY Crowd
<1>6. CASE run.cut
  BY <1>2, <1>3, <1>4, <1>6 DEF SpendInv
<1>7. CASE ~run.cut
  BY <1>2, <1>3, <1>4, <1>5, <1>7 DEF SpendInv
<1>8. QED
  BY <1>6, <1>7, <1>1 DEF RunRecords

\* A team begins with nothing spent and nobody at work.
LEMMA DispatchSpends ==
  ASSUME IInv, IInv', run.at = "planning", work' = work, NEW ms, NEW n \in Nat, DOMAIN ms = 1..n,
         NEW limit \in Limits, Dispatch(ms, limit), plan' \in Plans, Apart(ms, plan')
  PROVE  SpendInv'
<1>1. Priced(record', n) /\ \A m \in 1..n : record'.members[m].cost = 0
  BY StaffDispatch
<1>2. Spent(record') = 0
  BY <1>1, NothingSpent
<1>3. limit \in Nat /\ limit >= 1 /\ Ceiling \in Nat
  BY NumbersAssumption
<1>4. run'.limit = limit
  BY DEF Dispatch, IInv, ShapeInv, RunRecords
<1>5. Busy' = {} /\ Racing' = {}
  BY DEF IInv, RunInv, Busy, Racing, InFlight
<1>6. Cardinality({}) = 0
  BY FS_EmptySet
<1>7. QED
  BY <1>2, <1>3, <1>4, <1>5, <1>6 DEF SpendInv

LEMMA SpendStep ==
  ASSUME IInv, IInv', StaffInv, SpendInv, [Next]_vars
  PROVE  SpendInv'
<1>1. CASE Start
  BY <1>1 DEF Start, NoRun, SpendInv
<1>2. CASE PlanFails \/ \E p \in Plans : PlanArrives(p)
  <2>1. /\ run.at = "planning" /\ work' = work
        /\ \/ run'.at \in {"no", "planning"}
           \/ \E ms : \E n \in Nat :
                /\ DOMAIN ms = 1..n /\ plan' \in Plans /\ Apart(ms, plan')
                /\ \E limit \in Limits : Dispatch(ms, limit)
    BY <1>2, PlanEffect
  <2>2. CASE run'.at \in {"no", "planning"}
    BY <2>2 DEF SpendInv
  <2>3. CASE \E ms : \E n \in Nat :
               /\ DOMAIN ms = 1..n /\ plan' \in Plans /\ Apart(ms, plan')
               /\ \E limit \in Limits : Dispatch(ms, limit)
    BY <2>1, <2>3, DispatchSpends
  <2>4. QED
    BY <2>1, <2>2, <2>3
<1>3. ASSUME NEW m \in Members, Worker(m) \/ Turn(m) \/ LastTurn(m) \/ AgentEnds(m) PROVE SpendInv'
  <2>1. CASE CaptureThrows(m) \/ ((Take(m) \/ LastTurn(m)) /\ run.at # "running")
    <3>1. run \in RunRecords
      BY DEF IInv, ShapeInv
    <3>2. run'.at # "running"
      BY <2>1, <3>1 DEF CaptureThrows, Take, LastTurn, CutOff, RunRecords
    <3>3. QED
      BY <3>2 DEF SpendInv
  <2>2. QED
    BY <1>3, <2>1, TakeSpends, WorkerSpends, TurnSpends, LastTurnSpends DEF Worker
<1>4. CASE \/ Recover \/ RecoveryCaptures \/ RecoveryThrows \/ RecoveryRemoves \/ RecoveryEnds
           \/ Merge \/ Discard \/ UNCHANGED vars
  <2>1. run' = run /\ work' = work
    BY <1>4 DEF Recover, RecoveryCaptures, RecoveryThrows, RecoveryRemoves, RecoveryEnds, Merge, Discard,
                vars
  <2>2. Same(record, record')
    BY <1>4, OtherStays DEF Stays
  <2>3. Busy' = Busy /\ Racing' = Racing
    BY <2>1 DEF Busy, Racing, InFlight
  <2>4. QED
    BY <2>1, <2>2, <2>3, SpendStays
<1>5. ASSUME NEW k \in DOMAIN calls,
             \/ MergeBegins(k) \/ MergeRejects(k) \/ GitApplies(k) \/ MergeContinues(k)
             \/ DiscardRemoves(k) \/ DiscardEnds(k)
      PROVE  SpendInv'
  <2>1. run' = run /\ work' = work
    BY <1>5 DEF MergeBegins, MergeRejects, GitApplies, MergeContinues, DiscardRemoves, DiscardEnds
  <2>2. Same(record, record')
    BY <1>5, CallStays DEF Stays
  <2>3. Busy' = Busy /\ Racing' = Racing
    BY <2>1 DEF Busy, Racing, InFlight
  <2>4. QED
    BY <2>1, <2>2, <2>3, SpendStays
<1>6. CASE Cleanup \/ Conclude \/ StartRejects \/ Crash
  <2>1. run'.at # "running"
    BY <1>6 DEF Cleanup, Conclude, StartRejects, Crash, NoRun, IInv, ShapeInv, RunRecords
  <2>2. QED
    BY <2>1 DEF SpendInv
<1>7. CASE Restart
  BY <1>7 DEF Restart, IInv, OwnerInv, NoRun, SpendInv
<1>8. CASE Cancel
  <2>1. CASE CutOff /\ UNCHANGED <<record, saved>>
    BY <1>8, <2>1, CutOffSpends DEF Cancel
  <2>2. CASE run.at \in {"planning", "rejected"} /\ UNCHANGED run
    BY <2>2 DEF SpendInv
  <2>3. QED
    BY <1>8, <2>1, <2>2 DEF Cancel
<1>9. CASE Interrupt
  <2>1. CASE CutOff
    BY <1>9, <2>1, CutOffSpends DEF Interrupt
  <2>2. CASE run.at = "planning" /\ run' = [run EXCEPT !.signal = TRUE]
    BY <2>2 DEF SpendInv, IInv, ShapeInv, RunRecords
  <2>3. QED
    BY <1>9, <2>1, <2>2 DEF Interrupt
<1>10. QED
  BY <1>1, <1>2, <1>3, <1>4, <1>5, <1>6, <1>7, <1>8, <1>9 DEF Next

\* The ceiling holds the whole team: what its members have spent together is beyond
\* it by no more than the turn each other worker was in, however many members
\* there are and whenever they are cut off (#runMember's turnEnd and cutoff).
THEOREM CeilingHolds == Spec => []OvershootBounded
<1>1. Init => SpendInv
  BY DEF Init, NoRun, SpendInv
<1>2. IInv /\ IInv' /\ StaffInv /\ SpendInv /\ [Next]_vars => SpendInv'
  BY SpendStep
<1>3. IInv /\ StaffInv /\ SpendInv => OvershootBounded
  <2> SUFFICES ASSUME IInv, StaffInv, SpendInv, Ceiling > 0, run.at = "running"
               PROVE  Spent(record) <= Ceiling + run.limit - 1
    BY DEF OvershootBounded
  <2>1. PICK n \in Nat : Priced(record, n)
    BY DEF StaffInv, Copies
  <2>2. Spent(record) \in Nat /\ run.limit \in Nat /\ Ceiling \in Nat /\ Cardinality(Racing) \in Nat
    BY <2>1, SpentSums, RunNumbers, Crowd
  <2>3. CASE run.cut
    BY <2>2, <2>3 DEF SpendInv
  <2>4. CASE ~run.cut
    <3>1. run.limit >= 1
      BY DEF SpendInv
    <3>2. QED
      BY <2>2, <2>4, <3>1 DEF SpendInv
  <2>5. QED
    BY <2>3, <2>4
<1>4. QED
  BY <1>1, <1>2, <1>3, Invariance, Staffed, PTL DEF Spec

=============================================================================
