---------------------------- MODULE WorkflowRun ----------------------------
(***************************************************************************)
(* One workflow run of the CLI and its journal: the stage loop of          *)
(* runWorkflow, the retry loop and the deadline around a step, the write   *)
(* lane that applies a role's patch to the user's checkout, and the fold   *)
(* and the verdicts with which a later process resumes the run             *)
(* (packages/cli/src/workflow.ts, workflow-run.ts).                        *)
(*                                                                         *)
(* Every stage has one step and every step is a role on the write lane:    *)
(* that is where a step does something that cannot be undone.  The journal *)
(* is kept as what its lines fold to, twice: "read" is the fold of every   *)
(* line in the file, "safe" the fold of the lines flushed to disk.  A      *)
(* durable append flushes everything before it; a power cut leaves "safe". *)
(* Nothing repairs the file: a line appended after one that was cut short  *)
(* is run into it, and a reader drops the two.                             *)
(*                                                                         *)
(* Left out: parallel stages, races, judges, the read and exec lanes, the  *)
(* money ceilings with their own park, the run header, and what the        *)
(* prompts say.  The step deadline is a fault of its own ("deadline"):     *)
(* without it the fairness of an agent's work stands for it.               *)
(***************************************************************************)
EXTENDS Integers, FiniteSets

CONSTANTS NumSteps,     \* stages of the workflow, one step each
          MaxRetries,   \* the workflow's maxStepRetries
          MaxRuns,      \* bound: processes that run or resume this run
          MaxFailures,  \* bound: journal writes that fail
          Faults        \* what may go wrong

ASSUME WorkflowAssumption ==
  /\ NumSteps \in Nat \ {0}
  /\ MaxRetries \in Nat
  /\ MaxRuns \in Nat \ {0}
  /\ MaxFailures \in Nat
  /\ Faults \subseteq {"crash", "journal", "cancel", "deadline", "contract", "edit", "moved"}

Steps == 1 .. NumSteps

VARIABLES read,      \* fold of the journal file
          safe,      \* fold of its flushed part
          torn,      \* the file's last line has no newline
          stem,      \* fold of the file without that line
          swallowed, \* steps that lost a readable or acknowledged line to a torn one
          failures,  \* journal writes that failed so far
          run,       \* the engine of the process that has the run
          from,      \* what that process folded when it resumed
          result,    \* the result of the current step, once it has one
          agents,    \* "now": the runner awaited; "past": one abandoned at its deadline
          landed,    \* per step, patches of it in the user's checkout
          runs,      \* processes so far
          committed  \* steps whose "done" the engine was told is on disk

journalVars == <<read, safe, torn, stem, swallowed, failures>>
vars == <<read, safe, torn, stem, swallowed, failures, run, from, result, agents, landed, runs,
          committed>>

-----------------------------------------------------------------------------
(* The journal: one line at a time, as buildResumeState folds it. *)

Unseen == [last |-> "none", applied |-> FALSE, open |-> "none", effect |-> "none"]
NoJournal == [step |-> [s \in Steps |-> Unseen], ask |-> 0, ended |-> "none"]

Started(v, s) ==
  [v EXCEPT !.step[s] = [Unseen EXCEPT !.open = "unknown"]]

Intended(v, s, act) ==
  [v EXCEPT !.step[s].open = act, !.step[s].effect = "none"]

\* An effect that finds its step closed is dropped.
Effected(v, s, ok) ==
  IF v.step[s].open = "none" THEN v
  ELSE [v EXCEPT !.step[s].effect = IF ok THEN "yes" ELSE "no"]

Terminal(v, s, status, applied) ==
  [v EXCEPT !.step[s] = [last |-> status, applied |-> applied, open |-> "none", effect |-> "none"],
            !.ask = IF @ = s THEN 0 ELSE @]

Asked(v, s) == [v EXCEPT !.ask = s]
Abandoned(v) == [v EXCEPT !.ask = 0]
Ended(v, status) == [v EXCEPT !.ended = status]

\* The steps v says anything else of than the file without its torn line.
Lost(v) ==
  {s \in Steps : v.step[s] # stem.step[s] \/ (v.ask # stem.ask /\ s \in {v.ask, stem.ask})}

\* The line that makes the fold v ends up in the file: after a torn one both are lost.
Whole(v) ==
  /\ read' = IF torn THEN stem ELSE v
  /\ stem' = read' /\ torn' = FALSE

\* Part of its bytes do, or all but the newline.
Part(v) ==
  /\ read' \in {stem, IF torn THEN stem ELSE v}
  /\ torn' = TRUE /\ UNCHANGED stem

Swallows(v) == swallowed' = swallowed \cup (IF torn THEN Lost(v) ELSE {})

\* A write that throws, and what it leaves behind.
Breaks(v) ==
  /\ "journal" \in Faults /\ failures < MaxFailures
  /\ failures' = failures + 1
  /\ \/ UNCHANGED <<read, torn, stem, swallowed>>
     \/ Swallows(read) /\ (Whole(v) \/ Part(v))

\* appendDurable: the line and everything before it are on disk ...
Flush(v) == Whole(v) /\ Swallows(v) /\ safe' = read' /\ UNCHANGED failures

\* ... or the caller is told it failed.
FlushFails(v) == Breaks(v) /\ UNCHANGED safe

\* append: best effort, never flushed by itself; a failure is swallowed.
Note(v) ==
  /\ UNCHANGED safe
  /\ \/ Whole(v) /\ Swallows(read) /\ UNCHANGED failures
     \/ Breaks(v)

-----------------------------------------------------------------------------
(* What a resume concludes about a step from its folded lines. *)

Completed(e) == e.last = "done" \/ e.applied
Interrupted(e) == e.open # "none" /\ ~Completed(e)

\* Mutant: a probe that cannot tell is read as "it did not land".
RerunUnlessPresent(e, presence) ==
  CASE e.open = "guarded" -> "rerun"
    [] e.open = "apply" /\ e.effect = "no" -> "rerun"
    [] e.open = "apply" /\ e.effect = "none" /\ presence # "applied" -> "rerun"
    [] OTHER -> "recover"

\* decideInterruptedStep: a re-run needs positive evidence that nothing landed.
Verdict(e, presence) ==
  CASE e.open = "guarded" -> "rerun"
    [] e.open = "apply" /\ e.effect = "no" -> "rerun"
    [] e.open = "apply" /\ e.effect = "none" /\ presence = "not-applied" -> "rerun"
    [] OTHER -> "recover"

\* createPatchVerifier: what git says of the patch; nothing once the tree moved on.
Presence(s) ==
  {IF landed[s] > 0 THEN "applied" ELSE "not-applied"}
    \cup (IF "moved" \in Faults THEN {"indeterminate"} ELSE {})

-----------------------------------------------------------------------------
(* The write lane: one agent in its worktree, then its patch. *)

Idle == [pc |-> "idle", step |-> 1, aborted |-> FALSE, out |-> "none", applied |-> FALSE]
Fresh(s) == [Idle EXCEPT !.pc = "guard", !.step = s]

Tell(k, out, applied) ==
  agents' = [agents EXCEPT ![k].pc = "told", ![k].out = out, ![k].applied = applied]
Move(k, pc) == agents' = [agents EXCEPT ![k].pc = pc]

\* declareGuarded: a failure to record it is swallowed.
DeclareGuarded(k) ==
  LET v == Intended(read, agents[k].step, "guarded") IN
  /\ agents[k].pc = "guard"
  /\ Flush(v) \/ FlushFails(v)
  /\ Move(k, "work")
  /\ UNCHANGED <<run, from, result, landed, runs, committed>>

\* The agent ends: with a diff to apply, with an empty one, with nothing at all,
\* or with a failure, which a cancelled agent reports as its cancellation.
Works(k) ==
  /\ agents[k].pc = "work"
  /\ \/ Move(k, "captured")
     \/ ~agents[k].aborted /\ \E out \in {"ok", "transient", "fresh"} : Tell(k, out, FALSE)
     \/ Tell(k, "fatal", FALSE)
  /\ UNCHANGED <<journalVars, run, from, result, landed, runs, committed>>

\* The last look at the signal: a cancelled role's patch is kept and not applied.
CutShort(k) ==
  /\ agents[k].pc = "captured" /\ agents[k].aborted
  /\ Tell(k, "fatal", FALSE)
  /\ UNCHANGED <<journalVars, run, from, result, landed, runs, committed>>

\* Mutant: the intent is written like any other line, not flushed.
AnnounceUnflushed(k) ==
  /\ agents[k].pc = "captured" /\ ~agents[k].aborted
  /\ Note(Intended(read, agents[k].step, "apply"))
  /\ Move(k, "cleared")
  /\ UNCHANGED <<run, from, result, landed, runs, committed>>

\* Write ahead: what cannot be recorded is not applied.
Announce(k) ==
  LET v == Intended(read, agents[k].step, "apply") IN
  /\ agents[k].pc = "captured" /\ ~agents[k].aborted
  /\ \/ Flush(v) /\ Move(k, "cleared")
     \/ FlushFails(v) /\ Tell(k, "fatal", FALSE)
  /\ UNCHANGED <<run, from, result, landed, runs, committed>>

\* git apply, which lands the patch or refuses it whole.
Apply(k) ==
  /\ agents[k].pc = "cleared"
  /\ \/ Move(k, "landed") /\ landed' = [landed EXCEPT ![agents[k].step] = @ + 1]
     \/ Move(k, "refused") /\ UNCHANGED landed
  /\ UNCHANGED <<journalVars, run, from, result, runs, committed>>

\* The outcome goes on record; should that fail, the step fails with a record that
\* keeps the truth about the checkout.
SettleApply(k) ==
  LET ok == agents[k].pc = "landed"
      v == Effected(read, agents[k].step, ok)
  IN /\ agents[k].pc \in {"landed", "refused"}
     /\ \/ Flush(v) /\ Tell(k, IF ok THEN "ok" ELSE "fatal", ok)
        \/ FlushFails(v) /\ Tell(k, "fatal", ok)
     /\ UNCHANGED <<run, from, result, landed, runs, committed>>

\* An abandoned runner's outcome reaches nobody.
Forgotten ==
  /\ agents["past"].pc = "told"
  /\ agents' = [agents EXCEPT !["past"] = Idle]
  /\ UNCHANGED <<journalVars, run, from, result, landed, runs, committed>>

AgentStep(k) ==
  \/ DeclareGuarded(k) \/ Works(k) \/ CutShort(k)
  \/ Announce(k) \/ Apply(k) \/ SettleApply(k)

-----------------------------------------------------------------------------
(* The engine: one stage after the other. *)

\* The lines of a stage's start, or of its end, say nothing that is folded.
StageLines ==
  /\ run.pc \in {"enter", "close"}
  /\ Note(read)
  /\ run' = [run EXCEPT !.pc = IF @ = "enter" THEN "step" ELSE "end"]
  /\ UNCHANGED <<from, result, agents, landed, runs, committed>>

Statuses == {"done", "failed", "cancelled", "paused"}
NoResult == [status |-> "none", applied |-> FALSE, parks |-> FALSE]
Result(status, applied) == [status |-> status, applied |-> applied, parks |-> TRUE]
Unparkable(applied) == [status |-> "failed", applied |-> applied, parks |-> FALSE]
FailedOrCancelled == IF run.aborted THEN "cancelled" ELSE "failed"

\* The step has its result; "commit" when its terminal is still to be written.
Give(pc, r) == result' = r /\ run' = [run EXCEPT !.pc = pc]

\* The workflow file changed, and with it maybe the prompt recorded for this step.
RefuseStale(s) ==
  /\ run.pc = "step" /\ run.step = s /\ run.edited
  /\ from[s].last = "paused" \/ Completed(from[s]) \/ Interrupted(from[s])
  /\ Give("stage", Unparkable(FALSE))
  /\ UNCHANGED <<journalVars, from, agents, landed, runs, committed>>

\* A paused step takes the human's answer as its output and keeps its record.
Answer(s) ==
  /\ run.pc = "step" /\ run.step = s
  /\ from[s].last = "paused"
  /\ Give("commit", Result("done", from[s].applied))
  /\ UNCHANGED <<journalVars, from, agents, landed, runs, committed>>

\* A completed step is spliced in as recorded.
Splice(s) ==
  /\ run.pc = "step" /\ run.step = s
  /\ from[s].last # "paused" /\ Completed(from[s])
  /\ Give("stage", Result(from[s].last, from[s].applied))
  /\ UNCHANGED <<journalVars, from, agents, landed, runs, committed>>

\* Mutant: an announced apply is taken for one that landed.
AnnouncedIsApplied(e) == e.open = "apply"
\* The recovered result carries a patch record only if an effect recorded one.
RecoveredApplied(e) == e.effect = "yes"

\* An interrupted step that may have acted is settled without running it.
Recover(s) ==
  /\ run.pc = "step" /\ run.step = s
  /\ from[s].last # "paused" /\ Interrupted(from[s])
  /\ \E p \in Presence(s) : Verdict(from[s], p) = "recover"
  /\ Give("commit", Result("done", RecoveredApplied(from[s])))
  /\ UNCHANGED <<journalVars, from, agents, landed, runs, committed>>

Runnable(s) ==
  /\ run.pc = "step" /\ run.step = s
  /\ from[s].last # "paused" /\ ~Completed(from[s])
  /\ Interrupted(from[s]) => \E p \in Presence(s) : Verdict(from[s], p) = "rerun"

Launch(s) ==
  /\ Runnable(s) /\ ~run.aborted
  /\ Note(Started(read, s))
  /\ agents' = [agents EXCEPT !["now"] = Fresh(s)]
  /\ run' = [run EXCEPT !.pc = "wait"]
  /\ UNCHANGED <<from, result, landed, runs, committed>>

NotLaunched(s) ==
  /\ Runnable(s) /\ run.aborted
  /\ Give("stage", Result("cancelled", FALSE))
  /\ UNCHANGED <<journalVars, from, agents, landed, runs, committed>>

\* Mutant: every attempt is the first.
TriesForgotten == run.tries
TriesCounted == run.tries + 1

\* Mutant: an attempt that came to nothing is tried again whenever it happens.
RetriableAlways(out) ==
  /\ ~run.aborted
  /\ (out = "transient" /\ run.tries < MaxRetries) \/ out = "fresh"

\* Another attempt: a transient failure while retries are left, an attempt that
\* came to nothing once, a reply that misses its contract once, patch or no patch.
Retriable(out) ==
  /\ ~run.aborted
  /\ \/ out = "transient" /\ run.tries < MaxRetries
     \/ out = "fresh" /\ ~run.refreshed

Again(r) ==
  /\ run.pc = "wait" /\ agents["now"].pc = "told" /\ ~run.aborted
  /\ run' = [r EXCEPT !.tries = TriesCounted]
  /\ agents' = [agents EXCEPT !["now"] = Fresh(run.step)]
  /\ UNCHANGED <<journalVars, from, result, landed, runs, committed>>

Retry ==
  LET out == agents["now"].out IN
  /\ Retriable(out)
  /\ Again([run EXCEPT !.refreshed = @ \/ out = "fresh"])

RetryContract ==
  /\ "contract" \in Faults
  /\ agents["now"].out = "ok" /\ ~run.recontracted
  /\ Again([run EXCEPT !.recontracted = TRUE])

\* The attempt stands: a report, a question for the human, a halt, or a failure.
Returned ==
  LET a == agents["now"] IN
  /\ run.pc = "wait" /\ a.pc = "told"
  /\ ~Retriable(a.out)
  /\ \/ a.out = "ok" /\ \E status \in {"done", "paused"} : Give("commit", Result(status, a.applied))
     \/ a.out = "ok" /\ Give("commit", Unparkable(a.applied))
     \/ a.out = "ok" /\ run.recontracted /\ ~run.aborted /\ Give("commit", Result("failed", a.applied))
     \/ a.out # "ok" /\ Give("commit", Result(FailedOrCancelled, a.applied))
  /\ agents' = [agents EXCEPT !["now"] = Idle]
  /\ UNCHANGED <<journalVars, from, landed, runs, committed>>

\* runStepWithDeadline gives up on the runner, which goes on with its signal aborted.
TimesOut ==
  /\ "deadline" \in Faults
  /\ run.pc = "wait" /\ agents["now"].pc # "told" /\ agents["past"].pc = "idle"
  /\ agents' = [agents EXCEPT !["now"] = Idle, !["past"] = [agents["now"] EXCEPT !.aborted = TRUE]]
  /\ Give("commit", Result(FailedOrCancelled, FALSE))
  /\ UNCHANGED <<journalVars, from, landed, runs, committed>>

\* commitStepEnd: a journal that worked and now fails stops the run.
Commit ==
  LET v == Terminal(read, run.step, result.status, result.applied) IN
  /\ run.pc = "commit"
  /\ \/ /\ Flush(v) /\ run' = [run EXCEPT !.pc = "stage", !.established = TRUE]
        /\ committed' = committed \cup (IF result.status = "done" THEN {run.step} ELSE {})
     \/ /\ FlushFails(v) /\ run' = [run EXCEPT !.pc = "stage", !.faulty = run.established]
        /\ UNCHANGED committed
  /\ UNCHANGED <<from, result, agents, landed, runs>>

\* The run has its status; the lines about it are still to be written.
Finish(status) ==
  /\ run' = [run EXCEPT !.pc = "close", !.ended = status]
  /\ result' = NoResult

\* finish: the run's last line, best effort.
LastLine ==
  /\ run.pc = "end"
  /\ Note(Ended(read, run.ended))
  /\ run' = [run EXCEPT !.pc = "off"]
  /\ UNCHANGED <<from, result, agents, landed, runs, committed>>

\* The end of a stage: what landed seeds the later worktrees, then on, park or stop.
StageEnd ==
  LET failed == result.status = "failed" \/ run.faulty
      parks == result.status = "failed" /\ result.parks /\ ~run.faulty
      seeds == run.seeds \cup (IF result.applied THEN {run.step} ELSE {})
      cancelled == result.status = "cancelled" \/ run.aborted
  IN /\ run.pc = "stage"
     /\ \/ /\ cancelled
           /\ Finish("cancelled")
        \/ /\ ~cancelled /\ parks
           /\ run' = [run EXCEPT !.pc = "ask"]
           /\ UNCHANGED result
        \/ /\ ~cancelled /\ failed /\ ~parks
           /\ Finish("failed")
        \/ /\ ~cancelled /\ ~failed /\ result.status = "paused"
           /\ Finish("paused")
        \/ /\ ~cancelled /\ ~failed /\ result.status = "done" /\ run.step = NumSteps
           /\ Finish("done")
        \/ /\ ~cancelled /\ ~failed /\ result.status = "done" /\ run.step < NumSteps
           /\ run' = [run EXCEPT !.pc = "enter", !.step = @ + 1, !.seeds = seeds,
                                 !.tries = 0, !.recontracted = FALSE, !.refreshed = FALSE]
           /\ result' = NoResult
     /\ UNCHANGED <<journalVars, from, agents, landed, runs, committed>>

\* The park exists only if its question is on disk.
Park ==
  LET v == Asked(read, run.step) IN
  /\ run.pc = "ask"
  /\ \/ Flush(v) /\ Finish(IF run.aborted THEN "cancelled" ELSE "paused")
     \/ FlushFails(v) /\ Finish(FailedOrCancelled)
  /\ UNCHANGED <<from, agents, landed, runs, committed>>

EngineStep ==
  \/ \E s \in Steps : \/ RefuseStale(s) \/ Answer(s) \/ Splice(s) \/ Recover(s)
                      \/ Launch(s) \/ NotLaunched(s)
  \/ Retry \/ RetryContract \/ Returned \/ TimesOut
  \/ Commit \/ StageEnd \/ Park \/ StageLines \/ LastLine

-----------------------------------------------------------------------------
(* The user and the machine. *)

Cancel ==
  /\ "cancel" \in Faults
  /\ run.pc # "off" /\ ~run.aborted
  /\ run' = [run EXCEPT !.aborted = TRUE]
  /\ agents' = [agents EXCEPT !["now"].aborted = agents["now"].pc # "idle"]
  /\ UNCHANGED <<journalVars, from, result, landed, runs, committed>>

\* The process dies; with the machine, so do the lines that were not flushed.  A line
\* being written stays torn.
Crash ==
  /\ "crash" \in Faults
  /\ run.pc # "off"
  /\ run' = [run EXCEPT !.pc = "off", !.ended = "crashed"]
  /\ \/ UNCHANGED <<read, stem>> /\ (UNCHANGED torn \/ torn' = TRUE)
     \/ torn' \in BOOLEAN /\ read' = safe /\ stem' = safe
  /\ result' = NoResult
  /\ agents' = [k \in {"now", "past"} |-> Idle]
  /\ UNCHANGED <<safe, swallowed, failures, from, landed, runs, committed>>

Engine(edited, gesture) ==
  [pc |-> "enter", step |-> 1, tries |-> 0, recontracted |-> FALSE, refreshed |-> FALSE,
   aborted |-> FALSE, seeds |-> {}, established |-> FALSE, faulty |-> FALSE, edited |-> edited,
   gesture |-> gesture, ended |-> "none"]

\* Mutant: a run counts as parked only if its last line says so.
ParkedByLastLine(v) == v.ask # 0 /\ v.ended = "paused"
Parked(v) == v.ask # 0

Resumable ==
  /\ run.pc = "off" /\ runs < MaxRuns
  /\ read # NoJournal
  /\ read.ended \in {"none", "paused"}

\* /workflow resume: a parked run needs the word "retry", a paused one its answer.
Resume ==
  /\ Resumable
  /\ \E edited \in {e \in BOOLEAN : e => "edit" \in Faults} :
       run' = Engine(edited, IF Parked(read) THEN "retry" ELSE "none")
  /\ from' = read.step
  /\ runs' = runs + 1
  /\ UNCHANGED <<journalVars, result, agents, landed, committed>>

\* ... or "abandon", which ends the run as failed.
Abandon ==
  LET v == Abandoned(read) IN
  /\ Resumable /\ Parked(read)
  /\ Flush(v) \/ FlushFails(v)
  /\ run' = [Engine(FALSE, "abandon") EXCEPT !.pc = "end", !.ended = "failed"]
  /\ from' = read.step
  /\ runs' = runs + 1
  /\ UNCHANGED <<result, agents, landed, committed>>

Init ==
  /\ read = NoJournal /\ safe = NoJournal /\ stem = NoJournal
  /\ torn = FALSE /\ swallowed = {} /\ failures = 0
  /\ run = Engine(FALSE, "none")
  /\ from = NoJournal.step
  /\ result = NoResult
  /\ agents = [k \in {"now", "past"} |-> Idle]
  /\ landed = [s \in Steps |-> 0]
  /\ runs = 1
  /\ committed = {}

Next ==
  \/ \E k \in {"now", "past"} : AgentStep(k)
  \/ Forgotten
  \/ EngineStep
  \/ Cancel \/ Crash \/ Resume \/ Abandon

Spec == Init /\ [][Next]_vars
FairSpec == Spec /\ WF_vars(EngineStep) /\ WF_vars(AgentStep("now"))

-----------------------------------------------------------------------------
StepViews ==
  [last : Statuses \cup {"none"}, applied : BOOLEAN,
   open : {"none", "unknown", "guarded", "apply"}, effect : {"none", "yes", "no"}]
Views == [step : [Steps -> StepViews], ask : 0 .. NumSteps, ended : Statuses \cup {"none"}]

EngineStates ==
  [pc : {"enter", "step", "wait", "commit", "stage", "ask", "close", "end", "off"}, step : Steps, tries : 0 .. MaxRetries + 2,
   recontracted : BOOLEAN, refreshed : BOOLEAN, aborted : BOOLEAN, seeds : SUBSET Steps,
   established : BOOLEAN, faulty : BOOLEAN, edited : BOOLEAN,
   gesture : {"none", "retry", "abandon"}, ended : Statuses \cup {"none", "crashed"}]
AgentStates ==
  [pc : {"idle", "guard", "work", "captured", "cleared", "landed", "refused", "told"},
   step : Steps, aborted : BOOLEAN, out : {"none", "ok", "transient", "fresh", "fatal"},
   applied : BOOLEAN]
Results == [status : Statuses \cup {"none"}, applied : BOOLEAN, parks : BOOLEAN]

\* Type of every variable: folded journals, the engine, its agents and the checkout.
TypeOK ==
  /\ read \in Views /\ safe \in Views /\ stem \in Views /\ from \in [Steps -> StepViews]
  /\ torn \in BOOLEAN /\ (~torn => stem = read)
  /\ swallowed \subseteq Steps /\ committed \subseteq Steps
  /\ failures \in Nat /\ runs \in Nat
  /\ run \in EngineStates
  /\ result \in Results
  /\ agents \in [{"now", "past"} -> AgentStates]
  /\ landed \in [Steps -> Nat]

\* No step's patch reaches the checkout twice, whatever crashes, failing journal
\* writes, cancellations and resumes happen (decideInterruptedStep's rationale),
\* unless a line about it was run into a torn one.
AppliedOnce == \A s \in Steps \ swallowed : landed[s] <= 1

\* What a fold must say of a step so that no resume runs it again.
Witness(e) ==
  \/ Completed(e)
  \/ e.open = "unknown"
  \/ e.open = "apply" /\ e.effect # "no"

\* Write ahead: while a patch is in the checkout, the flushed journal by itself,
\* and every longer one, keeps a resume from running its step again; at no
\* instant may a power cut leave a journal that says "nothing happened".  Only a
\* line run into a torn one is missed.
LandedIsWitnessed ==
  \A s \in Steps \ swallowed :
    landed[s] > 0 => Witness(safe.step[s]) /\ Witness(read.step[s])

\* "The whole point of the write-ahead record is that the act does not happen
\* unless the record does": a patch in the checkout is on the flushed record.
ActNeedsRecord == \A s \in Steps : landed[s] > 0 => Witness(safe.step[s])

\* A role is never seeded with a patch that is not in the user's checkout.
SeedsLanded == \A s \in run.seeds : landed[s] > 0

Launches(s) == run.pc = "step" /\ run'.pc = "wait" /\ run.step = s

\* Nothing is paid for twice without a reason: a step whose "done" is on disk, as
\* far as the engine was told or the file can be read, is never run again, and a
\* step whose failure is an open question only after the human said "retry", also
\* when the process died before the run's last line.  Only a line run into a torn
\* one is missed.
RerunIsJustified ==
  [][\A s \in Steps : Launches(s) =>
       /\ safe.step[s].last # "done"
       /\ s \in committed => s \in swallowed
       /\ read.ask = s => run.gesture = "retry" \/ s \in swallowed]_vars

\* Every run settles: it ends, parks on a question or dies with its process.
RunSettles == run.pc # "off" ~> run.pc = "off"

\* Every patch this run put into the checkout is part of the base a later role
\* works on (the doc of WorkflowRunState).
LaterRolesSeeIt ==
  \A s \in Steps : run.pc = "wait" /\ s < run.step /\ landed[s] > 0 => s \in run.seeds
=============================================================================
