------------------------- MODULE WorkflowRunProofs -------------------------
(***************************************************************************)
(* What WorkflowRun keeps for every number of stages, retries, resumes and *)
(* failing journal writes, torn lines included.  AppliedOnce and           *)
(* LandedIsWitnessed need that no runner outlives its step (Supervised);   *)
(* without it AppliedOnce is false.                                        *)
(***************************************************************************)
EXTENDS WorkflowRun, TLAPS

\* Every runner is awaited, and a landed patch is not followed by another try.
Supervised == "deadline" \notin Faults /\ "contract" \notin Faults

-----------------------------------------------------------------------------
(* One line of the journal changes the view of one step, or none. *)

\* Only the view of step s differs between v and w.
OnlyStep(v, w, s) ==
  /\ w \in Views
  /\ \A t \in Steps \ {s} : w.step[t] = v.step[t]
  /\ w.ended = v.ended

LEMMA StartedView ==
  ASSUME NEW v \in Views, NEW s \in Steps
  PROVE  /\ OnlyStep(v, Started(v, s), s)
         /\ Started(v, s).step[s] = [Unseen EXCEPT !.open = "unknown"]
         /\ Started(v, s).ask = v.ask
BY DEF Views, StepViews, Started, Unseen, OnlyStep

LEMMA IntendedView ==
  ASSUME NEW v \in Views, NEW s \in Steps, NEW act \in {"guarded", "apply"}
  PROVE  /\ OnlyStep(v, Intended(v, s, act), s)
         /\ Intended(v, s, act).step[s].last = v.step[s].last
         /\ Intended(v, s, act).step[s].applied = v.step[s].applied
         /\ Intended(v, s, act).step[s].open = act
         /\ Intended(v, s, act).step[s].effect = "none"
         /\ Intended(v, s, act).ask = v.ask
<1> DEFINE w == Intended(v, s, act)
           e == [v.step[s] EXCEPT !.open = act, !.effect = "none"]
<1>1. w = [v EXCEPT !.step = [@ EXCEPT ![s] = e]]
  BY DEF Intended, Views, StepViews
<1>2. /\ e \in StepViews /\ e.last = v.step[s].last /\ e.applied = v.step[s].applied
      /\ e.open = act /\ e.effect = "none"
  BY DEF Views, StepViews
<1> HIDE DEF e
<1>3. w.step = [v.step EXCEPT ![s] = e] /\ w.ask = v.ask /\ w.ended = v.ended
  BY <1>1 DEF Views
<1>4. w \in Views
  BY <1>1, <1>2 DEF Views
<1> HIDE DEF w
<1>5. w.step[s] = e /\ \A t \in Steps \ {s} : w.step[t] = v.step[t]
  BY <1>3 DEF Views
<1>6. QED
  BY <1>2, <1>3, <1>4, <1>5 DEF OnlyStep, w

LEMMA EffectedView ==
  ASSUME NEW v \in Views, NEW s \in Steps, NEW ok \in BOOLEAN
  PROVE  /\ OnlyStep(v, Effected(v, s, ok), s)
         /\ Effected(v, s, ok).step[s] =
              IF v.step[s].open = "none" THEN v.step[s]
              ELSE [v.step[s] EXCEPT !.effect = IF ok THEN "yes" ELSE "no"]
         /\ Effected(v, s, ok).ask = v.ask
BY DEF Views, StepViews, Effected, OnlyStep

LEMMA TerminalView ==
  ASSUME NEW v \in Views, NEW s \in Steps, NEW status \in Statuses, NEW applied \in BOOLEAN
  PROVE  /\ OnlyStep(v, Terminal(v, s, status, applied), s)
         /\ Terminal(v, s, status, applied).step[s] =
              [last |-> status, applied |-> applied, open |-> "none", effect |-> "none"]
         /\ Terminal(v, s, status, applied).ask \in {0, v.ask}
<1> DEFINE w == Terminal(v, s, status, applied)
           e == [last |-> status, applied |-> applied, open |-> "none", effect |-> "none"]
           a == IF v.ask = s THEN 0 ELSE v.ask
<1>1. w = [v EXCEPT !.step = [@ EXCEPT ![s] = e], !.ask = a]
  BY DEF Terminal, Views
<1>2. e \in StepViews /\ a \in 0 .. NumSteps
  BY WorkflowAssumption DEF Views, StepViews
<1> HIDE DEF e, a
<1>3. w.step = [v.step EXCEPT ![s] = e] /\ w.ask = a /\ w.ended = v.ended
  BY <1>1 DEF Views
<1>4. w \in Views
  BY <1>1, <1>2 DEF Views
<1> HIDE DEF w
<1>5. QED
  BY <1>2, <1>3, <1>4 DEF Views, OnlyStep, w, e, a

\* The lines about the run as a whole leave every step as it was.
LEMMA RunLineView ==
  ASSUME NEW v \in Views
  PROVE  /\ \A s \in Steps : Asked(v, s) \in Views /\ Asked(v, s).step = v.step
         /\ Abandoned(v) \in Views /\ Abandoned(v).step = v.step
         /\ \A status \in Statuses :
              Ended(v, status) \in Views /\ Ended(v, status).step = v.step
                /\ Ended(v, status).ask = v.ask
BY WorkflowAssumption DEF Views, Asked, Abandoned, Ended, Steps

-----------------------------------------------------------------------------
(* Types. *)

\* An attempt is repeated MaxRetries times after transient failures, and once
\* more for each of the two other reasons.
TriesOK ==
  run.tries <= MaxRetries + (IF run.refreshed THEN 1 ELSE 0)
                          + (IF run.recontracted THEN 1 ELSE 0)

\* A terminal line is written for a result, the run's last line for a status.
CommitOK ==
  /\ run.pc = "commit" => result.status \in Statuses
  /\ run.pc \in {"close", "end"} => run.ended \in Statuses

TypeInv == TypeOK /\ TriesOK /\ CommitOK

LEMMA FreshTyped == Idle \in AgentStates /\ \A s \in Steps : Fresh(s) \in AgentStates
<1>1. Idle \in AgentStates
  BY WorkflowAssumption DEF Idle, AgentStates, Steps
<1>2. QED
  BY <1>1 DEF Fresh, AgentStates

LEMMA EngineTyped ==
  ASSUME NEW edited \in BOOLEAN, NEW gesture \in {"none", "retry", "abandon"}
  PROVE  Engine(edited, gesture) \in EngineStates
BY WorkflowAssumption DEF Engine, EngineStates, Steps

LEMMA TypeInit == Init => TypeInv
<1> SUFFICES ASSUME Init PROVE TypeInv
  OBVIOUS
<1>1. read \in Views /\ safe \in Views /\ stem \in Views /\ from \in [Steps -> StepViews]
  BY WorkflowAssumption DEF Init, NoJournal, Unseen, Views, StepViews
<1>2. run \in EngineStates /\ agents \in [{"now", "past"} -> AgentStates]
  BY EngineTyped, FreshTyped DEF Init
<1>3. TriesOK /\ CommitOK
  BY WorkflowAssumption DEF Init, Engine, TriesOK, CommitOK
<1>4. QED
  BY <1>1, <1>2, <1>3 DEF Init, TypeInv, TypeOK, NoResult, Results

JournalOK ==
  /\ read \in Views /\ safe \in Views /\ stem \in Views
  /\ torn \in BOOLEAN /\ (~torn => stem = read)
  /\ swallowed \subseteq Steps /\ failures \in Nat

\* What flushing, failing to flush and noting a line do to the journal.
LEMMA JournalTyped ==
  ASSUME NEW v \in Views, JournalOK, Flush(v) \/ FlushFails(v) \/ Note(v)
  PROVE  JournalOK'
<1>1. Lost(v) \subseteq Steps /\ Lost(read) \subseteq Steps
  BY DEF Lost
<1>2. ASSUME NEW w \in {v, read}, Swallows(w)
      PROVE  swallowed' \subseteq Steps
  BY <1>1, <1>2 DEF Swallows, JournalOK
<1>3. Whole(v) \/ Part(v) => /\ read' \in Views /\ stem' \in Views
                            /\ torn' \in BOOLEAN /\ (~torn' => stem' = read')
  BY DEF Whole, Part, JournalOK
<1>4. CASE Flush(v)
  BY <1>2, <1>3, <1>4 DEF Flush, JournalOK
<1>5. ASSUME Breaks(v), UNCHANGED safe PROVE JournalOK'
  BY <1>2, <1>3, <1>5 DEF Breaks, JournalOK
<1>6. CASE FlushFails(v)
  BY <1>5, <1>6 DEF FlushFails
<1>7. CASE Note(v)
  BY <1>2, <1>3, <1>5, <1>7 DEF Note, JournalOK
<1>8. QED
  BY <1>4, <1>6, <1>7

AgentPcs == {"idle", "guard", "work", "captured", "cleared", "landed", "refused", "told"}
Outs == {"none", "ok", "transient", "fresh", "fatal"}

LEMMA AgentsTyped ==
  ASSUME agents \in [{"now", "past"} -> AgentStates], NEW k \in {"now", "past"}
  PROVE  /\ \A pc \in AgentPcs : Move(k, pc) => agents' \in [{"now", "past"} -> AgentStates]
         /\ \A out \in Outs, applied \in BOOLEAN :
              Tell(k, out, applied) => agents' \in [{"now", "past"} -> AgentStates]
<1>1. ASSUME NEW pc \in AgentPcs, Move(k, pc)
      PROVE  agents' \in [{"now", "past"} -> AgentStates]
  <2>1. [agents[k] EXCEPT !.pc = pc] \in AgentStates
    BY DEF AgentPcs, AgentStates
  <2>2. agents' = [agents EXCEPT ![k] = [agents[k] EXCEPT !.pc = pc]]
    BY <1>1 DEF Move
  <2>3. QED
    BY <2>1, <2>2
<1>2. ASSUME NEW out \in Outs, NEW applied \in BOOLEAN, Tell(k, out, applied)
      PROVE  agents' \in [{"now", "past"} -> AgentStates]
  <2> DEFINE told == [agents[k] EXCEPT !.pc = "told", !.out = out, !.applied = applied]
  <2>1. told \in AgentStates
    BY DEF Outs, AgentStates
  <2>2. agents' = [agents EXCEPT ![k] = told]
    BY <1>2 DEF Tell
  <2>3. QED
    BY <2>1, <2>2
<1>3. QED
  BY <1>1, <1>2

\* A step of a role.
LEMMA AgentTypes ==
  ASSUME TypeInv, NEW k \in {"now", "past"}, AgentStep(k)
  PROVE  TypeInv'
<1>1. /\ JournalOK /\ read \in Views
      /\ agents \in [{"now", "past"} -> AgentStates] /\ agents[k].step \in Steps
      /\ landed \in [Steps -> Nat]
  BY DEF TypeInv, TypeOK, AgentStates, JournalOK
<1>2. UNCHANGED <<run, from, result, runs, committed>>
  BY DEF AgentStep, DeclareGuarded, Works, CutShort, Announce, Apply, SettleApply
<1>3. SUFFICES /\ JournalOK'
               /\ agents' \in [{"now", "past"} -> AgentStates]
               /\ landed' \in [Steps -> Nat]
  BY <1>2 DEF TypeInv, TypeOK, TriesOK, CommitOK, JournalOK
<1>0. UNCHANGED journalVars => JournalOK'
  BY <1>1 DEF journalVars, JournalOK
<1>4. \A act \in {"guarded", "apply"} : Intended(read, agents[k].step, act) \in Views
  BY <1>1, IntendedView DEF OnlyStep
<1>5. \A ok \in BOOLEAN : Effected(read, agents[k].step, ok) \in Views
  BY <1>1, EffectedView DEF OnlyStep
<1>6. CASE DeclareGuarded(k)
  BY <1>1, <1>4, <1>6, AgentsTyped, JournalTyped DEF DeclareGuarded, AgentPcs
<1>7. CASE Works(k)
  BY <1>0, <1>1, <1>7, AgentsTyped DEF Works, AgentPcs, Outs
<1>8. CASE CutShort(k)
  BY <1>0, <1>1, <1>8, AgentsTyped DEF CutShort, Outs
<1>9. CASE Announce(k)
  BY <1>1, <1>4, <1>9, AgentsTyped, JournalTyped DEF Announce, AgentPcs, Outs
<1>10. CASE Apply(k)
  <2>1. agents' \in [{"now", "past"} -> AgentStates]
    BY <1>1, <1>10, AgentsTyped DEF Apply, AgentPcs
  <2>2. landed' \in [Steps -> Nat]
    BY <1>1, <1>10 DEF Apply
  <2>3. QED
    BY <1>0, <1>10, <2>1, <2>2 DEF Apply
<1>11. CASE SettleApply(k)
  <2> DEFINE ok == agents[k].pc = "landed"
  <2>1. ok \in BOOLEAN /\ (IF ok THEN "ok" ELSE "fatal") \in Outs /\ "fatal" \in Outs
    BY DEF Outs
  <2>2. \/ Flush(Effected(read, agents[k].step, ok)) /\ Tell(k, IF ok THEN "ok" ELSE "fatal", ok)
        \/ FlushFails(Effected(read, agents[k].step, ok)) /\ Tell(k, "fatal", ok)
    BY <1>11 DEF SettleApply
  <2>3. landed' = landed
    BY <1>11 DEF SettleApply
  <2> HIDE DEF ok
  <2>4. QED
    BY <1>1, <1>5, <2>1, <2>2, <2>3, AgentsTyped, JournalTyped
<1>12. QED
  BY <1>6, <1>7, <1>8, <1>9, <1>10, <1>11 DEF AgentStep

\* A step of the engine on the step it is at, before or without a runner.
LEMMA SpliceTypes ==
  ASSUME TypeInv, NEW s \in Steps,
         RefuseStale(s) \/ Answer(s) \/ Splice(s) \/ Recover(s) \/ Launch(s) \/ NotLaunched(s)
  PROVE  TypeInv'
<1>1. /\ JournalOK /\ read \in Views /\ run \in EngineStates
      /\ from[s] \in StepViews /\ agents \in [{"now", "past"} -> AgentStates]
      /\ from \in [Steps -> StepViews] /\ runs \in Nat /\ landed \in [Steps -> Nat]
  BY DEF TypeInv, TypeOK, JournalOK
<1>2. ASSUME NEW pc \in {"stage", "commit"}, NEW r \in Results, r.status \in Statuses \/ pc = "stage",
             Give(pc, r), UNCHANGED <<journalVars, from, agents, landed, runs, committed>>
      PROVE  TypeInv'
  <2>1. run' = [run EXCEPT !.pc = pc] /\ result' = r
    BY <1>2 DEF Give
  <2>2. run' \in EngineStates /\ run'.pc = pc /\ run'.tries = run.tries
        /\ run'.refreshed = run.refreshed /\ run'.recontracted = run.recontracted
    BY <1>1, <2>1 DEF EngineStates
  <2>3. TypeOK'
    BY <1>1, <1>2, <2>1, <2>2 DEF TypeInv, TypeOK, journalVars
  <2>4. TriesOK' /\ CommitOK'
    BY <1>2, <2>1, <2>2 DEF TypeInv, TriesOK, CommitOK
  <2>5. QED
    BY <2>3, <2>4 DEF TypeInv
<1>3. \A status \in Statuses \cup {"none"}, applied \in BOOLEAN :
        /\ Result(status, applied) \in Results /\ Result(status, applied).status = status
        /\ Unparkable(applied) \in Results
  BY DEF Result, Unparkable, Results, Statuses
<1>4. CASE RefuseStale(s)
  BY <1>2, <1>3, <1>4 DEF RefuseStale
<1>5. CASE Answer(s)
  BY <1>1, <1>2, <1>3, <1>5 DEF Answer, StepViews, Statuses
<1>6. CASE Splice(s)
  BY <1>1, <1>2, <1>3, <1>6 DEF Splice, StepViews
<1>7. CASE Recover(s)
  BY <1>1, <1>2, <1>3, <1>7 DEF Recover, RecoveredApplied, Statuses
<1>8. CASE Launch(s)
  <2>1. Started(read, s) \in Views
    BY <1>1, StartedView DEF OnlyStep
  <2>2. JournalOK'
    BY <1>1, <1>8, <2>1, JournalTyped DEF Launch
  <2>3. agents' \in [{"now", "past"} -> AgentStates]
    BY <1>1, <1>8, FreshTyped DEF Launch
  <2>4. run' \in EngineStates /\ run'.pc = "wait" /\ run'.tries = run.tries
        /\ run'.refreshed = run.refreshed /\ run'.recontracted = run.recontracted
    BY <1>1, <1>8 DEF Launch, EngineStates
  <2>5. TypeOK' /\ TriesOK' /\ CommitOK'
    BY <1>8, <2>2, <2>3, <2>4 DEF Launch, TypeInv, TypeOK, TriesOK, CommitOK, JournalOK
  <2>6. QED
    BY <2>5 DEF TypeInv
<1>9. CASE NotLaunched(s)
  BY <1>2, <1>3, <1>9 DEF NotLaunched, Statuses
<1>10. QED
  BY <1>4, <1>5, <1>6, <1>7, <1>8, <1>9

\* A step of the engine around a runner.
LEMMA AttemptTypes ==
  ASSUME TypeInv, Retry \/ RetryContract \/ Returned \/ TimesOut
  PROVE  TypeInv'
<1>1. /\ run \in EngineStates /\ run.step \in Steps /\ run.tries \in Nat
      /\ agents \in [{"now", "past"} -> AgentStates]
      /\ agents["now"] \in AgentStates /\ Idle \in AgentStates /\ Fresh(run.step) \in AgentStates
  BY FreshTyped DEF TypeInv, TypeOK, EngineStates
<1>2. FailedOrCancelled \in Statuses
  BY DEF FailedOrCancelled, Statuses
<1>3. CASE Retry
  <2> DEFINE fresh == agents["now"].out = "fresh"
             refreshed == run.refreshed \/ fresh
  <2>1. /\ run.tries + 1 <= MaxRetries + (IF refreshed THEN 1 ELSE 0)
                                       + (IF run.recontracted THEN 1 ELSE 0)
        /\ run.tries + 1 \in 0 .. MaxRetries + 2
    BY <1>1, <1>3, WorkflowAssumption DEF Retry, Retriable, TypeInv, TriesOK, EngineStates
  <2>2. /\ run' \in EngineStates /\ run'.pc = "wait"
        /\ run'.tries <= MaxRetries + (IF run'.refreshed THEN 1 ELSE 0)
                                   + (IF run'.recontracted THEN 1 ELSE 0)
    <3>1. refreshed \in BOOLEAN
      OBVIOUS
    <3>2. run' = [[run EXCEPT !.refreshed = refreshed] EXCEPT !.tries = run.tries + 1]
      BY <1>3, Zenon DEF Retry, Again, TriesCounted
    <3>3. run.pc = "wait"
      BY <1>3 DEF Retry, Again
    <3> HIDE DEF refreshed
    <3>4. QED
      BY <1>1, <2>1, <3>1, <3>2, <3>3 DEF EngineStates
  <2>3. agents' \in [{"now", "past"} -> AgentStates]
    BY <1>1, <1>3 DEF Retry, Again
  <2>4. TypeOK' /\ TriesOK' /\ CommitOK'
    BY <1>3, <2>1, <2>2, <2>3 DEF Retry, Again, TypeInv, TypeOK, TriesOK, CommitOK, journalVars
  <2>5. QED
    BY <2>4 DEF TypeInv
<1>4. CASE RetryContract
  <2>1. /\ run.tries + 1 <= MaxRetries + (IF run.refreshed THEN 1 ELSE 0) + 1
        /\ run.tries + 1 \in 0 .. MaxRetries + 2
    BY <1>1, <1>4, WorkflowAssumption DEF RetryContract, TypeInv, TriesOK, EngineStates
  <2>2. /\ run' \in EngineStates /\ run'.pc = "wait"
        /\ run'.tries <= MaxRetries + (IF run'.refreshed THEN 1 ELSE 0)
                                   + (IF run'.recontracted THEN 1 ELSE 0)
    <3>1. run' = [[run EXCEPT !.recontracted = TRUE] EXCEPT !.tries = run.tries + 1] /\ run.pc = "wait"
      BY <1>4 DEF RetryContract, Again, TriesCounted
    <3>2. QED
      BY <1>1, <2>1, <3>1 DEF EngineStates
  <2>3. agents' \in [{"now", "past"} -> AgentStates]
    BY <1>1, <1>4 DEF RetryContract, Again
  <2>4. TypeOK' /\ TriesOK' /\ CommitOK'
    BY <1>4, <2>1, <2>2, <2>3 DEF RetryContract, Again, TypeInv, TypeOK, TriesOK, CommitOK, journalVars
  <2>5. QED
    BY <2>4 DEF TypeInv
<1>5. CASE Returned \/ TimesOut
  <2>1. \E r \in Results : r.status \in Statuses /\ Give("commit", r)
    <3>1. \A status \in Statuses, applied \in BOOLEAN :
            /\ Result(status, applied) \in Results /\ Result(status, applied).status \in Statuses
            /\ Unparkable(applied) \in Results /\ Unparkable(applied).status \in Statuses
      BY DEF Result, Unparkable, Results, Statuses
    <3>2. CASE Returned
      BY <1>1, <1>2, <3>1, <3>2 DEF Returned, Statuses, AgentStates
    <3>3. CASE TimesOut
      BY <1>2, <3>1, <3>3 DEF TimesOut
    <3>4. QED
      BY <1>5, <3>2, <3>3
  <2>2. agents' \in [{"now", "past"} -> AgentStates]
    <3>1. CASE Returned
      BY <1>1, <3>1 DEF Returned
    <3>2. CASE TimesOut
      <4>1. [agents["now"] EXCEPT !.aborted = TRUE] \in AgentStates
        BY <1>1 DEF AgentStates
      <4>2. QED
        BY <1>1, <3>2, <4>1 DEF TimesOut
    <3>3. QED
      BY <1>5, <3>1, <3>2
  <2>3. run' \in EngineStates /\ run'.tries = run.tries /\ run'.refreshed = run.refreshed
        /\ run'.recontracted = run.recontracted
    BY <1>1, <2>1 DEF Give, EngineStates
  <2>4. UNCHANGED <<journalVars, from, landed, runs, committed>>
    BY <1>5 DEF Returned, TimesOut
  <2>5. TypeOK' /\ TriesOK' /\ CommitOK'
    BY <2>1, <2>2, <2>3, <2>4 DEF Give, TypeInv, TypeOK, TriesOK, CommitOK, journalVars
  <2>6. QED
    BY <2>5 DEF TypeInv
<1>6. QED
  BY <1>3, <1>4, <1>5

\* The engine has its last status.
LEMMA FinishTyped ==
  ASSUME run \in EngineStates, NEW status \in Statuses, Finish(status)
  PROVE  /\ result' \in Results
         /\ run' \in EngineStates /\ run'.pc = "close" /\ run'.ended \in Statuses
         /\ run'.tries = run.tries /\ run'.step = run.step /\ run'.seeds = run.seeds
         /\ run'.refreshed = run.refreshed /\ run'.recontracted = run.recontracted
<1>1. run' = [run EXCEPT !.pc = "close", !.ended = status]
  BY DEF Finish
<1>2. QED
  BY <1>1 DEF EngineStates, Finish, NoResult, Results

LEMMA CommitTypes == ASSUME TypeInv, Commit PROVE TypeInv'
<1> DEFINE v == Terminal(read, run.step, result.status, result.applied)
<1>1. /\ JournalOK /\ read \in Views /\ run \in EngineStates
      /\ result.status \in Statuses /\ result.applied \in BOOLEAN /\ run.step \in Steps
  BY DEF TypeInv, TypeOK, Commit, CommitOK, EngineStates, Results, JournalOK
<1>2. v \in Views
  BY <1>1, TerminalView DEF OnlyStep
<1>3. JournalOK'
  <2>1. Flush(v) \/ FlushFails(v)
    BY DEF Commit
  <2> HIDE DEF v
  <2>2. QED
    BY <1>1, <1>2, <2>1, JournalTyped
<1>4. /\ run' \in EngineStates /\ run'.pc = "stage" /\ run'.tries = run.tries
      /\ run'.refreshed = run.refreshed /\ run'.recontracted = run.recontracted
  BY <1>1 DEF Commit, EngineStates
<1>5. committed' \subseteq Steps
  BY <1>1 DEF Commit, TypeInv, TypeOK
<1>6. TypeOK' /\ TriesOK' /\ CommitOK'
  BY <1>3, <1>4, <1>5 DEF Commit, TypeInv, TypeOK, TriesOK, CommitOK, JournalOK
<1>7. QED
  BY <1>6 DEF TypeInv

LEMMA StageEndTypes == ASSUME TypeInv, StageEnd PROVE TypeInv'
<1>1. /\ run \in EngineStates /\ result \in Results
      /\ run.step \in Steps /\ run.seeds \subseteq Steps
  BY DEF TypeInv, TypeOK, EngineStates
<1>2. UNCHANGED <<journalVars, from, agents, landed, runs, committed>>
  BY DEF StageEnd
<1>3. ASSUME NEW status \in Statuses, Finish(status)
      PROVE  TypeInv'
  <2>1. TypeOK' /\ TriesOK' /\ CommitOK'
    BY <1>1, <1>2, <1>3, FinishTyped DEF TypeInv, TypeOK, TriesOK, CommitOK, journalVars
  <2>2. QED
    BY <2>1 DEF TypeInv
<1>4. ASSUME run' = [run EXCEPT !.pc = "ask"], UNCHANGED result
      PROVE  TypeInv'
  <2>1. /\ run' \in EngineStates /\ run'.pc = "ask" /\ run'.tries = run.tries
        /\ run'.refreshed = run.refreshed /\ run'.recontracted = run.recontracted
    BY <1>1, <1>4 DEF EngineStates
  <2>2. TypeOK' /\ TriesOK' /\ CommitOK'
    BY <1>2, <1>4, <2>1 DEF TypeInv, TypeOK, TriesOK, CommitOK, journalVars
  <2>3. QED
    BY <2>2 DEF TypeInv
<1>5. ASSUME NEW seeds \in SUBSET Steps, run.step < NumSteps,
             run' = [run EXCEPT !.pc = "enter", !.step = @ + 1, !.seeds = seeds,
                                !.tries = 0, !.recontracted = FALSE, !.refreshed = FALSE],
             result' = NoResult
      PROVE  TypeInv'
  <2>1. run.step + 1 \in Steps /\ 0 \in 0 .. MaxRetries + 2
    BY <1>1, <1>5, WorkflowAssumption DEF Steps
  <2>2. run' \in EngineStates /\ run'.pc = "enter" /\ run'.tries = 0
        /\ run'.refreshed = FALSE /\ run'.recontracted = FALSE
    BY <1>1, <1>5, <2>1 DEF EngineStates
  <2>3. TypeOK' /\ TriesOK' /\ CommitOK'
    BY <1>2, <1>5, <2>2, WorkflowAssumption
       DEF TypeInv, TypeOK, TriesOK, CommitOK, NoResult, Results, journalVars
  <2>4. QED
    BY <2>3 DEF TypeInv
<1>6. run.seeds \cup (IF result.applied THEN {run.step} ELSE {}) \in SUBSET Steps
  BY <1>1
<1>7. QED
  BY <1>3, <1>4, <1>5, <1>6 DEF StageEnd, Statuses

\* The lines about the run, and about a stage as a whole.
LEMMA ParkTypes == ASSUME TypeInv, Park \/ StageLines \/ LastLine PROVE TypeInv'
<1>1. /\ JournalOK /\ read \in Views /\ run \in EngineStates /\ run.step \in Steps
      /\ UNCHANGED <<from, agents, landed, runs, committed>>
  BY DEF TypeInv, TypeOK, EngineStates, JournalOK, Park, StageLines, LastLine
<1>2. \E v \in Views : Flush(v) \/ FlushFails(v) \/ Note(v)
  <2>1. CASE Park
    BY <1>1, <2>1, RunLineView DEF Park
  <2>2. CASE StageLines
    BY <1>1, <2>2 DEF StageLines
  <2>3. CASE LastLine
    BY <1>1, <2>3, RunLineView DEF LastLine, TypeInv, CommitOK
  <2>4. QED
    BY <2>1, <2>2, <2>3
<1>3. JournalOK'
  BY <1>1, <1>2, JournalTyped
<1>4. CASE Park
  <2>1. \E status \in Statuses : Finish(status)
    BY <1>4 DEF Park, FailedOrCancelled, Statuses
  <2>2. TypeOK' /\ TriesOK' /\ CommitOK'
    BY <1>1, <1>3, <2>1, FinishTyped DEF TypeInv, TypeOK, TriesOK, CommitOK, JournalOK
  <2>3. QED
    BY <2>2 DEF TypeInv
<1>5. CASE StageLines \/ LastLine
  <2>1. /\ run' \in EngineStates /\ run'.pc \in {"step", "end", "off"} /\ run'.tries = run.tries
        /\ run'.refreshed = run.refreshed /\ run'.recontracted = run.recontracted
        /\ run'.ended = run.ended /\ (run'.pc = "end" => run.pc = "close") /\ result' = result
    BY <1>1, <1>5 DEF StageLines, LastLine, EngineStates
  <2>2. TypeOK' /\ TriesOK' /\ CommitOK'
    BY <1>1, <1>3, <2>1 DEF TypeInv, TypeOK, TriesOK, CommitOK, JournalOK
  <2>3. QED
    BY <2>2 DEF TypeInv
<1>6. QED
  BY <1>4, <1>5

\* Steps of the user and of the machine.
LEMMA WorldTypes ==
  ASSUME TypeInv, Forgotten \/ Cancel \/ Crash \/ Resume \/ Abandon
  PROVE  TypeInv'
<1>1. /\ JournalOK /\ read \in Views /\ safe \in Views /\ run \in EngineStates
      /\ agents \in [{"now", "past"} -> AgentStates] /\ Idle \in AgentStates
  BY FreshTyped DEF TypeInv, TypeOK, JournalOK
<1>2. CASE Forgotten
  BY <1>1, <1>2 DEF Forgotten, TypeInv, TypeOK, TriesOK, CommitOK, journalVars
<1>3. CASE Cancel
  <2> DEFINE busy == agents["now"].pc # "idle"
  <2>1. agents' \in [{"now", "past"} -> AgentStates]
    <3>1. busy \in BOOLEAN /\ agents' = [agents EXCEPT !["now"] = [agents["now"] EXCEPT !.aborted = busy]]
      BY <1>3 DEF Cancel
    <3> HIDE DEF busy
    <3>2. [agents["now"] EXCEPT !.aborted = busy] \in AgentStates
      BY <1>1, <3>1 DEF AgentStates
    <3>3. QED
      BY <1>1, <3>1, <3>2
  <2>2. run' \in EngineStates /\ run'.pc = run.pc /\ run'.tries = run.tries /\ run'.ended = run.ended
        /\ run'.refreshed = run.refreshed /\ run'.recontracted = run.recontracted
    BY <1>1, <1>3 DEF Cancel, EngineStates
  <2>3. TypeOK' /\ TriesOK' /\ CommitOK'
    BY <1>3, <2>1, <2>2 DEF Cancel, TypeInv, TypeOK, TriesOK, CommitOK, journalVars
  <2>4. QED
    BY <2>3 DEF TypeInv
<1>4. CASE Crash
  <2>1. run' \in EngineStates /\ run'.pc = "off" /\ run'.tries = run.tries
        /\ run'.refreshed = run.refreshed /\ run'.recontracted = run.recontracted
    BY <1>1, <1>4 DEF Crash, EngineStates
  <2>2. JournalOK'
    <3>1. CASE torn' = TRUE /\ UNCHANGED <<read, stem>>
      BY <1>1, <1>4, <3>1 DEF Crash, JournalOK
    <3>2. CASE UNCHANGED <<torn, read, stem>>
      BY <1>1, <1>4, <3>2 DEF Crash, JournalOK
    <3>3. CASE torn' \in BOOLEAN /\ read' = safe /\ stem' = safe
      BY <1>1, <1>4, <3>3 DEF Crash, JournalOK
    <3>4. QED
      BY <1>4, <3>1, <3>2, <3>3 DEF Crash
  <2>3. /\ result' \in Results /\ agents' \in [{"now", "past"} -> AgentStates]
        /\ UNCHANGED <<from, landed, runs, committed>>
    BY <1>1, <1>4 DEF Crash, NoResult, Results
  <2>4. TypeOK' /\ TriesOK' /\ CommitOK'
    BY <2>1, <2>2, <2>3 DEF TypeInv, TypeOK, TriesOK, CommitOK, JournalOK
  <2>5. QED
    BY <2>4 DEF TypeInv
<1>5. CASE Resume
  <2>1. \E edited \in BOOLEAN, gesture \in {"none", "retry", "abandon"} :
          run' = Engine(edited, gesture)
    BY <1>5 DEF Resume
  <2>2. run' \in EngineStates /\ run'.pc = "enter" /\ run'.tries = 0
    <3>1. PICK edited \in BOOLEAN, gesture \in {"none", "retry", "abandon"} :
            run' = Engine(edited, gesture)
      BY <2>1
    <3>2. Engine(edited, gesture).pc = "enter" /\ Engine(edited, gesture).tries = 0
      BY DEF Engine
    <3>3. QED
      BY <3>1, <3>2, EngineTyped
  <2>3. from' \in [Steps -> StepViews]
    BY <1>1, <1>5 DEF Resume, Views
  <2>4. TypeOK' /\ TriesOK' /\ CommitOK'
    BY <1>1, <1>5, <2>2, <2>3, WorkflowAssumption
       DEF Resume, TypeInv, TypeOK, TriesOK, CommitOK, journalVars
  <2>5. QED
    BY <2>4 DEF TypeInv
<1>6. CASE Abandon
  <2>1. JournalOK'
    BY <1>1, <1>6, RunLineView, JournalTyped DEF Abandon
  <2>2. Engine(FALSE, "abandon") \in EngineStates /\ Engine(FALSE, "abandon").tries = 0
    BY EngineTyped DEF Engine
  <2>3. run' \in EngineStates /\ run'.pc = "end" /\ run'.ended = "failed" /\ run'.tries = 0
    BY <1>6, <2>2 DEF Abandon, EngineStates, Statuses
  <2>4. from' \in [Steps -> StepViews] /\ runs' = runs + 1 /\ UNCHANGED <<result, agents, landed, committed>>
    BY <1>1, <1>6 DEF Abandon, Views
  <2>5. TypeOK' /\ TriesOK' /\ CommitOK'
    BY <2>1, <2>3, <2>4, WorkflowAssumption
       DEF TypeInv, TypeOK, TriesOK, CommitOK, JournalOK, Statuses
  <2>6. QED
    BY <2>5 DEF TypeInv
<1>7. QED
  BY <1>2, <1>3, <1>4, <1>5, <1>6

LEMMA TypeStep == TypeInv /\ [Next]_vars => TypeInv'
<1> SUFFICES ASSUME TypeInv, [Next]_vars PROVE TypeInv'
  OBVIOUS
<1>1. CASE \E k \in {"now", "past"} : AgentStep(k)
  BY <1>1, AgentTypes
<1>2. CASE EngineStep
  BY <1>2, SpliceTypes, AttemptTypes, CommitTypes, StageEndTypes, ParkTypes DEF EngineStep
<1>3. CASE Forgotten \/ Cancel \/ Crash \/ Resume \/ Abandon
  BY <1>3, WorldTypes
<1>4. CASE UNCHANGED vars
  BY <1>4 DEF vars, TypeInv, TypeOK, TriesOK, CommitOK
<1>5. QED
  BY <1>1, <1>2, <1>3, <1>4 DEF Next

\* Every variable keeps its type; in particular no step is attempted more often
\* than its retries and the two extra attempts allow.
THEOREM TypeCorrect == Spec => []TypeOK
<1>1. TypeInv => TypeOK
  BY DEF TypeInv
<1>2. QED
  BY TypeInit, TypeStep, <1>1, PTL DEF Spec

-----------------------------------------------------------------------------
(* Nothing claims a patch that is not in the checkout. *)

\* What a folded step claims about the checkout is true of it.
Backed(e, copies) == e.applied \/ e.effect = "yes" => copies > 0

ClaimsInv ==
  /\ \A s \in Steps : /\ Backed(read.step[s], landed[s]) /\ Backed(safe.step[s], landed[s])
                     /\ Backed(stem.step[s], landed[s]) /\ Backed(from[s], landed[s])
  /\ \A k \in {"now", "past"} :
       agents[k].applied \/ agents[k].pc = "landed" => landed[agents[k].step] > 0
  /\ run.pc = "wait" => agents["now"].step = run.step
  /\ result.applied => run.pc \in {"commit", "stage", "ask"} /\ landed[run.step] > 0
  /\ SeedsLanded

BackedThen(s) ==
  /\ Backed(read'.step[s], landed'[s]) /\ Backed(safe'.step[s], landed'[s])
  /\ Backed(stem'.step[s], landed'[s])

\* A line comes into the file, alone or with all before it onto the disk, or is lost
\* with the torn one before it.
LEMMA LineWritten ==
  ASSUME NEW v, Flush(v) \/ FlushFails(v) \/ Note(v)
  PROVE  /\ read' \in {read, stem, v} /\ stem' \in {stem, v} /\ safe' \in {safe, stem, v}
         /\ read' = stem' \/ (read' = v /\ stem' = stem) \/ (read' = read /\ stem' = stem)
         /\ safe' = safe \/ (safe' = read' /\ stem' = read')
<1>1. Whole(v) \/ Part(v) => read' \in {stem, v} /\ stem' \in {stem, v}
  BY DEF Whole, Part
<1>2. /\ Whole(v) => stem' = read'
      /\ Part(v) => read' = stem' \/ (read' = v /\ stem' = stem)
  BY DEF Whole, Part
<1>3. Flush(v) => safe' = read' /\ Whole(v)
  BY DEF Flush
<1>4. ~Flush(v) => /\ safe' = safe
                   /\ Whole(v) \/ Part(v) \/ UNCHANGED <<read, stem>>
  BY DEF FlushFails, Note, Breaks
<1>5. CASE Flush(v)
  BY <1>1, <1>2, <1>3, <1>5
<1>6. CASE ~Flush(v)
  BY <1>1, <1>2, <1>4, <1>6
<1>7. QED
  BY <1>5, <1>6

\* A line about step s that is backed keeps every view backed.
LEMMA BackedLine ==
  ASSUME TypeInv, ClaimsInv, NEW s \in Steps, NEW v, OnlyStep(read, v, s), Backed(v.step[s], landed[s]),
         read' \in {read, stem, v}, stem' \in {stem, v}, safe' \in {safe, stem, v}, landed' = landed
  PROVE  \A t \in Steps : BackedThen(t)
<1>1. \A t \in Steps : Backed(v.step[t], landed[t])
  BY DEF OnlyStep, ClaimsInv
<1>2. QED
  BY <1>1 DEF ClaimsInv, BackedThen

LEMMA AgentClaims ==
  ASSUME TypeInv, ClaimsInv, NEW k \in {"now", "past"}, AgentStep(k)
  PROVE  ClaimsInv'
<1> DEFINE s == agents[k].step
<1>1. /\ read \in Views /\ safe \in Views /\ s \in Steps
      /\ agents \in [{"now", "past"} -> AgentStates] /\ landed \in [Steps -> Nat]
  BY DEF TypeInv, TypeOK, AgentStates
<1>2. UNCHANGED <<run, from, result, runs>>
  BY DEF AgentStep, DeclareGuarded, Works, CutShort, Announce, Apply, SettleApply
<1>3. SUFFICES
        /\ \A t \in Steps : landed'[t] >= landed[t]
        /\ \A t \in Steps : BackedThen(t)
        /\ \A j \in {"now", "past"} : agents'[j].step = agents[j].step
        /\ \A j \in {"now", "past"} : agents'[j].applied \/ agents'[j].pc = "landed"
             => landed'[agents[j].step] > 0
  <2>1. \A t \in Steps : landed[t] \in Nat /\ landed'[t] \in Nat
    BY <1>1, AgentTypes DEF TypeInv, TypeOK
  <2>2. run.step \in Steps /\ run.seeds \subseteq Steps
    BY DEF TypeInv, TypeOK, EngineStates
  <2>3. QED
    BY <1>2, <1>3, <2>1, <2>2 DEF ClaimsInv, Backed, BackedThen, SeedsLanded
<1>4. ASSUME NEW act \in {"guarded", "apply"}, landed' = landed,
             Flush(Intended(read, s, act)) \/ FlushFails(Intended(read, s, act))
      PROVE  \A t \in Steps : BackedThen(t)
  <2>1. Backed(Intended(read, s, act).step[s], landed[s])
    <3>1. read.step[s] \in StepViews /\ Backed(read.step[s], landed[s])
      BY <1>1 DEF ClaimsInv, Views
    <3>2. /\ Intended(read, s, act).step[s].applied = read.step[s].applied
          /\ Intended(read, s, act).step[s].effect = "none"
      BY <1>1, IntendedView
    <3>3. QED
      BY <3>1, <3>2 DEF Backed, StepViews
  <2>2. QED
    BY <1>1, <1>4, <2>1, IntendedView, LineWritten, BackedLine
<1>5. ASSUME NEW pc \in {"work", "captured", "cleared", "refused"}, Move(k, pc), landed' = landed
      PROVE  /\ \A j \in {"now", "past"} : agents'[j].step = agents[j].step
             /\ \A j \in {"now", "past"} : agents'[j].applied \/ agents'[j].pc = "landed"
                  => landed'[agents[j].step] > 0
  BY <1>1, <1>5 DEF Move, ClaimsInv, AgentStates
<1>6. ASSUME NEW out, NEW applied \in BOOLEAN, Tell(k, out, applied), landed' = landed,
             applied => landed[s] > 0
      PROVE  /\ \A j \in {"now", "past"} : agents'[j].step = agents[j].step
             /\ \A j \in {"now", "past"} : agents'[j].applied \/ agents'[j].pc = "landed"
                  => landed'[agents[j].step] > 0
  BY <1>1, <1>6 DEF Tell, ClaimsInv, AgentStates
<1>7. ASSUME UNCHANGED journalVars, \A t \in Steps : landed'[t] >= landed[t], landed' \in [Steps -> Nat]
      PROVE  \A t \in Steps : BackedThen(t)
  BY <1>1, <1>7 DEF journalVars, ClaimsInv, Backed, BackedThen
<1>8. landed' = landed => \A t \in Steps : landed'[t] >= landed[t]
  BY <1>1
<1>9. CASE DeclareGuarded(k)
  BY <1>4, <1>5, <1>8, <1>9 DEF DeclareGuarded
<1>10. CASE Works(k)
  BY <1>1, <1>5, <1>6, <1>7, <1>8, <1>10 DEF Works
<1>11. CASE CutShort(k)
  BY <1>1, <1>6, <1>7, <1>8, <1>11 DEF CutShort
<1>12. CASE Announce(k)
  BY <1>4, <1>5, <1>6, <1>8, <1>12 DEF Announce
<1>13. CASE Apply(k)
  <2>1. CASE Move(k, "refused") /\ UNCHANGED landed
    BY <1>1, <1>5, <1>7, <1>8, <1>13, <2>1 DEF Apply
  <2>2. CASE Move(k, "landed") /\ landed' = [landed EXCEPT ![s] = @ + 1]
    <3>1. /\ \A t \in Steps : landed'[t] >= landed[t]
          /\ landed' \in [Steps -> Nat] /\ landed'[s] > 0
      BY <1>1, <2>2
    <3>2. /\ \A j \in {"now", "past"} : agents'[j].step = agents[j].step
          /\ \A j \in {"now", "past"} : agents'[j].applied \/ agents'[j].pc = "landed"
               => landed'[agents[j].step] > 0
      <4>1. \A j \in {"now", "past"} : agents[j].step \in Steps
        BY <1>1 DEF AgentStates
      <4>2. QED
        BY <1>1, <2>2, <3>1, <4>1 DEF Move, ClaimsInv, AgentStates
    <3>3. QED
      BY <1>7, <1>13, <3>1, <3>2 DEF Apply
  <2>3. QED
    BY <1>13, <2>1, <2>2 DEF Apply
<1>14. CASE SettleApply(k)
  <2> DEFINE ok == agents[k].pc = "landed"
             v  == Effected(read, s, ok)
  <2>1. ok \in BOOLEAN /\ (ok => landed[s] > 0) /\ landed' = landed
    BY <1>14 DEF SettleApply, ClaimsInv
  <2>2. Flush(v) \/ FlushFails(v)
    BY <1>14 DEF SettleApply
  <2>3. \E out : Tell(k, out, ok)
    BY <1>14 DEF SettleApply
  <2> HIDE DEF ok
  <2>4. Backed(v.step[s], landed[s])
    <3>1. read.step[s] \in StepViews /\ Backed(read.step[s], landed[s])
      BY <1>1 DEF ClaimsInv, Views
    <3>2. v.step[s] = IF read.step[s].open = "none" THEN read.step[s]
                      ELSE [read.step[s] EXCEPT !.effect = IF ok THEN "yes" ELSE "no"]
      BY <1>1, <2>1, EffectedView
    <3>3. QED
      BY <2>1, <3>1, <3>2 DEF Backed, StepViews
  <2>5. \A t \in Steps : BackedThen(t)
    BY <1>1, <2>1, <2>2, <2>4, EffectedView, LineWritten, BackedLine
  <2>6. QED
    BY <1>6, <1>8, <2>1, <2>3, <2>5
<1>15. QED
  BY <1>9, <1>10, <1>11, <1>12, <1>13, <1>14 DEF AgentStep

\* Steps of the engine that leave the checkout alone: what the journal, the agents
\* and the engine say afterwards must be backed.
LEMMA EngineClaims ==
  ASSUME ClaimsInv, landed' = landed,
         \A t \in Steps : BackedThen(t) /\ Backed(from'[t], landed[t]),
         \A k \in {"now", "past"} :
           agents'[k].applied \/ agents'[k].pc = "landed" => landed[agents'[k].step] > 0,
         run'.pc = "wait" => agents'["now"].step = run'.step,
         result'.applied => run'.pc \in {"commit", "stage", "ask"} /\ landed[run'.step] > 0,
         \A t \in run'.seeds : landed[t] > 0
  PROVE  ClaimsInv'
BY DEF ClaimsInv, BackedThen, Backed, SeedsLanded

LEMMA SpliceClaims ==
  ASSUME TypeInv, ClaimsInv, NEW s \in Steps,
         RefuseStale(s) \/ Answer(s) \/ Splice(s) \/ Recover(s) \/ Launch(s) \/ NotLaunched(s)
  PROVE  ClaimsInv'
<1>1. /\ read \in Views /\ run \in EngineStates /\ agents \in [{"now", "past"} -> AgentStates]
      /\ run.step = s /\ run.pc = "step" /\ landed' = landed /\ from' = from
  BY DEF TypeInv, TypeOK, RefuseStale, Answer, Splice, Recover, Launch, NotLaunched, Runnable
<1>2. \A t \in Steps : Backed(from[t], landed[t])
  BY DEF ClaimsInv
<1>3. ASSUME NEW pc \in {"stage", "commit"}, NEW r, Give(pc, r), r.applied => landed[s] > 0,
             UNCHANGED <<journalVars, agents>>
      PROVE  ClaimsInv'
  <2>1. run'.pc = pc /\ run'.step = s /\ run'.seeds = run.seeds /\ result' = r
    BY <1>1, <1>3 DEF Give, EngineStates
  <2>2. \A t \in Steps : BackedThen(t)
    BY <1>1, <1>3 DEF ClaimsInv, BackedThen, journalVars
  <2>3. QED
    BY <1>1, <1>2, <1>3, <2>1, <2>2, EngineClaims DEF ClaimsInv, SeedsLanded
<1>4. CASE RefuseStale(s)
  BY <1>3, <1>4 DEF RefuseStale, Unparkable
<1>5. CASE Answer(s)
  BY <1>2, <1>3, <1>5 DEF Answer, Result, Backed
<1>6. CASE Splice(s)
  BY <1>2, <1>3, <1>6 DEF Splice, Result, Backed
<1>7. CASE Recover(s)
  BY <1>2, <1>3, <1>7 DEF Recover, Result, RecoveredApplied, Backed
<1>8. CASE NotLaunched(s)
  BY <1>3, <1>8 DEF NotLaunched, Result
<1>9. CASE Launch(s)
  <2> DEFINE v == Started(read, s)
  <2>1. OnlyStep(read, v, s) /\ Backed(v.step[s], landed[s])
    BY <1>1, StartedView DEF Backed, Unseen
  <2>2. \A t \in Steps : BackedThen(t)
    BY <1>1, <1>9, <2>1, LineWritten, BackedLine DEF Launch
  <2>3. /\ run'.pc = "wait" /\ run'.step = s /\ run'.seeds = run.seeds /\ result' = result
        /\ ~result.applied
    BY <1>1, <1>9 DEF Launch, EngineStates, ClaimsInv
  <2>4. agents'["now"] = Fresh(s) /\ agents'["past"] = agents["past"]
    BY <1>1, <1>9 DEF Launch
  <2>5. ~Fresh(s).applied /\ Fresh(s).pc = "guard" /\ Fresh(s).step = s
    BY DEF Fresh, Idle
  <2>6. QED
    BY <1>1, <1>2, <2>2, <2>3, <2>4, <2>5, EngineClaims DEF ClaimsInv, SeedsLanded
<1>10. QED
  BY <1>4, <1>5, <1>6, <1>7, <1>8, <1>9

LEMMA AttemptClaims ==
  ASSUME TypeInv, ClaimsInv, Retry \/ RetryContract \/ Returned \/ TimesOut
  PROVE  ClaimsInv'
<1>1. /\ run \in EngineStates /\ agents \in [{"now", "past"} -> AgentStates] /\ run.step \in Steps
      /\ run.pc = "wait" /\ landed' = landed /\ from' = from /\ UNCHANGED journalVars
      /\ agents["now"].step = run.step /\ ~result.applied
  BY DEF TypeInv, TypeOK, EngineStates, ClaimsInv, Retry, RetryContract, Again, Returned, TimesOut
<1>2. \A t \in Steps : BackedThen(t) /\ Backed(from'[t], landed[t])
  BY <1>1 DEF ClaimsInv, BackedThen, journalVars
<1>3. ~Idle.applied /\ Idle.pc = "idle"
  BY DEF Idle
<1>4. CASE Retry \/ RetryContract
  <2>1. /\ agents' = [agents EXCEPT !["now"] = Fresh(run.step)] /\ result' = result
        /\ run'.pc = "wait" /\ run'.step = run.step /\ run'.seeds = run.seeds
    BY <1>1, <1>4 DEF Retry, RetryContract, Again, EngineStates
  <2>2. ~Fresh(run.step).applied /\ Fresh(run.step).pc = "guard" /\ Fresh(run.step).step = run.step
    BY DEF Fresh, Idle
  <2>3. agents'["now"] = Fresh(run.step) /\ agents'["past"] = agents["past"]
    BY <1>1, <2>1
  <2>4. QED
    BY <1>1, <1>2, <2>1, <2>2, <2>3, EngineClaims DEF ClaimsInv, SeedsLanded
<1>5. CASE Returned
  <2>1. /\ run'.pc = "commit" /\ run'.step = run.step /\ run'.seeds = run.seeds
        /\ result'.applied = agents["now"].applied
    BY <1>1, <1>5 DEF Returned, Give, Result, Unparkable, EngineStates
  <2>2. agents'["now"] = Idle /\ agents'["past"] = agents["past"]
    BY <1>1, <1>5 DEF Returned
  <2>3. QED
    BY <1>1, <1>2, <1>3, <2>1, <2>2, EngineClaims DEF ClaimsInv, SeedsLanded
<1>6. CASE TimesOut
  <2>1. /\ run'.pc = "commit" /\ run'.step = run.step /\ run'.seeds = run.seeds
        /\ ~result'.applied
    BY <1>1, <1>6 DEF TimesOut, Give, Result, EngineStates
  <2>2. agents'["now"] = Idle /\ agents'["past"] = [agents["now"] EXCEPT !.aborted = TRUE]
    BY <1>1, <1>6 DEF TimesOut
  <2>3. /\ agents'["past"].step = agents["now"].step /\ agents'["past"].pc = agents["now"].pc
        /\ agents'["past"].applied = agents["now"].applied
    BY <1>1, <2>2 DEF AgentStates
  <2>4. QED
    BY ZenonT(60), <1>1, <1>2, <1>3, <2>1, <2>2, <2>3, EngineClaims DEF ClaimsInv, SeedsLanded
<1>7. QED
  BY <1>4, <1>5, <1>6

LEMMA CommitClaims ==
  ASSUME TypeInv, ClaimsInv, Commit
  PROVE  ClaimsInv'
<1> DEFINE v == Terminal(read, run.step, result.status, result.applied)
<1>1. /\ read \in Views /\ run \in EngineStates /\ run.step \in Steps
      /\ result \in Results /\ result.status \in Statuses /\ result.applied \in BOOLEAN
      /\ UNCHANGED <<from, result, agents, landed>>
  BY DEF TypeInv, TypeOK, CommitOK, Commit, EngineStates, Results
<1>2. OnlyStep(read, v, run.step) /\ Backed(v.step[run.step], landed[run.step])
  <2>1. result.applied => landed[run.step] > 0
    BY DEF ClaimsInv
  <2>2. v.step[run.step] = [last |-> result.status, applied |-> result.applied,
                            open |-> "none", effect |-> "none"]
    BY <1>1, TerminalView
  <2>3. OnlyStep(read, v, run.step)
    BY <1>1, TerminalView
  <2> HIDE DEF v
  <2>4. QED
    BY <2>1, <2>2, <2>3 DEF Backed
<1>3. \A t \in Steps : BackedThen(t)
  <2>1. Flush(v) \/ FlushFails(v)
    BY DEF Commit
  <2> HIDE DEF v
  <2>2. QED
    BY <1>1, <1>2, <2>1, LineWritten, BackedLine
<1>4. run'.pc = "stage" /\ run'.step = run.step /\ run'.seeds = run.seeds
  BY <1>1 DEF Commit, EngineStates
<1>5. QED
  BY <1>1, <1>3, <1>4, EngineClaims DEF ClaimsInv, SeedsLanded

\* A line about no step keeps every view backed.
LEMMA RunLineClaims ==
  ASSUME TypeInv, ClaimsInv, NEW v \in Views, v.step = read.step,
         Flush(v) \/ FlushFails(v) \/ Note(v), UNCHANGED <<agents, landed>>,
         from' \in {from, read.step},
         run'.pc \notin {"wait"}, run'.seeds \subseteq run.seeds, ~result'.applied
  PROVE  ClaimsInv'
<1>1. /\ read'.step \in {read.step, stem.step} /\ stem'.step \in {stem.step, read.step}
      /\ safe'.step \in {safe.step, stem.step, read.step}
  BY LineWritten
<1>2. \A t \in Steps : BackedThen(t) /\ Backed(from'[t], landed[t])
  BY <1>1 DEF ClaimsInv, BackedThen
<1>3. QED
  BY <1>2, EngineClaims DEF ClaimsInv, SeedsLanded

LEMMA StageEndClaims ==
  ASSUME TypeInv, ClaimsInv, StageEnd
  PROVE  ClaimsInv'
<1>1. /\ run \in EngineStates /\ UNCHANGED <<journalVars, from, agents, landed>>
      /\ run.step \in Steps /\ run.pc = "stage"
  BY DEF TypeInv, TypeOK, StageEnd, EngineStates
<1>2. \A t \in Steps : BackedThen(t) /\ Backed(from'[t], landed[t])
  BY <1>1 DEF ClaimsInv, BackedThen, journalVars
<1>3. CASE \E status \in Statuses : Finish(status)
  <2>1. run'.pc = "close" /\ run'.seeds = run.seeds /\ result' = NoResult
    BY <1>1, <1>3, FinishTyped DEF Finish
  <2>2. QED
    BY <1>1, <1>2, <2>1, EngineClaims DEF ClaimsInv, SeedsLanded, NoResult
<1>4. CASE run' = [run EXCEPT !.pc = "ask"] /\ UNCHANGED result
  <2>1. run'.pc = "ask" /\ run'.step = run.step /\ run'.seeds = run.seeds
    BY <1>1, <1>4 DEF EngineStates
  <2>2. QED
    BY <1>1, <1>2, <1>4, <2>1, EngineClaims DEF ClaimsInv, SeedsLanded
<1>5. CASE /\ run' = [run EXCEPT !.pc = "enter", !.step = @ + 1,
                         !.seeds = run.seeds \cup (IF result.applied THEN {run.step} ELSE {}),
                         !.tries = 0, !.recontracted = FALSE, !.refreshed = FALSE]
           /\ result' = NoResult
  <2>1. /\ run'.pc = "enter" /\ ~result'.applied
        /\ run'.seeds = run.seeds \cup (IF result.applied THEN {run.step} ELSE {})
    BY <1>1, <1>5 DEF EngineStates, NoResult
  <2>2. \A t \in run'.seeds : landed[t] > 0
    BY <1>1, <2>1 DEF ClaimsInv, SeedsLanded
  <2>3. QED
    BY <1>1, <1>2, <2>1, <2>2, EngineClaims DEF ClaimsInv
<1>6. QED
  BY <1>3, <1>4, <1>5 DEF StageEnd, Statuses

LEMMA ParkClaims ==
  ASSUME TypeInv, ClaimsInv, Park \/ StageLines \/ LastLine
  PROVE  ClaimsInv'
<1>1. /\ read \in Views /\ run \in EngineStates /\ UNCHANGED <<from, agents, landed>>
      /\ run.step \in Steps
  BY DEF TypeInv, TypeOK, Park, StageLines, LastLine, EngineStates
<1>2. \E v \in Views : v.step = read.step /\ (Flush(v) \/ FlushFails(v) \/ Note(v))
  <2>1. CASE Park
    BY <1>1, <2>1, RunLineView DEF Park
  <2>2. CASE StageLines
    BY <1>1, <2>2 DEF StageLines
  <2>3. CASE LastLine
    BY <1>1, <2>3, RunLineView DEF LastLine, TypeInv, CommitOK
  <2>4. QED
    BY <2>1, <2>2, <2>3
<1>3. run'.pc # "wait" /\ run'.seeds = run.seeds /\ ~result'.applied
  <2>1. CASE Park
    <3>1. \E status \in Statuses : Finish(status)
      BY <2>1 DEF Park, FailedOrCancelled, Statuses
    <3>2. run'.pc = "close" /\ run'.seeds = run.seeds /\ result' = NoResult
      BY <1>1, <3>1, FinishTyped DEF Finish
    <3>3. QED
      BY <3>2 DEF NoResult
  <2>2. CASE StageLines \/ LastLine
    BY <1>1, <2>2 DEF StageLines, LastLine, EngineStates, ClaimsInv
  <2>3. QED
    BY <2>1, <2>2
<1>4. QED
  BY <1>1, <1>2, <1>3, RunLineClaims

LEMMA WorldClaims ==
  ASSUME TypeInv, ClaimsInv, Forgotten \/ Cancel \/ Crash \/ Resume \/ Abandon
  PROVE  ClaimsInv'
<1>1. /\ read \in Views /\ safe \in Views /\ run \in EngineStates
      /\ agents \in [{"now", "past"} -> AgentStates] /\ landed' = landed
      /\ ~Idle.applied /\ Idle.pc = "idle"
  BY DEF TypeInv, TypeOK, Forgotten, Cancel, Crash, Resume, Abandon, Idle
<1>2. CASE Forgotten
  <2>1. agents'["now"] = agents["now"] /\ agents'["past"] = Idle
    BY <1>1, <1>2 DEF Forgotten
  <2>2. \A t \in Steps : BackedThen(t) /\ Backed(from'[t], landed[t])
    BY <1>1, <1>2 DEF Forgotten, ClaimsInv, BackedThen, journalVars
  <2>3. QED
    BY <1>1, <1>2, <2>1, <2>2, EngineClaims DEF Forgotten, ClaimsInv, SeedsLanded
<1>3. CASE Cancel
  <2>1. /\ run'.pc = run.pc /\ run'.step = run.step /\ run'.seeds = run.seeds /\ result' = result
    BY <1>1, <1>3 DEF Cancel, EngineStates
  <2>2. \A k \in {"now", "past"} : /\ agents'[k].applied = agents[k].applied
                                   /\ agents'[k].pc = agents[k].pc
                                   /\ agents'[k].step = agents[k].step
    BY <1>1, <1>3 DEF Cancel, AgentStates
  <2>3. \A t \in Steps : BackedThen(t) /\ Backed(from'[t], landed[t])
    BY <1>1, <1>3 DEF Cancel, ClaimsInv, BackedThen, journalVars
  <2>4. QED
    BY <1>1, <2>1, <2>2, <2>3, EngineClaims DEF ClaimsInv, SeedsLanded
<1>4. CASE Crash
  <2>1. run'.pc = "off" /\ run'.seeds = run.seeds /\ ~result'.applied
    BY <1>1, <1>4 DEF Crash, EngineStates, NoResult
  <2>2. \A k \in {"now", "past"} : agents'[k] = Idle
    BY <1>4 DEF Crash
  <2>3. \A t \in Steps : BackedThen(t) /\ Backed(from'[t], landed[t])
    BY <1>1, <1>4 DEF Crash, ClaimsInv, BackedThen
  <2>4. QED
    BY <1>1, <2>1, <2>2, <2>3, EngineClaims DEF ClaimsInv, SeedsLanded
<1>5. CASE Resume
  <2>1. run'.pc = "enter" /\ run'.seeds = {} /\ run.pc = "off" /\ result' = result
    BY <1>5 DEF Resume, Resumable, Engine
  <2>2. \A t \in Steps : BackedThen(t) /\ Backed(from'[t], landed[t])
    BY <1>1, <1>5 DEF Resume, ClaimsInv, BackedThen, journalVars
  <2>3. QED
    BY <1>1, <1>5, <2>1, <2>2, EngineClaims DEF Resume, ClaimsInv
<1>6. CASE Abandon
  <2>1. run'.pc = "end" /\ run'.seeds = {} /\ run.pc = "off" /\ result' = result
    BY <1>6 DEF Abandon, Resumable, Engine
  <2>2. ~result.applied
    BY <2>1 DEF ClaimsInv
  <2>3. /\ Abandoned(read) \in Views /\ Abandoned(read).step = read.step
    BY <1>1, RunLineView
  <2>4. QED
    BY <1>1, <1>6, <2>1, <2>2, <2>3, RunLineClaims DEF Abandon
<1>7. QED
  BY <1>2, <1>3, <1>4, <1>5, <1>6

LEMMA ClaimsInit == Init => ClaimsInv
<1> SUFFICES ASSUME Init PROVE ClaimsInv
  OBVIOUS
<1>1. \A s \in Steps : ~Unseen.applied /\ Unseen.effect # "yes" /\ NoJournal.step[s] = Unseen
  BY DEF Unseen, NoJournal
<1>2. run.pc = "enter" /\ run.seeds = {} /\ ~result.applied
  BY DEF Init, Engine, NoResult
<1>3. \A k \in {"now", "past"} : ~agents[k].applied /\ agents[k].pc = "idle"
  BY DEF Init, Idle
<1>4. QED
  BY <1>1, <1>2, <1>3 DEF Init, ClaimsInv, Backed, SeedsLanded

LEMMA ClaimsStep == TypeInv /\ ClaimsInv /\ [Next]_vars => ClaimsInv'
<1> SUFFICES ASSUME TypeInv, ClaimsInv, [Next]_vars PROVE ClaimsInv'
  OBVIOUS
<1>1. CASE \E k \in {"now", "past"} : AgentStep(k)
  BY <1>1, AgentClaims
<1>2. CASE EngineStep
  BY <1>2, SpliceClaims, AttemptClaims, CommitClaims, StageEndClaims, ParkClaims DEF EngineStep
<1>3. CASE Forgotten \/ Cancel \/ Crash \/ Resume \/ Abandon
  BY <1>3, WorldClaims
<1>4. CASE UNCHANGED vars
  BY <1>4 DEF vars, ClaimsInv, Backed, SeedsLanded
<1>5. QED
  BY <1>1, <1>2, <1>3, <1>4 DEF Next

\* Whatever fails, and whoever outlives whom: a later role is only seeded with
\* patches that are in the user's checkout.
THEOREM SeedsAreLanded == Spec => []SeedsLanded
<1>1. ClaimsInv => SeedsLanded
  BY DEF ClaimsInv
<1>2. QED
  BY TypeInit, TypeStep, ClaimsInit, ClaimsStep, <1>1, PTL DEF Spec

-----------------------------------------------------------------------------
(* No patch lands twice. *)

\* A step whose patch landed keeps every resume from running it.
Held(e, copies) == copies > 0 => Witness(e)
Announced(e) == e.open = "apply" /\ e.effect = "none"

\* The stage loop has not come to s, or has not decided about it.
Unlaunched(s) ==
  run.pc # "off" /\ (run.step < s \/ (run.step = s /\ run.pc \in {"enter", "step"}))

\* What the place of an agent says about the copies of its patch.
AgentHeld(a, copies, announced) ==
  /\ a.pc \in {"guard", "work", "captured", "cleared", "refused"} => copies = 0
  /\ a.pc = "cleared" => announced
  /\ a.pc = "told" => /\ copies > 0 => a.applied
                      /\ a.out \in {"transient", "fresh"} => copies = 0

OnceInv ==
  /\ agents["past"].pc = "idle"
  /\ run.pc # "wait" => agents["now"].pc = "idle"
  /\ \A s \in Steps \ swallowed :
       /\ landed[s] <= 1
       /\ Held(read.step[s], landed[s]) /\ Held(safe.step[s], landed[s])
       /\ Held(stem.step[s], landed[s])
       /\ Unlaunched(s) => Held(from[s], landed[s])
  /\ LET s == agents["now"].step IN
       s \notin swallowed =>
         AgentHeld(agents["now"], landed[s], /\ Announced(read.step[s]) /\ Announced(safe.step[s])
                                             /\ Announced(stem.step[s]))
  /\ run.pc = "commit" /\ run.step \notin swallowed /\ landed[run.step] > 0
       => result.status = "done" \/ result.applied

DoneIn(e) == e.last = "done"

\* RerunIsJustified needs less: the last terminal of each step, and the question.
RerunInv ==
  /\ \A s \in Steps :
       /\ DoneIn(safe.step[s]) => DoneIn(stem.step[s])
       /\ DoneIn(stem.step[s]) => DoneIn(read.step[s])
       /\ s \in committed => DoneIn(safe.step[s]) \/ s \in swallowed
       /\ Unlaunched(s) /\ DoneIn(read.step[s]) => DoneIn(from[s])
  /\ run.pc = "wait" => ~DoneIn(read.step[run.step])
  /\ run.pc = "commit" /\ result.status # "done" => ~DoneIn(read.step[run.step])
  /\ run.pc \notin {"off", "close", "end"} /\ read.ask \in Steps \ swallowed => run.gesture = "retry"

DoneThen(s) ==
  /\ DoneIn(safe'.step[s]) => DoneIn(stem'.step[s])
  /\ DoneIn(stem'.step[s]) => DoneIn(read'.step[s])
  /\ s \in committed => DoneIn(safe'.step[s]) \/ s \in swallowed'
  /\ read'.step[s] \in {read.step[s], stem.step[s]} => (DoneIn(read'.step[s]) => DoneIn(read.step[s]))

\* A line never takes a "done" back, whatever of it the file keeps.
LEMMA LineReruns ==
  ASSUME RerunInv, NEW v,
         \A s \in Steps : DoneIn(read.step[s]) => DoneIn(v.step[s]),
         Flush(v) \/ FlushFails(v) \/ Note(v)
  PROVE  /\ \A s \in Steps : DoneThen(s) /\ read'.step[s] \in {read.step[s], stem.step[s], v.step[s]}
         /\ swallowed \subseteq swallowed'
<1>1. swallowed \subseteq swallowed'
  BY DEF Flush, FlushFails, Note, Breaks, Swallows
<1>2. /\ read' \in {read, stem, v} /\ stem' \in {stem, v} /\ safe' \in {safe, stem, v}
      /\ read' = stem' \/ (read' = v /\ stem' = stem) \/ (read' = read /\ stem' = stem)
      /\ safe' = safe \/ (safe' = read' /\ stem' = read')
  BY LineWritten
<1>3. ASSUME NEW s \in Steps
      PROVE  DoneThen(s) /\ read'.step[s] \in {read.step[s], stem.step[s], v.step[s]}
  <2>1. /\ DoneIn(safe.step[s]) => DoneIn(stem.step[s])
        /\ DoneIn(stem.step[s]) => DoneIn(read.step[s])
        /\ DoneIn(read.step[s]) => DoneIn(v.step[s])
        /\ s \in committed => DoneIn(safe.step[s]) \/ s \in swallowed
    BY DEF RerunInv
  <2>2. DoneIn(stem'.step[s]) => DoneIn(read'.step[s])
    BY <1>2, <2>1
  <2>3. DoneIn(safe.step[s]) => DoneIn(safe'.step[s]) /\ DoneIn(stem'.step[s])
    BY <1>2, <2>1
  <2>4. DoneIn(safe'.step[s]) => DoneIn(stem'.step[s])
    BY <1>2, <2>3
  <2>5. read'.step[s] \in {read.step[s], stem.step[s], v.step[s]}
    BY <1>2
  <2>6. QED
    BY <1>1, <2>1, <2>2, <2>3, <2>4, <2>5 DEF DoneThen
<1>4. QED
  BY <1>1, <1>3

\* A question comes back only with a line that was lost.
LEMMA LineAsks ==
  ASSUME TypeInv, NEW v, v.ask \in {0, read.ask}, Flush(v) \/ FlushFails(v) \/ Note(v)
  PROVE  read'.ask \in Steps \ swallowed' => read'.ask = read.ask /\ read.ask \notin swallowed
<1>1. /\ torn \in BOOLEAN /\ (~torn => stem = read)
      /\ swallowed \subseteq swallowed' /\ stem.ask \in 0 .. NumSteps
  BY DEF TypeInv, TypeOK, Views, Flush, FlushFails, Note, Breaks, Swallows
<1>2. SUFFICES ASSUME read'.ask \in Steps, read'.ask \notin swallowed' PROVE read'.ask = read.ask
  BY <1>1
<1>3. 0 \notin Steps
  BY DEF Steps
<1>4. CASE ~torn
  BY <1>1, <1>2, <1>3, <1>4, LineWritten
<1>5. CASE torn /\ read' = read
  BY <1>5
<1>6. CASE torn /\ read' # read
  <2>1. \E w \in {v, read} : Swallows(w) /\ (Whole(v) \/ Part(v))
    BY <1>6 DEF Flush, FlushFails, Note, Breaks
  <2>2. read' = stem
    BY <1>6, <2>1 DEF Whole, Part
  <2>3. PICK w \in {v, read} : Swallows(w)
    BY <2>1
  <2>4. w.ask \in {0, read.ask} /\ Lost(w) \subseteq swallowed'
    BY <1>6, <2>3 DEF Swallows
  <2>5. w.ask = stem.ask
    BY <1>2, <2>2, <2>4 DEF Lost
  <2>6. QED
    BY <1>2, <1>3, <2>2, <2>4, <2>5
<1>7. QED
  BY <1>1, <1>4, <1>5, <1>6

\* Lines about an attempt leave the last terminal and the question as they are.
LEMMA AgentReruns ==
  ASSUME TypeInv, RerunInv, NEW k \in {"now", "past"}, AgentStep(k)
  PROVE  RerunInv'
<1> DEFINE s == agents[k].step
<1>1. /\ read \in Views /\ s \in Steps /\ run' = run /\ from' = from /\ result' = result
      /\ run.step \in Steps /\ committed' = committed
  BY DEF TypeInv, TypeOK, AgentStates, EngineStates, AgentStep, DeclareGuarded, Works, CutShort,
         Announce, Apply, SettleApply
<1>3. ASSUME UNCHANGED journalVars PROVE RerunInv'
  BY <1>1, <1>3 DEF journalVars, RerunInv, Unlaunched
<1>4. ASSUME NEW w, OnlyStep(read, w, s), w.step[s].last = read.step[s].last, w.ask = read.ask,
             Flush(w) \/ FlushFails(w)
      PROVE  RerunInv'
  <2>1. \A t \in Steps : w.step[t].last = read.step[t].last
    BY <1>1, <1>4 DEF OnlyStep
  <2>2. \A t \in Steps : DoneThen(t) /\ read'.step[t] \in {read.step[t], stem.step[t], w.step[t]}
    BY <1>4, <2>1, LineReruns DEF DoneIn
  <2>3. \A t \in Steps : DoneIn(read'.step[t]) => DoneIn(read.step[t])
    BY <2>1, <2>2 DEF DoneThen, DoneIn
  <2>4. read'.ask \in Steps \ swallowed' => read'.ask = read.ask /\ read.ask \notin swallowed
    BY <1>4, LineAsks
  <2>5. QED
    BY <1>1, <2>2, <2>3, <2>4 DEF RerunInv, Unlaunched, DoneThen
<1>5. \A act \in {"guarded", "apply"} :
        LET w == Intended(read, s, act) IN
        OnlyStep(read, w, s) /\ w.step[s].last = read.step[s].last /\ w.ask = read.ask
  BY <1>1, IntendedView
<1>6. CASE DeclareGuarded(k)
  BY <1>4, <1>5, <1>6 DEF DeclareGuarded
<1>7. CASE Works(k) \/ CutShort(k) \/ Apply(k)
  BY <1>3, <1>7 DEF Works, CutShort, Apply
<1>8. CASE Announce(k)
  BY <1>4, <1>5, <1>8 DEF Announce
<1>9. CASE SettleApply(k)
  <2> DEFINE ok == agents[k].pc = "landed"
             w == Effected(read, s, ok)
  <2>1. ok \in BOOLEAN
    OBVIOUS
  <2>2. Flush(w) \/ FlushFails(w)
    BY <1>9 DEF SettleApply
  <2> HIDE DEF ok
  <2>3. OnlyStep(read, w, s) /\ w.ask = read.ask
    BY ZenonT(60), <1>1, <2>1, EffectedView
  <2>4. w.step[s].last = read.step[s].last
    <3>1. read.step[s] \in StepViews
      BY <1>1 DEF Views
    <3>2. w.step[s] = IF read.step[s].open = "none" THEN read.step[s]
                      ELSE [read.step[s] EXCEPT !.effect = IF ok THEN "yes" ELSE "no"]
      BY <1>1, <2>1, EffectedView
    <3>3. QED
      BY <3>1, <3>2 DEF StepViews
  <2> HIDE DEF w
  <2>5. QED
    BY <1>4, <2>2, <2>3, <2>4
<1>10. QED
  BY <1>6, <1>7, <1>8, <1>9 DEF AgentStep

LEMMA SpliceReruns ==
  ASSUME TypeInv, RerunInv, NEW s \in Steps,
         RefuseStale(s) \/ Answer(s) \/ Splice(s) \/ Recover(s) \/ Launch(s) \/ NotLaunched(s)
  PROVE  RerunInv'
<1>1. /\ read \in Views /\ run \in EngineStates /\ run.step = s /\ run.pc = "step"
      /\ from' = from /\ committed' = committed
  BY DEF TypeInv, TypeOK, RefuseStale, Answer, Splice, Recover, Launch, NotLaunched, Runnable
<1>2. ASSUME NEW pc \in {"stage", "commit"}, NEW r, Give(pc, r),
             pc = "commit" => r.status = "done", UNCHANGED journalVars
      PROVE  RerunInv'
  <2>1. run'.pc = pc /\ run'.step = s /\ run'.gesture = run.gesture /\ result' = r
    BY <1>1, <1>2 DEF Give, EngineStates
  <2>2. QED
    BY <1>1, <1>2, <2>1 DEF RerunInv, Unlaunched, journalVars
<1>3. CASE RefuseStale(s) \/ Splice(s) \/ NotLaunched(s)
  BY <1>2, <1>3 DEF RefuseStale, Splice, NotLaunched
<1>4. CASE Answer(s) \/ Recover(s)
  BY <1>2, <1>4 DEF Answer, Recover, Result
<1>5. CASE Launch(s)
  <2> DEFINE v == Started(read, s)
  <2>1. run'.pc = "wait" /\ run'.step = s /\ run'.gesture = run.gesture
    BY <1>1, <1>5 DEF Launch, EngineStates
  <2>2. ~DoneIn(from[s]) /\ ~DoneIn(read.step[s])
    BY <1>1, <1>5 DEF Launch, Runnable, Completed, RerunInv, Unlaunched, DoneIn
  <2>3. /\ OnlyStep(read, v, s) /\ ~DoneIn(v.step[s]) /\ v.ask = read.ask
    BY <1>1, StartedView DEF Unseen, DoneIn
  <2>4. Note(v)
    BY <1>5 DEF Launch
  <2> HIDE DEF v
  <2>5. \A t \in Steps : DoneThen(t) /\ read'.step[t] \in {read.step[t], stem.step[t], v.step[t]}
    BY <2>2, <2>3, <2>4, LineReruns DEF OnlyStep
  <2>6. \A t \in Steps : DoneIn(read'.step[t]) => DoneIn(read.step[t])
    BY <2>3, <2>5 DEF DoneThen, OnlyStep
  <2>7. read'.ask \in Steps \ swallowed' => read'.ask = read.ask /\ read.ask \notin swallowed
    BY <2>3, <2>4, LineAsks
  <2>8. \A t \in Steps : Unlaunched(t)' => Unlaunched(t)
    BY <1>1, <2>1 DEF Unlaunched
  <2>9. QED
    BY <1>1, <2>1, <2>2, <2>5, <2>6, <2>7, <2>8 DEF RerunInv, DoneThen
<1>6. QED
  BY <1>3, <1>4, <1>5

LEMMA AttemptReruns ==
  ASSUME TypeInv, RerunInv, Retry \/ RetryContract \/ Returned \/ TimesOut
  PROVE  RerunInv'
<1>1. /\ run \in EngineStates /\ run.pc = "wait" /\ UNCHANGED journalVars /\ from' = from
      /\ committed' = committed
  BY DEF TypeInv, TypeOK, Retry, RetryContract, Again, Returned, TimesOut
<1>2. run'.pc \in {"wait", "commit"} /\ run'.step = run.step /\ run'.gesture = run.gesture
  BY <1>1 DEF Retry, RetryContract, Again, Returned, TimesOut, Give, EngineStates
<1>3. QED
  BY <1>1, <1>2 DEF RerunInv, Unlaunched, journalVars

LEMMA CommitReruns ==
  ASSUME TypeInv, RerunInv, Commit
  PROVE  RerunInv'
<1> DEFINE v == Terminal(read, run.step, result.status, result.applied)
<1>1. /\ read \in Views /\ run \in EngineStates /\ run.step \in Steps /\ run.pc = "commit"
      /\ result.status \in Statuses /\ result.applied \in BOOLEAN /\ from' = from
      /\ torn \in BOOLEAN
  BY DEF TypeInv, TypeOK, CommitOK, Commit, EngineStates, Results
<1>2. OnlyStep(read, v, run.step) /\ v.step[run.step].last = result.status /\ v.ask \in {0, read.ask}
  <2>1. /\ OnlyStep(read, v, run.step) /\ v.ask \in {0, read.ask}
        /\ v.step[run.step] = [last |-> result.status, applied |-> result.applied,
                               open |-> "none", effect |-> "none"]
    BY <1>1, TerminalView
  <2> HIDE DEF v
  <2>2. QED
    BY <2>1
<1>3. /\ Flush(v) \/ (FlushFails(v) /\ committed' = committed)
      /\ committed' \in {committed, committed \cup {run.step}}
      /\ committed' # committed => result.status = "done"
  BY DEF Commit
<1> HIDE DEF v
<1>4. run'.pc = "stage" /\ run'.step = run.step /\ run'.gesture = run.gesture
  BY <1>1 DEF Commit, EngineStates
<1>5. \A t \in Steps : Unlaunched(t)' => Unlaunched(t) /\ t # run.step
  BY <1>1, <1>4 DEF Unlaunched, Steps
<1>6. \A t \in Steps \ {run.step} : v.step[t] = read.step[t]
  BY <1>2 DEF OnlyStep
<1>7. \A t \in Steps : DoneIn(read.step[t]) => DoneIn(v.step[t])
  BY <1>1, <1>2, <1>6 DEF RerunInv, DoneIn
<1>8. /\ \A t \in Steps : DoneThen(t) /\ read'.step[t] \in {read.step[t], stem.step[t], v.step[t]}
  BY <1>3, <1>7, LineReruns
<1>9. \A t \in Steps : Unlaunched(t)' /\ DoneIn(read'.step[t]) => DoneIn(from'[t])
  BY <1>1, <1>5, <1>6, <1>8 DEF RerunInv, DoneThen
<1>10. read'.ask \in Steps \ swallowed' => read'.ask = read.ask /\ read.ask \notin swallowed
  BY <1>2, <1>3, LineAsks
<1>11. committed' # committed => DoneIn(safe'.step[run.step]) \/ run.step \in swallowed'
  <2>1. SUFFICES ASSUME Flush(v), result.status = "done"
                 PROVE  DoneIn(safe'.step[run.step]) \/ run.step \in swallowed'
    BY <1>3
  <2>2. DoneIn(v.step[run.step])
    BY <1>2, <2>1 DEF DoneIn
  <2>3. CASE ~torn
    BY <2>1, <2>2, <2>3 DEF Flush, Whole
  <2>4. CASE torn
    <3>1. safe' = stem /\ Lost(v) \subseteq swallowed'
      BY <2>1, <2>4 DEF Flush, Whole, Swallows
    <3>2. run.step \notin Lost(v) => v.step[run.step] = stem.step[run.step]
      BY <1>1 DEF Lost
    <3>3. QED
      BY <2>2, <3>1, <3>2
  <2>5. QED
    BY <1>1, <2>3, <2>4
<1>12. \A t \in Steps : t \in committed' => DoneIn(safe'.step[t]) \/ t \in swallowed'
  BY <1>3, <1>8, <1>11 DEF DoneThen
<1>13. QED
  BY <1>1, <1>4, <1>8, <1>9, <1>10, <1>12 DEF RerunInv, DoneThen

\* A line that is about no step.
LEMMA RunLineReruns ==
  ASSUME TypeInv, RerunInv, NEW v, v.step = read.step, Flush(v) \/ FlushFails(v) \/ Note(v),
         committed' = committed, run'.pc \notin {"wait", "commit"},
         \A s \in Steps : Unlaunched(s)' => from'[s] = read.step[s] \/ (Unlaunched(s) /\ from'[s] = from[s]),
         \/ run'.pc \in {"off", "close", "end"}
         \/ run.pc \notin {"off", "close", "end"} /\ run'.gesture = run.gesture /\ v.ask = read.ask
  PROVE  RerunInv'
<1>1. \A s \in Steps : DoneThen(s) /\ read'.step[s] \in {read.step[s], stem.step[s]}
  BY LineReruns
<1>2. \A s \in Steps : Unlaunched(s)' /\ DoneIn(read'.step[s]) => DoneIn(from'[s])
  BY <1>1 DEF RerunInv, DoneThen
<1>3. run'.pc \notin {"off", "close", "end"} /\ read'.ask \in Steps \ swallowed'
        => run'.gesture = "retry"
  BY LineAsks DEF RerunInv
<1>4. QED
  BY <1>1, <1>2, <1>3 DEF RerunInv, DoneThen

LEMMA StageEndReruns ==
  ASSUME TypeInv, RerunInv, StageEnd \/ Park \/ StageLines \/ LastLine
  PROVE  RerunInv'
<1>1. /\ read \in Views /\ run \in EngineStates /\ from' = from /\ run.step \in Steps
      /\ committed' = committed /\ run.pc \in {"stage", "ask", "enter", "close", "end"}
  BY DEF TypeInv, TypeOK, StageEnd, Park, StageLines, LastLine, EngineStates
<1>2. ASSUME NEW status \in Statuses, Finish(status), UNCHANGED journalVars
      PROVE  RerunInv'
  <2>1. run'.pc = "close" /\ run'.step = run.step
    BY <1>1, <1>2, FinishTyped
  <2>2. QED
    BY <1>1, <1>2, <2>1 DEF RerunInv, Unlaunched, journalVars
<1>3. CASE run' = [run EXCEPT !.pc = "ask"] /\ run.pc = "stage" /\ UNCHANGED journalVars
  <2>1. run'.pc = "ask" /\ run'.step = run.step /\ run'.gesture = run.gesture
    BY <1>1, <1>3 DEF EngineStates
  <2>2. QED
    BY <1>1, <1>3, <2>1 DEF RerunInv, Unlaunched, journalVars
<1>4. CASE /\ run' = [run EXCEPT !.pc = "enter", !.step = @ + 1,
                         !.seeds = run.seeds \cup (IF result.applied THEN {run.step} ELSE {}),
                         !.tries = 0, !.recontracted = FALSE, !.refreshed = FALSE]
           /\ run.pc = "stage" /\ UNCHANGED journalVars
  <2>1. run'.pc = "enter" /\ run'.step = run.step + 1 /\ run'.gesture = run.gesture
    BY <1>1, <1>4 DEF EngineStates
  <2>2. \A t \in Steps : Unlaunched(t)' => Unlaunched(t)
    BY <1>1, <1>4, <2>1, WorkflowAssumption DEF Unlaunched, Steps
  <2>3. QED
    BY <1>1, <1>4, <2>1, <2>2 DEF RerunInv, journalVars
<1>5. CASE StageEnd
  BY <1>2, <1>3, <1>4, <1>5 DEF StageEnd, Statuses
<1>6. CASE Park
  <2>1. \E status \in Statuses : Finish(status)
    BY <1>6 DEF Park, FailedOrCancelled, Statuses
  <2>2. run'.pc = "close" /\ run'.step = run.step /\ run.pc = "ask"
    BY <1>1, <1>6, <2>1, FinishTyped DEF Park
  <2>3. \A t \in Steps : Unlaunched(t)' => Unlaunched(t)
    BY <2>2 DEF Unlaunched
  <2>4. Asked(read, run.step).step = read.step
    BY <1>1, RunLineView
  <2>5. Flush(Asked(read, run.step)) \/ FlushFails(Asked(read, run.step))
    BY <1>6 DEF Park
  <2>6. QED
    BY <1>1, <2>2, <2>3, <2>4, <2>5, RunLineReruns
<1>7. CASE StageLines
  <2>1. /\ run'.pc = (IF run.pc = "enter" THEN "step" ELSE "end") /\ run'.step = run.step
        /\ run'.gesture = run.gesture /\ run.pc \in {"enter", "close"} /\ Note(read)
    BY <1>1, <1>7 DEF StageLines, EngineStates
  <2>2. \A t \in Steps : Unlaunched(t)' => Unlaunched(t)
    BY <2>1 DEF Unlaunched
  <2>3. QED
    BY <1>1, <2>1, <2>2, RunLineReruns
<1>8. CASE LastLine
  <2>1. run'.pc = "off" /\ Note(Ended(read, run.ended)) /\ run.ended \in Statuses
    BY <1>1, <1>8 DEF LastLine, EngineStates, TypeInv, CommitOK
  <2>2. Ended(read, run.ended).step = read.step
    BY <1>1, <2>1, RunLineView
  <2>3. QED
    BY <1>1, <2>1, <2>2, RunLineReruns DEF Unlaunched
<1>9. QED
  BY <1>5, <1>6, <1>7, <1>8

LEMMA WorldReruns ==
  ASSUME TypeInv, RerunInv, Forgotten \/ Cancel \/ Crash \/ Resume \/ Abandon
  PROVE  RerunInv'
<1>1. read \in Views /\ run \in EngineStates
  BY DEF TypeInv, TypeOK
<1>2. CASE Forgotten
  BY <1>2 DEF Forgotten, RerunInv, Unlaunched, journalVars
<1>3. CASE Cancel
  <2>1. /\ run'.pc = run.pc /\ run'.step = run.step /\ run'.gesture = run.gesture
        /\ UNCHANGED <<journalVars, from, result, committed>>
    BY <1>1, <1>3 DEF Cancel, EngineStates
  <2>2. QED
    BY <2>1 DEF RerunInv, Unlaunched, journalVars
<1>4. CASE Crash
  <2>1. /\ run'.pc = "off" /\ safe' = safe /\ UNCHANGED <<swallowed, committed>>
        /\ UNCHANGED <<read, stem>> \/ (read' = safe /\ stem' = safe)
    BY <1>1, <1>4 DEF Crash, EngineStates
  <2>2. QED
    BY <2>1 DEF RerunInv, Unlaunched
<1>5. CASE Resume
  <2>1. /\ run'.pc = "enter" /\ (read.ask # 0 => run'.gesture = "retry")
        /\ UNCHANGED <<journalVars, committed>> /\ from' = read.step
    BY <1>5 DEF Resume, Engine, Parked
  <2>2. 0 \notin Steps
    BY DEF Steps
  <2>3. QED
    BY <2>1, <2>2 DEF RerunInv, journalVars
<1>6. CASE Abandon
  <2>1. run'.pc = "end" /\ from' = read.step /\ committed' = committed
    BY <1>6 DEF Abandon, Engine
  <2>2. Abandoned(read).step = read.step
    BY <1>1, RunLineView
  <2>3. Flush(Abandoned(read)) \/ FlushFails(Abandoned(read))
    BY <1>6 DEF Abandon
  <2>4. QED
    BY <2>1, <2>2, <2>3, RunLineReruns
<1>7. QED
  BY <1>2, <1>3, <1>4, <1>5, <1>6

LEMMA RerunInit == Init => RerunInv
BY DEF Init, RerunInv, Engine, NoJournal, Unseen, DoneIn, Steps

LEMMA RerunStep == TypeInv /\ RerunInv /\ [Next]_vars => RerunInv'
<1> SUFFICES ASSUME TypeInv, RerunInv, [Next]_vars PROVE RerunInv'
  OBVIOUS
<1>1. CASE \E k \in {"now", "past"} : AgentStep(k)
  BY <1>1, AgentReruns
<1>2. CASE EngineStep
  BY <1>2, SpliceReruns, AttemptReruns, CommitReruns, StageEndReruns DEF EngineStep
<1>3. CASE Forgotten \/ Cancel \/ Crash \/ Resume \/ Abandon
  BY <1>3, WorldReruns
<1>4. CASE UNCHANGED vars
  BY <1>4 DEF vars, RerunInv, Unlaunched
<1>5. QED
  BY <1>1, <1>2, <1>3, <1>4 DEF Next

\* A step recorded as done is never run again, and an open question is not passed
\* over, for every workflow, fault and number of resumes.
THEOREM RerunsAreJustified == Spec => RerunIsJustified
<1>1. TypeInv /\ RerunInv /\ [Next]_vars =>
        [\A s \in Steps : Launches(s) =>
           /\ safe.step[s].last # "done"
           /\ s \in committed => s \in swallowed
           /\ read.ask = s => run.gesture = "retry" \/ s \in swallowed]_vars
  <2> SUFFICES ASSUME TypeInv, RerunInv, Next, NEW s \in Steps, Launches(s)
               PROVE  /\ safe.step[s].last # "done"
                      /\ s \in committed => s \in swallowed
                      /\ read.ask = s => run.gesture = "retry" \/ s \in swallowed
    BY DEF Launches
  <2>1. run.pc = "step" /\ run'.pc = "wait" /\ run.step = s /\ run \in EngineStates
    BY DEF Launches, TypeInv, TypeOK
  <2>2. Runnable(s)
    <3>1. CASE \E k \in {"now", "past"} : AgentStep(k)
      BY <2>1, <3>1 DEF AgentStep, DeclareGuarded, Works, CutShort, Announce, Apply, SettleApply
    <3>2. CASE EngineStep
      <4>1. ASSUME NEW t \in Steps, RefuseStale(t) \/ Answer(t) \/ Splice(t) \/ Recover(t) \/ NotLaunched(t)
            PROVE  FALSE
        BY <2>1, <4>1 DEF RefuseStale, Answer, Splice, Recover, NotLaunched, Give, EngineStates
      <4>2. ASSUME NEW t \in Steps, Launch(t) PROVE Runnable(s)
        BY <2>1, <4>2 DEF Launch, Runnable
      <4>3. /\ ~Retry /\ ~RetryContract /\ ~Returned /\ ~TimesOut /\ ~Commit /\ ~StageEnd /\ ~Park
            /\ ~StageLines /\ ~LastLine
        BY <2>1 DEF Retry, RetryContract, Again, Returned, TimesOut, Commit, StageEnd, Park,
                    StageLines, LastLine
      <4>4. QED
        BY <3>2, <4>1, <4>2, <4>3 DEF EngineStep
    <3>3. CASE Forgotten \/ Cancel \/ Crash \/ Resume \/ Abandon
      BY <2>1, <3>3 DEF Forgotten, Cancel, Crash, Resume, Resumable, Abandon, EngineStates
    <3>4. QED
      BY <3>1, <3>2, <3>3 DEF Next
  <2>3. ~DoneIn(read.step[s])
    BY <2>1, <2>2 DEF Runnable, Completed, RerunInv, Unlaunched, DoneIn
  <2>4. ~DoneIn(safe.step[s])
    BY <2>3 DEF RerunInv
  <2>5. QED
    BY <2>1, <2>4 DEF RerunInv, DoneIn
<1>2. QED
  BY TypeInit, TypeStep, RerunInit, RerunStep, <1>1, PTL DEF Spec, RerunIsJustified

HeldThen(s) ==
  s \notin swallowed' => /\ Held(read'.step[s], landed'[s]) /\ Held(safe'.step[s], landed'[s])
                         /\ Held(stem'.step[s], landed'[s])

\* A line about a step whose new view is held keeps every view held.
LEMMA HeldLine ==
  ASSUME TypeInv, OnceInv, NEW s \in Steps, NEW v, OnlyStep(read, v, s),
         s \notin swallowed => Held(v.step[s], landed[s]),
         Flush(v) \/ FlushFails(v) \/ Note(v), landed' = landed
  PROVE  swallowed \subseteq swallowed' /\ \A t \in Steps : HeldThen(t)
<1>1. swallowed \subseteq swallowed'
  BY DEF Flush, FlushFails, Note, Breaks, Swallows
<1>2. \A t \in Steps \ swallowed : Held(v.step[t], landed[t])
  BY DEF OnlyStep, OnceInv
<1>3. read' \in {read, stem, v} /\ stem' \in {stem, v} /\ safe' \in {safe, stem, v}
  BY LineWritten
<1>4. QED
  BY <1>1, <1>2, <1>3 DEF OnceInv, HeldThen

\* What an agent's step must show: it is the one awaited, on the step of the run.
LEMMA AwaitedStep ==
  ASSUME TypeInv, ClaimsInv, OnceInv, NEW k \in {"now", "past"}, AgentStep(k),
         landed' \in [Steps -> Nat], swallowed \subseteq swallowed',
         run.step \notin swallowed' => landed'[run.step] <= 1,
         \A t \in Steps : t # run.step => landed'[t] = landed[t],
         \A t \in Steps : HeldThen(t),
         agents'["past"] = agents["past"], agents'["now"].step = run.step,
         run.step \notin swallowed' =>
           AgentHeld(agents'["now"], landed'[run.step],
                     /\ Announced(read'.step[run.step]) /\ Announced(safe'.step[run.step])
                     /\ Announced(stem'.step[run.step]))
  PROVE  OnceInv'
<1>1. agents[k].pc # "idle" /\ UNCHANGED <<run, from, result>>
  BY DEF AgentStep, DeclareGuarded, Works, CutShort, Announce, Apply, SettleApply
<1>2. run.pc = "wait"
  BY <1>1 DEF OnceInv
<1>3. \A t \in Steps : Unlaunched(t)' => Unlaunched(t) /\ t # run.step
  BY <1>1, <1>2 DEF Unlaunched, TypeInv, TypeOK, EngineStates, Steps
<1>4. \A t \in Steps \ swallowed' : landed'[t] <= 1
  BY DEF OnceInv
<1>5. \A t \in Steps \ swallowed' : Unlaunched(t)' => Held(from'[t], landed'[t])
  BY <1>1, <1>3 DEF OnceInv
<1>6. QED
  BY <1>1, <1>2, <1>4, <1>5 DEF OnceInv, HeldThen

LEMMA AgentOnce ==
  ASSUME TypeInv, ClaimsInv, OnceInv, NEW k \in {"now", "past"}, AgentStep(k)
  PROVE  OnceInv'
<1> DEFINE s == run.step
           a == agents["now"]
           kept == s \notin swallowed
           allAnnounced == /\ Announced(read.step[s]) /\ Announced(safe.step[s])
                           /\ Announced(stem.step[s])
<1>1. /\ read \in Views /\ safe \in Views /\ run \in EngineStates /\ s \in Steps
      /\ agents \in [{"now", "past"} -> AgentStates] /\ a \in AgentStates
      /\ landed \in [Steps -> Nat]
  BY DEF TypeInv, TypeOK, EngineStates
<1>2. k = "now" /\ a.step = s
  <2>1. agents[k].pc # "idle"
    BY DEF AgentStep, DeclareGuarded, Works, CutShort, Announce, Apply, SettleApply
  <2>2. QED
    BY <2>1 DEF OnceInv, ClaimsInv
<1>3. /\ landed[s] \in Nat
      /\ kept => /\ landed[s] <= 1 /\ Held(read.step[s], landed[s])
                 /\ AgentHeld(a, landed[s], allAnnounced)
  BY <1>1, <1>2 DEF OnceInv
<1>4. \A t \in Steps \ swallowed : /\ Held(read.step[t], landed[t]) /\ Held(safe.step[t], landed[t])
                                   /\ Held(stem.step[t], landed[t])
  BY DEF OnceInv
<1>5. UNCHANGED journalVars /\ landed' = landed
        => swallowed \subseteq swallowed' /\ \A t \in Steps : HeldThen(t)
  BY <1>4 DEF journalVars, HeldThen
<1>6. ASSUME NEW act \in {"guarded", "apply"}, landed' = landed, kept => landed[s] = 0,
             Flush(Intended(read, s, act)) \/ FlushFails(Intended(read, s, act))
      PROVE  swallowed \subseteq swallowed' /\ \A t \in Steps : HeldThen(t)
  BY <1>1, <1>6, IntendedView, HeldLine DEF Held
<1>7. ASSUME NEW out, NEW applied \in BOOLEAN, Tell(k, out, applied), landed' = landed,
             swallowed \subseteq swallowed' /\ \A t \in Steps : HeldThen(t),
             kept /\ landed[s] > 0 => applied,
             kept /\ landed[s] > 0 => out \notin {"transient", "fresh"}
      PROVE  OnceInv'
  <2>1. /\ agents'["past"] = agents["past"] /\ agents'["now"].step = s
        /\ agents'["now"].pc = "told" /\ agents'["now"].out = out /\ agents'["now"].applied = applied
    BY <1>1, <1>2, <1>7 DEF Tell, AgentStates
  <2>2. s \notin swallowed' => kept
    BY <1>7
  <2>3. QED
    BY <1>1, <1>3, <1>7, <2>1, <2>2, AwaitedStep DEF AgentHeld
<1>8. ASSUME NEW out, Tell(k, out, FALSE), landed' = landed, kept => landed[s] = 0,
              swallowed \subseteq swallowed' /\ \A t \in Steps : HeldThen(t)
       PROVE  OnceInv'
  <2>1. kept => ~(landed[s] > 0)
    BY <1>8
  <2>2. QED
    BY <1>7, <1>8, <2>1
<1>9. ASSUME NEW pc \in {"work", "captured", "cleared", "refused"}, Move(k, pc), landed' = landed,
             swallowed \subseteq swallowed' /\ \A t \in Steps : HeldThen(t),
             kept => landed[s] = 0,
             pc = "cleared" /\ s \notin swallowed' =>
               /\ Announced(read'.step[s]) /\ Announced(safe'.step[s])
               /\ Announced(stem'.step[s])
      PROVE  OnceInv'
  <2>1. /\ agents'["past"] = agents["past"] /\ agents'["now"].step = s /\ agents'["now"].pc = pc
    BY <1>1, <1>2, <1>9 DEF Move, AgentStates
  <2>2. s \notin swallowed' => kept
    BY <1>9
  <2>3. QED
    BY <1>1, <1>3, <1>9, <2>1, <2>2, AwaitedStep DEF AgentHeld
<1>10. a.pc \in {"guard", "work", "captured", "cleared", "refused"} => (kept => landed[s] = 0)
  BY <1>3 DEF AgentHeld
<1>11. CASE DeclareGuarded(k)
  BY <1>2, <1>6, <1>9, <1>10, <1>11 DEF DeclareGuarded
<1>12. CASE Works(k)
  <2>1. /\ kept => landed[s] = 0
        /\ landed' = landed /\ swallowed \subseteq swallowed' /\ \A t \in Steps : HeldThen(t)
    BY <1>2, <1>5, <1>10, <1>12 DEF Works
  <2>2. Move(k, "captured") \/ \E out : Tell(k, out, FALSE)
    BY <1>12 DEF Works
  <2>3. QED
    BY <1>8, <1>9, <2>1, <2>2
<1>13. CASE CutShort(k)
  BY <1>2, <1>5, <1>8, <1>10, <1>13 DEF CutShort
<1>14. CASE Announce(k)
  <2> DEFINE v == Intended(read, s, "apply")
  <2>1. (kept => landed[s] = 0) /\ landed' = landed
    BY <1>2, <1>10, <1>14 DEF Announce
  <2>2. CASE Flush(v) /\ Move(k, "cleared")
    <3>1. swallowed \subseteq swallowed' /\ \A t \in Steps : HeldThen(t)
      BY <1>6, <2>1, <2>2
    <3>2. v.step[s].open = "apply" /\ v.step[s].effect = "none"
      BY <1>1, IntendedView
    <3> HIDE DEF v
    <3>3. s \notin swallowed' => read'.step[s] = v.step[s] /\ stem' = read' /\ safe' = read'
      BY <1>1, <2>2 DEF Flush, Whole, Swallows, Lost
    <3>4. QED
      BY <1>9, <2>1, <2>2, <3>1, <3>2, <3>3 DEF Announced
  <2>3. CASE FlushFails(v) /\ Tell(k, "fatal", FALSE)
    BY <1>6, <1>8, <2>1, <2>3
  <2>4. QED
    BY <1>2, <1>14, <2>2, <2>3 DEF Announce
<1>15. CASE Apply(k)
  <2>1. (kept => landed[s] = 0) /\ a.pc = "cleared" /\ UNCHANGED journalVars
    BY <1>2, <1>10, <1>15 DEF Apply
  <2>2. CASE Move(k, "refused") /\ UNCHANGED landed
    BY <1>5, <1>9, <2>1, <2>2
  <2>3. CASE Move(k, "landed") /\ landed' = [landed EXCEPT ![s] = @ + 1]
    <3>1. /\ landed' \in [Steps -> Nat] /\ (kept => landed'[s] = 1)
          /\ \A t \in Steps : t # s => landed'[t] = landed[t]
      BY <1>1, <2>1, <2>3
    <3>2. kept => Witness(read.step[s]) /\ Witness(safe.step[s]) /\ Witness(stem.step[s])
      BY <1>3, <2>1 DEF AgentHeld, Announced, Witness
    <3>3. \A t \in Steps : HeldThen(t)
      BY <1>4, <2>1, <3>1, <3>2 DEF HeldThen, Held, journalVars
    <3>4. /\ agents'["past"] = agents["past"] /\ agents'["now"].step = s /\ agents'["now"].pc = "landed"
      BY <1>1, <1>2, <2>3 DEF Move, AgentStates
    <3>5. swallowed' = swallowed
      BY <2>1 DEF journalVars
    <3>6. QED
      BY <3>1, <3>3, <3>4, <3>5, AwaitedStep DEF AgentHeld
  <2>4. QED
    BY <1>2, <1>15, <2>2, <2>3 DEF Apply
<1>16. CASE SettleApply(k)
  <2> DEFINE ok == a.pc = "landed"
             v == Effected(read, s, ok)
  <2>1. ok \in BOOLEAN /\ (kept /\ landed[s] > 0 => ok) /\ landed' = landed
    BY <1>2, <1>10, <1>16 DEF SettleApply
  <2>2. \/ Flush(v) /\ Tell(k, IF ok THEN "ok" ELSE "fatal", ok)
        \/ FlushFails(v) /\ Tell(k, "fatal", ok)
    BY <1>2, <1>16 DEF SettleApply
  <2> HIDE DEF ok
  <2>3. OnlyStep(read, v, s)
    BY <1>1, <2>1, EffectedView
  <2>4. kept => Held(v.step[s], landed[s])
    <3>1. read.step[s] \in StepViews
      BY <1>1 DEF Views
    <3>2. v.step[s] = IF read.step[s].open = "none" THEN read.step[s]
                      ELSE [read.step[s] EXCEPT !.effect = IF ok THEN "yes" ELSE "no"]
      BY <1>1, <2>1, EffectedView
    <3>3. QED
      BY <1>3, <2>1, <3>1, <3>2 DEF Held, Witness, Completed, StepViews
  <2> HIDE DEF v
  <2>5. swallowed \subseteq swallowed' /\ \A t \in Steps : HeldThen(t)
    BY <1>1, <2>1, <2>2, <2>3, <2>4, HeldLine
  <2>6. QED
    BY <1>7, <2>1, <2>2, <2>5
<1>17. QED
  BY <1>11, <1>12, <1>13, <1>14, <1>15, <1>16 DEF AgentStep

\* The engine leaves the checkout alone.
LEMMA EngineOnce ==
  ASSUME OnceInv, landed' = landed, swallowed \subseteq swallowed',
         \A t \in Steps : HeldThen(t),
         \A t \in Steps \ swallowed' : Unlaunched(t)' => Held(from'[t], landed[t]),
         agents'["past"].pc = "idle", run'.pc # "wait" => agents'["now"].pc = "idle",
         agents'["now"].pc \in {"idle", "guard"},
         agents'["now"].pc = "guard" /\ agents'["now"].step \notin swallowed'
           => landed[agents'["now"].step] = 0,
         run'.pc = "commit" /\ run'.step \notin swallowed' /\ landed[run'.step] > 0
           => result'.status = "done" \/ result'.applied
  PROVE  OnceInv'
BY DEF OnceInv, HeldThen, AgentHeld

\* A step that may run has not landed its patch: that is what the verdict is for.
LEMMA RunnableIsClean ==
  ASSUME TypeInv, OnceInv, NEW s \in Steps \ swallowed, Runnable(s)
  PROVE  landed[s] = 0
<1>1. landed[s] \in Nat /\ Unlaunched(s)
  BY DEF TypeInv, TypeOK, Runnable, Unlaunched
<1>2. SUFFICES ASSUME landed[s] > 0 PROVE FALSE
  BY <1>1
<1>3. Witness(from[s]) /\ ~Completed(from[s])
  BY <1>1, <1>2 DEF OnceInv, Held, Runnable
<1>4. Interrupted(from[s])
  BY <1>3 DEF Witness, Interrupted
<1>5. PICK p \in Presence(s) : Verdict(from[s], p) = "rerun"
  BY <1>4 DEF Runnable
<1>6. p # "not-applied"
  BY <1>2 DEF Presence
<1>7. QED
  BY <1>3, <1>5, <1>6 DEF Witness, Verdict

LEMMA SpliceOnce ==
  ASSUME TypeInv, ClaimsInv, OnceInv, NEW s \in Steps,
         RefuseStale(s) \/ Answer(s) \/ Splice(s) \/ Recover(s) \/ Launch(s) \/ NotLaunched(s)
  PROVE  OnceInv'
<1>1. /\ read \in Views /\ run \in EngineStates /\ agents \in [{"now", "past"} -> AgentStates]
      /\ run.step = s /\ run.pc = "step" /\ landed' = landed /\ from' = from
  BY DEF TypeInv, TypeOK, RefuseStale, Answer, Splice, Recover, Launch, NotLaunched, Runnable
<1>2. agents["now"].pc = "idle" /\ agents["past"].pc = "idle"
  BY <1>1 DEF OnceInv
<1>3. ASSUME NEW pc \in {"stage", "commit"}, NEW r, Give(pc, r),
             pc = "commit" => r.status = "done", UNCHANGED <<journalVars, agents>>
      PROVE  OnceInv'
  <2>1. run'.pc = pc /\ run'.step = s /\ result' = r
    BY <1>1, <1>3 DEF Give, EngineStates
  <2>2. swallowed' = swallowed /\ \A t \in Steps : HeldThen(t)
    BY <1>1, <1>3 DEF OnceInv, HeldThen, journalVars
  <2>3. \A t \in Steps \ swallowed' : Unlaunched(t)' => Held(from'[t], landed[t])
    BY <1>1, <2>1, <2>2 DEF OnceInv, Unlaunched
  <2>4. QED
    BY <1>1, <1>2, <1>3, <2>1, <2>2, <2>3, EngineOnce
<1>4. CASE RefuseStale(s) \/ Splice(s) \/ NotLaunched(s)
  BY <1>3, <1>4 DEF RefuseStale, Splice, NotLaunched
<1>5. CASE Answer(s) \/ Recover(s)
  BY <1>3, <1>5 DEF Answer, Recover, Result
<1>6. CASE Launch(s)
  <2> DEFINE v == Started(read, s)
  <2>1. (s \notin swallowed => landed[s] = 0) /\ Note(v)
    BY <1>6, RunnableIsClean DEF Launch
  <2>2. OnlyStep(read, v, s)
    BY <1>1, StartedView
  <2> HIDE DEF v
  <2>3. swallowed \subseteq swallowed' /\ \A t \in Steps : HeldThen(t)
    BY <1>1, <2>1, <2>2, HeldLine DEF Held
  <2>4. run'.pc = "wait" /\ run'.step = s
    BY <1>1, <1>6 DEF Launch, EngineStates
  <2>5. \A t \in Steps \ swallowed' : Unlaunched(t)' => Held(from'[t], landed[t])
    BY <1>1, <2>3, <2>4 DEF OnceInv, Unlaunched
  <2>6. /\ agents'["past"] = agents["past"] /\ agents'["now"].pc = "guard"
        /\ agents'["now"].step = s
    BY <1>1, <1>6 DEF Launch, Fresh, Idle
  <2>7. QED
    BY <1>1, <1>2, <2>1, <2>3, <2>4, <2>5, <2>6, EngineOnce
<1>7. QED
  BY <1>4, <1>5, <1>6

LEMMA AttemptOnce ==
  ASSUME Supervised, TypeInv, ClaimsInv, OnceInv, Retry \/ RetryContract \/ Returned \/ TimesOut
  PROVE  OnceInv'
<1>1. ~RetryContract /\ ~TimesOut
  BY DEF Supervised, RetryContract, TimesOut
<1>2. /\ run \in EngineStates /\ agents \in [{"now", "past"} -> AgentStates] /\ run.step \in Steps
      /\ run.pc = "wait" /\ landed' = landed /\ from' = from /\ UNCHANGED journalVars
      /\ agents["now"].step = run.step /\ agents["now"].pc = "told" /\ agents["past"].pc = "idle"
      /\ landed \in [Steps -> Nat]
  BY <1>1 DEF TypeInv, TypeOK, EngineStates, ClaimsInv, OnceInv, Retry, Again, Returned
<1>3. run.step \notin swallowed =>
        /\ landed[run.step] > 0 => agents["now"].applied
        /\ agents["now"].out \in {"transient", "fresh"} => landed[run.step] = 0
  BY <1>2 DEF OnceInv, AgentHeld
<1>4. swallowed' = swallowed /\ \A t \in Steps : HeldThen(t)
  BY <1>2 DEF OnceInv, HeldThen, journalVars
<1>5. CASE Retry
  <2>1. agents["now"].out \in {"transient", "fresh"}
    BY <1>5 DEF Retry, Retriable
  <2>2. run'.pc = "wait" /\ run'.step = run.step
    BY <1>2, <1>5 DEF Retry, Again, EngineStates
  <2>3. /\ agents'["past"] = agents["past"] /\ agents'["now"].pc = "guard"
        /\ agents'["now"].step = run.step
    BY <1>2, <1>5 DEF Retry, Again, Fresh, Idle
  <2>4. \A t \in Steps \ swallowed' : Unlaunched(t)' => Held(from'[t], landed[t])
    BY <1>2, <1>4, <2>2 DEF OnceInv, Unlaunched
  <2>5. QED
    BY <1>2, <1>3, <1>4, <2>1, <2>2, <2>3, <2>4, EngineOnce
<1>6. CASE Returned
  <2>1. run'.pc = "commit" /\ run'.step = run.step /\ result'.applied = agents["now"].applied
    BY <1>2, <1>6 DEF Returned, Give, Result, Unparkable, EngineStates
  <2>2. agents'["now"].pc = "idle" /\ agents'["past"] = agents["past"]
    BY <1>2, <1>6 DEF Returned, Idle
  <2>3. \A t \in Steps \ swallowed' : Unlaunched(t)' => Held(from'[t], landed[t])
    BY <1>2, <1>4, <2>1 DEF OnceInv, Unlaunched
  <2>4. QED
    BY <1>2, <1>3, <1>4, <2>1, <2>2, <2>3, EngineOnce
<1>7. QED
  BY <1>1, <1>5, <1>6

LEMMA CommitOnce ==
  ASSUME TypeInv, OnceInv, Commit
  PROVE  OnceInv'
<1> DEFINE v == Terminal(read, run.step, result.status, result.applied)
<1>1. /\ read \in Views /\ run \in EngineStates /\ run.step \in Steps /\ run.pc = "commit"
      /\ result.status \in Statuses /\ result.applied \in BOOLEAN
      /\ UNCHANGED <<from, result, agents, landed>>
  BY DEF TypeInv, TypeOK, CommitOK, Commit, EngineStates, Results
<1>2. /\ OnlyStep(read, v, run.step)
      /\ v.step[run.step] = [last |-> result.status, applied |-> result.applied,
                             open |-> "none", effect |-> "none"]
  BY <1>1, TerminalView
<1>3. Flush(v) \/ FlushFails(v)
  BY DEF Commit
<1> HIDE DEF v
<1>4. run.step \notin swallowed => Held(v.step[run.step], landed[run.step])
  BY <1>1, <1>2 DEF OnceInv, Held, Witness, Completed
<1>5. swallowed \subseteq swallowed' /\ \A t \in Steps : HeldThen(t)
  BY <1>1, <1>2, <1>3, <1>4, HeldLine
<1>6. run'.pc = "stage" /\ run'.step = run.step
  BY <1>1 DEF Commit, EngineStates
<1>7. \A t \in Steps \ swallowed' : Unlaunched(t)' => Held(from'[t], landed[t])
  BY <1>1, <1>5, <1>6 DEF OnceInv, Unlaunched
<1>8. agents'["now"].pc = "idle" /\ agents'["past"].pc = "idle"
  BY <1>1 DEF OnceInv
<1>9. QED
  BY <1>1, <1>5, <1>6, <1>7, <1>8, EngineOnce

\* A line about no step keeps every view held.
LEMMA RunLineOnce ==
  ASSUME TypeInv, OnceInv, run.pc # "wait", NEW v \in Views, v.step = read.step,
         Flush(v) \/ FlushFails(v) \/ Note(v), UNCHANGED <<agents, landed>>,
         run'.pc \notin {"wait", "commit"},
         \A t \in Steps \ swallowed : Unlaunched(t)' => Held(from'[t], landed[t])
  PROVE  OnceInv'
<1>1. /\ read'.step \in {read.step, stem.step} /\ stem'.step \in {stem.step, read.step}
      /\ safe'.step \in {safe.step, stem.step, read.step}
  BY LineWritten
<1>2. swallowed \subseteq swallowed'
  BY DEF Flush, FlushFails, Note, Breaks, Swallows
<1>3. \A t \in Steps : HeldThen(t)
  BY <1>1, <1>2 DEF OnceInv, HeldThen
<1>4. agents'["now"].pc = "idle" /\ agents'["past"].pc = "idle"
  BY DEF OnceInv
<1>5. QED
  BY <1>2, <1>3, <1>4, EngineOnce

LEMMA StageEndOnce ==
  ASSUME TypeInv, OnceInv, StageEnd
  PROVE  OnceInv'
<1>1. /\ run \in EngineStates /\ run.step \in Steps /\ run.pc = "stage"
      /\ UNCHANGED <<journalVars, from, agents, landed>>
  BY DEF TypeInv, TypeOK, StageEnd, EngineStates
<1>2. /\ agents'["now"].pc = "idle" /\ agents'["past"].pc = "idle"
      /\ swallowed' = swallowed /\ \A t \in Steps : HeldThen(t)
  BY <1>1 DEF OnceInv, HeldThen, journalVars
<1>3. /\ run'.pc \in {"close", "ask", "enter"}
      /\ \A t \in Steps : Unlaunched(t)' => Unlaunched(t)
  <2>1. CASE \E status \in Statuses : Finish(status)
    BY <1>1, <2>1, FinishTyped DEF Finish, Unlaunched
  <2>2. CASE run' = [run EXCEPT !.pc = "ask"]
    <3>1. run'.pc = "ask" /\ run'.step = run.step
      BY <1>1, <2>2 DEF EngineStates
    <3>2. QED
      BY <1>1, <3>1 DEF Unlaunched
  <2>3. CASE run' = [run EXCEPT !.pc = "enter", !.step = @ + 1,
                         !.seeds = run.seeds \cup (IF result.applied THEN {run.step} ELSE {}),
                         !.tries = 0, !.recontracted = FALSE, !.refreshed = FALSE]
    <3>1. run'.pc = "enter" /\ run'.step = run.step + 1
      BY <1>1, <2>3 DEF EngineStates
    <3>2. QED
      BY <1>1, <3>1, WorkflowAssumption DEF Unlaunched, Steps
  <2>4. QED
    BY <2>1, <2>2, <2>3 DEF StageEnd, Statuses
<1>4. \A t \in Steps \ swallowed' : Unlaunched(t)' => Held(from'[t], landed[t])
  BY <1>1, <1>2, <1>3 DEF OnceInv
<1>5. QED
  BY <1>1, <1>2, <1>3, <1>4, EngineOnce

LEMMA ParkOnce ==
  ASSUME TypeInv, OnceInv, Park \/ StageLines \/ LastLine
  PROVE  OnceInv'
<1>1. /\ read \in Views /\ run \in EngineStates /\ UNCHANGED <<from, agents, landed>>
      /\ run.step \in Steps /\ run.pc # "wait"
  BY DEF TypeInv, TypeOK, Park, StageLines, LastLine, EngineStates
<1>2. \E v \in Views : v.step = read.step /\ (Flush(v) \/ FlushFails(v) \/ Note(v))
  <2>1. CASE Park
    BY <1>1, <2>1, RunLineView DEF Park
  <2>2. CASE StageLines
    BY <1>1, <2>2 DEF StageLines
  <2>3. CASE LastLine
    BY <1>1, <2>3, RunLineView DEF LastLine, TypeInv, CommitOK
  <2>4. QED
    BY <2>1, <2>2, <2>3
<1>3. run'.pc \notin {"wait", "commit"} /\ \A t \in Steps : Unlaunched(t)' => Unlaunched(t)
  <2>1. CASE Park
    <3>1. \E status \in Statuses : Finish(status)
      BY <2>1 DEF Park, FailedOrCancelled, Statuses
    <3>2. run'.pc = "close" /\ run'.step = run.step /\ run.pc = "ask"
      BY <1>1, <2>1, <3>1 DEF Finish, Park, EngineStates
    <3>3. QED
      BY <3>2 DEF Unlaunched
  <2>2. CASE StageLines
    <3>1. /\ run.pc \in {"enter", "close"} /\ run'.step = run.step
          /\ run'.pc = IF run.pc = "enter" THEN "step" ELSE "end"
      BY <1>1, <2>2 DEF StageLines, EngineStates
    <3>2. QED
      BY <3>1 DEF Unlaunched
  <2>3. CASE LastLine
    <3>1. run'.pc = "off"
      BY <1>1, <2>3 DEF LastLine, EngineStates
    <3>2. QED
      BY <3>1 DEF Unlaunched
  <2>4. QED
    BY <2>1, <2>2, <2>3
<1>4. \A t \in Steps \ swallowed : Unlaunched(t)' => Held(from'[t], landed[t])
  BY <1>1, <1>3 DEF OnceInv
<1>5. QED
  BY <1>1, <1>2, <1>3, <1>4, RunLineOnce

LEMMA WorldOnce ==
  ASSUME TypeInv, OnceInv, Forgotten \/ Cancel \/ Crash \/ Resume \/ Abandon
  PROVE  OnceInv'
<1>1. /\ read \in Views /\ run \in EngineStates /\ agents \in [{"now", "past"} -> AgentStates]
      /\ landed' = landed /\ Idle.pc = "idle"
  BY DEF TypeInv, TypeOK, Forgotten, Cancel, Crash, Resume, Abandon, Idle
<1>2. ~Forgotten
  BY DEF Forgotten, OnceInv
<1>3. CASE Cancel
  <2>1. run'.pc = run.pc /\ run'.step = run.step /\ UNCHANGED <<journalVars, from, result>>
    BY <1>1, <1>3 DEF Cancel, EngineStates
  <2>2. /\ agents'["past"] = agents["past"] /\ agents'["now"].pc = agents["now"].pc
        /\ agents'["now"].step = agents["now"].step /\ agents'["now"].out = agents["now"].out
        /\ agents'["now"].applied = agents["now"].applied
    BY <1>1, <1>3 DEF Cancel, AgentStates
  <2>3. QED
    BY <1>1, <2>1, <2>2 DEF OnceInv, AgentHeld, Unlaunched, journalVars
<1>4. CASE Crash
  <2>1. run'.pc = "off" /\ UNCHANGED <<safe, swallowed>>
    BY <1>1, <1>4 DEF Crash, EngineStates
  <2>2. read' \in {read, safe} /\ stem' \in {stem, safe}
    BY <1>4 DEF Crash
  <2>3. agents'["now"].pc = "idle" /\ agents'["past"].pc = "idle"
    BY <1>1, <1>4 DEF Crash
  <2>4. \A t \in Steps : HeldThen(t)
    BY <1>1, <2>1, <2>2 DEF OnceInv, HeldThen
  <2>5. QED
    BY <1>1, <2>1, <2>3, <2>4, EngineOnce DEF Unlaunched
<1>5. CASE Resume
  <2>1. /\ run.pc = "off" /\ run'.pc = "enter" /\ UNCHANGED <<journalVars, agents>> /\ from' = read.step
    BY <1>5 DEF Resume, Resumable, Engine
  <2>2. /\ swallowed' = swallowed /\ \A t \in Steps : HeldThen(t)
        /\ \A t \in Steps \ swallowed : Held(from'[t], landed[t])
    BY <1>1, <2>1 DEF OnceInv, HeldThen, journalVars
  <2>3. agents'["now"].pc = "idle" /\ agents'["past"].pc = "idle"
    BY <2>1 DEF OnceInv
  <2>4. QED
    BY <1>1, <2>1, <2>2, <2>3, EngineOnce
<1>6. CASE Abandon
  <2>1. /\ run.pc = "off" /\ run'.pc = "end" /\ UNCHANGED agents /\ from' = read.step
    BY <1>6 DEF Abandon, Resumable, Engine
  <2>2. /\ Abandoned(read) \in Views /\ Abandoned(read).step = read.step
    BY <1>1, RunLineView
  <2>3. \A t \in Steps \ swallowed : Held(from'[t], landed[t])
    BY <2>1 DEF OnceInv
  <2>4. QED
    BY <1>1, <1>6, <2>1, <2>2, <2>3, RunLineOnce DEF Abandon
<1>7. QED
  BY <1>2, <1>3, <1>4, <1>5, <1>6

LEMMA OnceInit == Init => OnceInv
BY DEF Init, OnceInv, Engine, NoResult, Idle, Held, AgentHeld

LEMMA OnceStep == Supervised /\ TypeInv /\ ClaimsInv /\ OnceInv /\ [Next]_vars => OnceInv'
<1> SUFFICES ASSUME Supervised, TypeInv, ClaimsInv, OnceInv, [Next]_vars PROVE OnceInv'
  OBVIOUS
<1>1. CASE \E k \in {"now", "past"} : AgentStep(k)
  BY <1>1, AgentOnce
<1>2. CASE EngineStep
  BY <1>2, SpliceOnce, AttemptOnce, CommitOnce, StageEndOnce, ParkOnce DEF EngineStep
<1>3. CASE Forgotten \/ Cancel \/ Crash \/ Resume \/ Abandon
  BY <1>3, WorldOnce
<1>4. CASE UNCHANGED vars
  BY <1>4 DEF vars, OnceInv, Unlaunched
<1>5. QED
  BY <1>1, <1>2, <1>3, <1>4 DEF Next

\* While every runner is awaited, no crash, power cut, failing write, cancel,
\* edit or resume puts a step's patch into the checkout a second time, unless a
\* line about that step was run into a torn one.
THEOREM NoPatchTwice == ASSUME Supervised PROVE Spec => []AppliedOnce
<1>1. OnceInv => AppliedOnce
  BY DEF OnceInv, AppliedOnce
<1>2. TypeInv /\ ClaimsInv /\ OnceInv /\ [Next]_vars => OnceInv'
  BY OnceStep
<1>3. QED
  BY TypeInit, TypeStep, ClaimsInit, ClaimsStep, OnceInit, <1>1, <1>2, PTL DEF Spec

\* ... and at every instant the flushed journal alone accounts for each patch, of
\* the steps no torn line has swallowed a line about.
THEOREM PatchesAreWitnessed == ASSUME Supervised PROVE Spec => []LandedIsWitnessed
<1>1. OnceInv => LandedIsWitnessed
  BY DEF OnceInv, LandedIsWitnessed, Held
<1>2. TypeInv /\ ClaimsInv /\ OnceInv /\ [Next]_vars => OnceInv'
  BY OnceStep
<1>3. QED
  BY TypeInit, TypeStep, ClaimsInit, ClaimsStep, OnceInit, <1>1, <1>2, PTL DEF Spec
=============================================================================
