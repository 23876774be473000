# Arcturn in TLA+

Arcturn is a coding agent: a TypeScript monorepo with an agent runtime (`packages/core`), a
server that keeps sessions live for several clients (`packages/server`), a command line program
with a workflow engine (`packages/cli`), providers, tools, an MCP bridge and a VS Code extension.
This directory models the parts where order, failure and concurrency decide whether a
conversation or a change to the user's files survives: the run of an agent, the session it
records, the file it is recorded in, the permissions of its calls, the server that hands runs to
clients and the connection they use, the workflow engine with its journal, and teams of agents.

JavaScript runs one callback at a time, so a step of every model is the code between two `await`s.
Between steps anything else that may run does run: another client's request, a sibling tool call,
a timer, a second process, a death.

## 1. Inventory

Paths are below `packages/` unless they say otherwise.

| Component | State it keeps | Operations | What is hard, and what makes it correct |
|---|---|---|---|
| Agent run: `core/src/agent.ts`, `loop.ts`, `util/content.ts` | `#messages`, `#steering`, `#running`, `#abort`; the locals of `runLoop` | `prompt`, `steer`, `abort`; stream a turn, dispatch a batch, settle dangling calls, warn, nudge, pause | An abort or a steer at any await; a throw in mid-batch. Every call has its result, no steer is lost, an aborted run does not complete, the ceiling is announced, every run ends |
| Agent session: `agent.ts`, `compaction.ts`, `session/tree.ts` | `#lastEntryId`, `#entryIds`, `#stateWrites`, the entry tree | append a message or state, compact, materialise a branch, resume | Snapshot, await, splice; failed writes; a death between stamp and write. The live conversation is what a resume rebuilds, a summary stands only for what it was written from |
| Session store: `core/src/session/jsonl-store.ts` | one JSONL file per session, `writeQueues` | `create`, `append`, `setTitle`, `delete`, `open`, `entries`, `list` | Torn lines, check-then-open, a second process. An acknowledged entry stays, once and in order; the file stays readable |
| Session host: `server/src/session-host.ts` | `#sessions`, `#opening`, `#workflowRuns`; per session `starting`, `pendingPermissions`, `steerTail`, `agent` | create, open, delete, prompt, steer, abort, compact, rewind, run a workflow, decide a permission, and many reads | Check-then-await with several clients. One run per session, a run always reachable from its session, a deleted session stays deleted |
| Permission engine: `core/src/permissions.ts` | rules, mode, per-call cache | `check`, `ask`, `addRule`, `clearCallCache` | Rules of several scopes over chained commands; a rule persisted while its sibling asks. Only a strictly more specific rule outranks a deny; a cached answer is for this tool and subject |
| Context shaping and sub-agents: `core/src/context-edit.ts`, `deferred-tools.ts`, `offload.ts`, `subagent.ts` | mostly none | edits of an outgoing request | Pure functions. Calls and results stay paired |
| Transport: `server/src/ws-server.ts`, `auth.ts` | per-socket subscriptions, backpressure clock | authenticate, dispatch, push, drop, terminate | A slow client; a delete seen by every connection. Answers are never dropped, only a stuck client is cut off, no record of a session outlives it |
| Server features: `dry-run.ts`, `rewind.ts`, `session-history.ts`, ... | none of their own | previews, exports, interfaces the CLI fills in | Stale previews: a confirmation is for the plan it was shown with |
| Protocol: `protocol/src/client.ts`, `framing.ts`, `validate.ts` | pending map, outbox, subscriptions | request, push, close | Deadline, answer and close race. A request settles once and leaves nothing behind |
| Workflows: `cli/src/workflow.ts`, `workflow-run.ts` | the run journal, the seeds of a role's worktree | run, park, answer, resume, abandon | A crash, a power cut or a torn line between intent, patch and record; a runner abandoned at its deadline. A patch is applied once, what is done is not paid for again |
| Teams: `cli/src/team.ts` | the record in memory and on disk, `LiveTeam`, worktrees, patch files | start, cancel, recover, merge, discard | Concurrent spending; a death or a full disk between worktree, patch and record. Disjoint scopes, a ceiling that holds, no work lost, "merged" is true |
| Background agents, scouts, speculation: `cli/src/background-agents.ts`, ... | delegations | start, poll, cancel | Late results |
| Checkpoints: `cli/src/checkpoints.ts` | file snapshots per turn | snapshot, rewind | A rewind restores exactly what the turn changed |
| Command line program: `cli/src/runtime.ts`, `serve.ts`, `config.ts`, ... | configuration | wiring | I/O around the above |
| Providers: `ai/src` | none between requests | stream, retry, fail over | No failover after output |
| MCP, tools, index, evals, tui, types, `editors/vscode`, `kits`, `web` | various | I/O, parsing, rendering | See `components` in PROJECT.json |

How they interact. A client's request reaches the host (transport, protocol). The host finds or
builds a live session around one agent, claims it and calls `Agent.prompt`. The run appends
messages through `#appendMessage` to the live array and, by way of `#stamp` and `#write`, to the
store; before a turn it may compact; each tool call passes the before-hook, the permission engine
(which may ask the client through the host's pending map), the tool and the after-hook. Rewind
and delete replace or remove the agent while requests still hold the live session.

## 2. Modules

The modules share no variables. Where one needs another part it has that part's interface only,
and says so: `AgentRun` takes compaction as an await, `AgentSession` takes any legal
order of messages as the run, `SessionHost` reduces an agent to its run and a store to the set of
its sessions, `Connection` reduces the host to which sessions are stored, opening, live and
running. This keeps each within reach of TLC and of the provers. Two abstract specifications say
what a component promises without its machinery: `AgentRun` implements `Conversation`,
`SessionStore` implements `EntryLog`.

### AgentRun (`agent.ts` 601-717, `loop.ts` 306-968)

| Model | Code |
|---|---|
| `phase`, `todo` | the program counter of `prompt`/`runLoop`, and the messages a `for ... await appendMessage` still has to append |
| `history`, `steering` | `#messages`, `#steering` |
| `run`, `aborted`, `late` | which `AbortController` is current, which are aborted, which of those by a listener of the run's last event |
| `turn`, `pauses`, `nudged`, `warnedAt`, `noticed` | `turnIndex`, `pauses`, `justNudged`, the once-only flag of the ceiling warning, `sentProgressWarnings` |
| `call`, `parallel` | each `executeToolCall` in flight and its stage (hook, check, execute, finish); `parallelTools` |
| `Prompt`, `Steer`, `Abort` | the three methods; they run between any two steps |
| `Open`, `AppendOne`, `Seed` | `#ensureSession`, `#appendMessage`, the reminder of stale todos |
| `TopOfTurn` ... `Receive` | the top of `runLoop` up to the settled stream |
| `SettleFailed` ... `Finish` | the early returns after a reply, in their order |
| `Dispatch` ... `AfterBatch` | `runToolBatch`, its results, the steering after it |
| `OpenFails`, `AppendFails`, `CallThrows` | rejections caught by `prompt`'s `catch` |

A reply is any stop reason with no content, hidden content, text, or up to `BatchSize` calls. A
message is a role, a tag and the calls it asks for or answers. A throw in a parallel batch leaves
sibling calls running without a run (`StrayEnds`), as `Promise.all` does. Listeners run inside `emit`. For an event with an await or a
check of the signal behind it that is an `Abort` between two steps; behind the last `turnEnd` there is
neither, so the steps that end a run as completed or at the ceiling take it in
(`ListenersMayAbort`, as the cost guard and a team's ceiling do). No listener of the code steers. The ghosts
are `steered` (calls of `steer` so far), `lost` (steers that went with a run that threw), `crashes`
(where in the history an exception ended a run) and `late`. Two bounds make the replies finite: behind
`MaxReplies` of them the model just answers, and no run has more than its ceiling allows.

### AgentSession (`agent.ts` 340-383, 719-842, 975-1107, `compaction.ts` 197-496, `session/tree.ts`)

`file` and `pending` are the entries in the session file and those stamped whose write has not
settled; `last` is `#lastEntryId`, `linked` what `#entryIds` knows, `poisoned` a failed write that
sits in `#stateWrites`, `open` a call of the run's last message that has no result yet, `fold` a
compaction under way, by the run or by the host. `StartFold` takes the snapshot and the cut,
`SummaryArrives` or `SummaryRefused` ends the model call, and the splice is part of
`WriteReaches`, as it follows the awaited append. The cut is any that `findCompactionCut` may
choose, not the one a token estimate picks. `PathToLeaf` and `Materialize` are the loops of
`pathToLeaf` and `materializeBranch`, `WithoutThinking` the filter over a stripped tail, all as
recursive functions. An entry whose write is rejected is taken as not in the file; `SessionStore` shows
that it may be there nevertheless, when the close behind it throws. `KillAndResume` drops memory and pending writes and resumes from the latest
entry or any older one. What a summary says is the set of messages it was written from (`covers`)
and whether its stream was cut short (`cut`). A compaction is `stale` when its snapshot is no
longer the conversation, because something was said or folded meanwhile; its entry keeps the mark,
which no reader looks at. The exemption is wide: behind a stale compaction a wrong link of the entry
(`agent.ts` 1084-1088) would not be noticed either. Two compactions by the host at once are not modelled.

### SessionStore (`session/jsonl-store.ts`)

A line is two halves and a newline, so that a torn line, a whole line and two glued lines differ.
Lines are positions in a content: `Starts` says where the lines that are not blank begin, `LineAt`
gives the one that begins there. A truncation past the end of a file extends it (`Fill`), as POSIX
has it.
Files are inodes: a handle opened before a rename or a delete writes to the file it opened. `ops`
holds every call with the step it is at, `tail` the last of the promise chain in `writeQueues`.
`append` is `Access`, `Look` and, over a torn tail, `Settle`, `Stat`, `Truncate`, then `Open`,
`Write`. Any step may throw before it has changed anything (`Throws`), and a write may be short: the
next one, or the close, then ends the line or throws (`Write`, `Truncate`), which rejects the append
in a process that lives on, with what was written left in the file. `Crash` stops a process's operations where they are. `overtaken`
is a ghost: a delete removed the file under a later call that was past its guard.

### SessionHost (`server/src/session-host.ts`)

`sessions` maps an id to a live object, `objs` and `agents` hold every live session and agent ever
made, because requests keep hold of them; `calls` are the requests in flight. The first half
of a request is its action on the id, up to the first await; what follows each await is
an action on the call: `CreateSession` then `FileCreated` then `Registered`; `OpenSession` then
`OpenReads` twice then `Registered`; `DeleteSession` then `Deleted` (with `#evict`); `Prompt` then
`ContentRefused` or `ContentReady`, then `RunOpens` and `RunEnds`; `RewindTo` then `RewindListed`
then `Swapped` or `FilesOnly`. `Ask`, `Decide` and `TimesOut` are the permission bridge, `Steer`,
`SteerStarts` and `SteerSettles` the chain in `steerTail`: a steer takes its agent before the await that
resolves its content (`taken`), and a rewind may retire that agent meanwhile. The ghosts are `deleted` and `crossed` (sessions
prompted or opened while being deleted).

### Conversation, implemented by AgentRun

A transcript of roles in which a reply's calls are answered, in order, before anything else is
said or asked, and every steered message is heard once, in its turn. What is owed, queued or heard
are sets of numbers, as nothing but their order is told apart. `AgentRun!Talk` maps
`history` with the messages still to append to `transcript` and `owed`, and the calls of `steer`
to `given`, `queue` and `heard`; a run that throws is the one step (`Throw`) that may owe nothing
for an unanswered call. `ImplementsConversation` is the refinement.

### EntryLog, implemented by SessionStore

An append-only log: an entry is stored behind all earlier calls' entries or not at all, what was
refused is there when it is refused (its write was whole and the close threw) or is never found,
what was acknowledged stays until a delete removes everything. The map
reads the file as `readSession` would. It is checked for one process; for two it does not hold
(section 3, reproductions).

### Permissions (`core/src/permissions.ts` 471-881)

`rules`, `mode` and `cache` are the engine's fields; `checks` holds every `check` with where it is
(asking, storing, settled, thrown) and `by`, the check whose decision it was given. `MatchRules`
is `matchRules`: candidates sorted by scope, then specificity, then action; `First` the winner,
`Outranks` the comparison with the best deny. `ActionFor` is the choice over the spellings of a
symlinked subject, `Verdict` is `#resolve` with its modes. `Check` runs to the first await: it
finds the cache, decides, or asks; `Answer` is the requester's reply and what is cached or
persisted after it, `Stored` the store's. `EndCall` is `clearCallCache`. A subject is the set of
shell segments of a command; a specifier is anything, a prefix that covers some segments, or one
exact subject. Cached answers emit no `permissionDecision`, a throwing `onPersistRule` emits none
and leaves its rule in force, two checks of one key may both ask, and nothing re-evaluates an ask
when the mode changes: all of this is in the model, none of it is promised.

### Connection (`protocol/src/client.ts`, `server/src/ws-server.ts`)

Both ends of a socket, each direction a queue; what the server wrote and the client has not read
is its `bufferedAmount`. On the client: `Call`, the handshake that the first call starts and the
others wait for (`Dispatch`, `FailWaiting`), `outbox` until the socket is open, `Deadline`,
`Receive`, `Close`, `SeeClose`. On the server: the connection cap, `Authenticate`, `ServeOpen`,
`ServePrompt`, `ServeDelete` up to their first await and what follows it (`OpeningReads`,
`OpeningRegisters`, `Attach`, `DeleteReaches`, `Detach`), `Emit` and `RunEnds` to the observers,
and `Send`, which drops events above the threshold, never answers, and terminates a connection that
has been above it for `Sustained`. `clear` and `cut` are ghosts. Known and in the model: a request
whose deadline fires in the outbox is still sent once the socket opens; a termination happens only
at a next send. Left out: `#supportsContext`, which memoises "supported" also after a probe that
failed for a passing reason (`client.ts` 1266-1297), and the answer `invalidRequest` of a server
without a token to `authenticate`.

### WorkflowRun (`cli/src/workflow.ts`, `workflow-run.ts`)

One run of a workflow whose stages have one step each, every step a role on the write lane. The
journal is kept as what `buildResumeState` folds it to, twice: `read` is the fold of every line,
`safe` of the lines that were flushed; `Flush` is `appendDurable`, `Note` is `append`, and a power
cut (`Crash`) leaves `safe`. A write that fails leaves nothing, the whole line, part of it, or all
but its newline (`Breaks`). Nothing repairs the tail: `torn` says that the file ends in such a piece, `stem`
is the fold of the lines before it, and the next line, a flushed one too, is run into the piece and lost
with it (`Whole`). The ghosts `swallowed` and `committed` name the steps of which that lost a line
and those whose intent was acknowledged. `StageLines` and `LastLine` stand for lines that no fold keeps a
step in, but that a torn line may swallow as well. `run` is the engine of the process that has the run: `Launch`
and what precedes it (`RefuseStale`, `Splice`, `Recover`, `Answer`), the retry loop (`Retry`,
`RetryContract`, `TimesOut`), `Commit` (`commitStepEnd`), `StageEnd`, `Park`, `Finish`, `LastLine`. `agents` is
the runner of the step: it works, announces its patch (`Announce`, durable), applies it, tells
(`Tell`); one abandoned at its deadline goes on as `agents["past"]`. `Resume` is the resume command
with its fold, `Abandon` the human's other answer. `Verdict` is `decideInterruptedStep`. `landed`
counts, per step, patches in the checkout. Known and in the model: a cancel that arrives while the
intent is being flushed still applies the patch (`workflow.ts` 8444-8448); a step that failed its
contract after its patch landed is spliced as failed at every resume, so that "retry" never clears
it; an ask whose `stepEnd` could not be written parks without a question.

### Team (`cli/src/team.ts`)

| Model | Code |
|---|---|
| `record`, `saved` | the `StoredTeam` in memory, and the file `#persist` wrote last |
| `plan`, `run` | `lastParsed`; where `start` and `#dispatch` are, with the `LiveTeam` (`cut` is `cutoffReason`, `next` the shared index, `limit` the pool) |
| `work`, `agents` | each member's `#runMember` by its awaits, and the agent it spawned |
| `worktree`, `patches`, `landed` | the disk: worktrees, patch files, the user's tree |
| `recovery`, `calls` | `#runRecovery` by its awaits; merges and discards in flight |
| `Valid`, `RepairTeamPlan` | `validateTeamPlan`, `repairTeamPlan` with its union-find |
| `Start` ... `Conclude` | `start`, `#decompose`, the workers, `#runMember`, the end of `#dispatch` |
| `CaptureThrows`, `StartRejects`, `RecoveryThrows`, `MergeRejects` | `#writePatch` throws: the worker, `Promise.all` and `start` reject while the other workers go on; a recovery and the merges that await it reject |
| `Cancel`, `Interrupt` | `cancel`, and the caller's signal |
| `Recover` ... `RecoveryEnds`, `Crash`, `Restart` | `recover`; a death; `#load` in a later process |
| `Merge` ... `DiscardEnds` | `merge` and `discard`, a step per await |

The loops of `repairTeamPlan` (the union-find over all pairs, the groups in the order they are met)
and the sum of the members' costs are recursive functions over the index of the loop (`Find`,
`JoinRow`, `Roots`, `Firsts`, `Spent`).

A scope is its literal prefix. A turn costs one unit or nothing, when nobody can price it. The
ghosts are `made` (members whose agent changed files while it was awaited), `unsaved` (git gave no
diff, or the disk did not take the patch: the worktree is destroyed all the same), `unwanted` (discarded) and `blind` (members
whose worktree was gone, at a death, before the saved record named the patch). What is left out:
an abandoned agent goes on writing into a directory that is being removed; the `members` option,
which no command passes; a record that cannot be written (a patch that cannot is in); several teams; a second living
process. `merge` and `discard` do not look at the owner of a record, and `discard` does not await
`recover` although the comment of `ownerPid` says so (`team.ts` 1049). In the model and
promised by nobody: a patch that was applied when the process died is refused by every later merge, which
stops there; a discard of a running team is overwritten by the end of its dispatch.

### MC modules

`MCAgentRun`, `MCAgentSession`, `MCSessionStore`, `MCSessionHost`, `MCConnection`,
`MCWorkflowRun`, `MCPermissions` and `MCTeam` extend the modules and declare the model values of
the configs; `MCTeam` also names the plans a supervisor may answer. No definition is replaced.
Definitions commented "Mutant:" are plausible bugs; no action uses them, and each is paired in
PROJECT.json with the property that notices it.

## 3. Runs

All bounds are constants of the modules, named in their guards. `CHECK_DEADLOCK FALSE` stands in
every config because every system here may stop: callers make finitely many calls within the
bounds, after which an idle agent, session, store or host has nothing to do.

| Run | Bounds | What it shows |
|---|---|---|
| `AgentRun` | 3 turns, 2 calls a batch, 3 replies, so that every turn may call tools, 1 prompt, 2 steers, 1 pause, every fault | `TypeOK`, `CallsAnswered`, `SteeringKept`, `AbortedNeverCompletes`, `CeilingAnnounced`, `OutcomeIsHonest` with steers and an abort at every await; `RunEnds`, which only the ceiling ensures |
| `AgentRunTwice` | 2 turns, 2 prompts, 1 steer, 1 notice, every fault | `ImplementsConversation` over two runs, strays of the first beside the second |
| `AgentSession` | 5 entries, 1 death, every write may fail | `LiveIsReplay`, `FoldsOnlyWhatWasRead`, `NothingForgotten`, `RoundsStayTogether` |
| `SessionStore` | 1 process, 5 operations, 1 death, 1 write that is short or step that throws, 2 repair attempts | `HeaderFirst`, `ImplementsEntryLog`; `EveryCallSettles` |
| `SessionHost` | 2 sessions (one stored), a cap of 1, 4 requests with awaits, 2 steers; aborts, asks and workflows unbounded | `AcceptedPromptsRun`, `RunsServed`, `DeletedUncrossed`, `SteersInOrder`, `FlowsServed` |
| `Connection` | 1 client with a right, wrong or no token, 2 calls, 3 events, 2 ticks, a threshold of 1 frame | `OwnAnswer`, `HandshakeFirst`, `AnswersKept`, `OnlyTheStuckAreCut`; `EveryCallSettles` |
| `ConnectionShared` | 2 clients, 1 session, 2 calls, a cap of 1 or 2 | `NoStaleRecord` |
| `WorkflowRun` | 2 steps, 1 retry, 3 processes, 1 failing write with every tail it may leave; crashes, cancels, edits, a checkout that moved | `AppliedOnce`, `LandedIsWitnessed`, `RerunIsJustified` |
| `WorkflowRunLate` | 2 steps, 1 retry, 2 processes; crashes, cancels, deadlines, missed contracts, a checkout that moved | `TypeOK`, `SeedsLanded`; `RunSettles` |
| `Permissions` | 3 tools, 2 segments, 2 scopes with denies in both, 1 configured rule of any kind and 2 kept with answers, 2 checks | `DenyOutranks`, `ChainingNeverWidens`, `OwnDecision` |
| `Team` | 2 members, 2 workers, a ceiling of 2, 2 turns a member, 1 death, patches that cannot be written, 2 merges or discards; three plans | `MembersDisjoint`, `OvershootBounded`, `WorkKept`, `MergedIsTrue` |
| `TeamCutOff` | the same with 1 or 2 workers, unpriced turns, git refusing, patches that cannot be written, no merge or discard | `CutOffSettles` |

Why the bounds suffice. Three turns are the fewest with a turn before the warning, one after it
and the ceiling (`turnWarningThreshold(3)` is 2); two calls a batch are the fewest that can settle
out of order, throw beside a sibling or be skipped by an abort; two steers are the fewest that
can be swapped. Five entries allow a tool round, a compaction and a second compaction that folds
the first's summary; an earlier form of `FoldsOnlyWhatWasRead` held at five entries and was false
at six, which is why the proofs, which have no such bound, matter here. Five store operations allow a create, an append torn by a death, its repair
by another append, a retitle and a delete. Four requests allow an open, two prompts and a rewind
or a delete. Two calls on a connection allow one to wait for the other's handshake, a late answer
beside a fresh call, and a delete of a session that another opens; three events overflow a
threshold of one frame, recover and overflow again. Two workflow steps are the fewest of which one
is seeded by the other, three processes the fewest that resume a resume. Three rules are the fewest
with a winner and denies in two scopes, one of which hides the other; the proofs lift the number. Two members are the fewest that share a
ceiling; the plan of five joins two of them through a third and folds the last two.

The type invariants of the modules whose run does not list it were checked on the same configs;
they are not among the runs' properties because they say less than what is there. `WorkflowRun`
checks `AppliedOnce` and `LandedIsWitnessed` without deadlines and missed contracts
(see the reproduction), `WorkflowRunLate` the rest with them.

Properties with exceptions. `CallsAnswered` exempts what an exception cut off, `LiveIsReplay` and
its companions a write that failed and a message said during a host's compaction, the store's
properties a delete that overtook a writer, the host's a session prompted or opened during its
delete, `AbortedNeverCompletes` an abort by a listener of the run's last event, `WorkflowRun`'s three
a step of which a torn line swallowed a line, the permission properties denies behind the nearest scope
that denies, `WorkKept` a diff git did not give, a patch the disk did not take and, for the record only,
a death in the gap of `CrashCostsNoWork`. Each exemption is one of the disagreements below, stated as narrowly as the
model allows, so that the property still covers every other history.

### Reproductions: where the code and its own comments disagree

Each config below checks one statement of the source and finds a history that breaks it. They are
not among the runs of PROJECT.json, whose findings quote the statements; run one with
`tlc -config <config>.cfg MC<module>.tla`.

| Config | Property | Statement | History |
|---|---|---|---|
| `AgentRunThrow` | `EveryRequestValid` | `loop.ts` 814: an unanswered call "would make every later request invalid" | a hook throws in mid-batch; the next run sends the unanswered call |
| `AgentSessionAbort` | `SummariesWhole` | `compaction.ts` 470: a fragment "would replace real history" | an aborted summary with some text is installed |
| `AgentSessionRace` | `LiveIsReplayUnderHost` | `session-host.ts` 1604: a conversation "may not be rewritten halfway" | a prompt starts while the host's compaction awaits; the splice drops its message from the live conversation |
| `AgentSessionChain` | `ParentsOnDisk` | `agent.ts` 1015: no "entries parented on one that never reached the file" | a message append fails, the next succeeds with the lost parent |
| `SessionStoreDelete` | `NoOrphan` | `jsonl-store.ts` 399: an append "can never resurrect a deleted session" | delete between the guard and the open of an append |
| `SessionStoreTwoProcs` | `CutsOnlyTheDead` | `jsonl-store.ts` 197: never "a tail it cannot prove is dead" | a second process appends between the repair's stat and its truncate |
| `SessionHostDelete` | `EvictedNeverRuns` | `session-host.ts` 2962: a run started in the gap is aborted | the prompt is still building its content, so the abort finds no run |
| `ConnectionLeak` | `NoDeadObserver` | `ws-server.ts` 25: a dead peer's subscriptions are cleaned up | the socket closes while `openSession` is awaited; the observer is attached afterwards |
| `PermissionsDeny` | `EveryDenyOutranks` | `permissions.ts` 16: only a strictly more specific rule outranks a deny | with denies in two scopes the first by precedence, a broad one, stands for all |
| `WorkflowRunDeadline` | `AppliedOnce` | `workflow-run.ts` 1869: a re-run needs evidence "that nothing landed" | an abandoned runner applies its patch after its step was closed as failed; the retry applies it again |
| `WorkflowRunSeeds` | `LaterRolesSeeIt` | `workflow.ts` 745: a role sees what the run put into the checkout | a step recovered by the probe has no record to seed from |
| `TeamCrash` | `CrashCostsNoWork` | `team.ts` 1680: "a crash costs no work" | a death after the worktree went and before the record was written; the patch file is named by nobody |
| `TeamLate` | `EveryoneStopped` | `team.ts` 1973: "every remaining member was stopped" | the cutoff falls into a spawn; `abort` before `prompt` does nothing and the member runs |
| `TeamCancel` | `CancelHolds` | `team.ts` 1474: the owning `start()` observes the cancel | nothing does; the cancelled team is dispatched |
| `AgentRunListener` | `AbortStands` | `cost-guard.ts` 116: "run aborted" | a listener of the last `turnEnd` aborts; the run returns completed all the same |
| `SessionHostSteer` | `SteersReachTheSession` | `session-host.ts` 1354: "(or, if idle, the next prompt)" | a rewind swaps the agent while the steer resolves its content; the retired agent hears it |
| `WorkflowRunTorn` | `ActNeedsRecord` | `workflow-run.ts` 1442: "the act does not happen unless the record does" | a failed append leaves a torn line; the flushed intent is run into it, the patch is applied and no reader finds the intent |
| `TeamWrite` | `CapturedBeforeTeardown` | `team.ts` 2026: "Capture BEFORE teardown, always" | `#writePatch` throws; the worktrees of all members are removed without a patch |

Three smaller ones have no config. `loop.ts` 892 sends a paused conversation back "unchanged",
while the ceiling warning or a progress notice may be appended first (the comment names only
nudges and steering). `core/NOTES.md` 53 gives 64 turns as the default; `agent.ts` 235 has 200.
The session cap is checked before the awaits of create and open (`session-host.ts` 836), so that
concurrent requests pass it together.

### Fairness

Every assumption is of the program and its platform, none of a user or a model's good will.

- `AgentRun`: `WF_vars(Progress)`, some step of the run is taken while one is possible. The event
  loop runs what is ready, a stream ends or hits its idle timeout, the store answers or rejects, a
  hook and a tool settle, and an unanswered permission ask is denied by the host's timer.
  A listener that aborts is not waited for. `RunEnds` must follow from the turn ceiling and the limit on
  pauses: the model may answer every turn with tool calls.
- `SessionStore`: `WF` of `Step`, the file system answers a call, with success or not.
- `Connection`: deadlines fire (`requestTimeoutMs` is positive by default; 0, at `client.ts` 1903, would
  disable them and with them `EveryCallSettles`), and a call that waits for the handshake goes on when its promise
  is settled. Nothing is assumed of the socket or of the server, so `EveryCallSettles` holds
  against a server that never answers.
- `WorkflowRun`: `WF` of the engine's step and of the awaited runner's, which works, throws, or
  runs into its deadline. Nothing is assumed of an abandoned runner or of the human.
- `Team`: `WF` of the workers and of the end of `#dispatch`: the event loop goes on, and git and
  the host that spawns agents answer, or throw. Nothing is assumed of an agent: `CutOffSettles` holds though none
  ever answers its abort.

## 4. Proofs

`AgentRunProofs` proves, for every value of the constants of `AgentRun`:

- `Invariance`: `Spec => []IInv`
- `TypeCorrect`: `Spec => []TypeOK`; no run exceeds `maxTurns` or the pauses in a row
- `AbortHonoured`: `Spec => []AbortedNeverCompletes`, listeners that abort included
- `CeilingIsAnnounced`: `Spec => CeilingAnnounced`
- `CallsAreAnswered`: `Spec => []CallsAnswered`, for batches of any size
- `SteeringIsKept`: `Spec => []SteeringKept`, for any number of steers
- `OutcomesAreHonest`: `Spec => []OutcomeIsHonest`
- `RunImplementsConversation`: `Spec => ImplementsConversation`

They rest on the named assumptions of `AgentRun` only: a ceiling and a batch size of at least one,
bounds that are numbers, and `Faults` among the three kinds.

`TypeOK` is not inductive by itself. `turn + 1` stays within `MaxTurns` only because every phase
past the top of the loop has `turn < MaxTurns` (`TurnInv`). A batch's results form a sequence
only because the calls of a reply are numbered from one without gaps (`CallsInv`, with
`ResultsInOrder`). The warning leaves two turns only because none is skipped: before it,
at least `WarnAt` turns remain, strictly more past the top of the loop, and it is given at exactly
`WarnAt` (`WarnInv`, with `WarnAtRange` for the threshold's value). `IInv` is their
conjunction with `TypeOK` and `AbortedNeverCompletes`. The step is proved in four parts, each with one
case per action it concerns: `ControlStep`, `CallsStep`, `FlagsStep`, `ConversationStep`. The
action property then follows from `IInv` in the state before `StopAtCeiling`.

`CallsAnswered` speaks of the history, but an append takes many steps, between which it is false.
`FlowInv` states it of the flow, the history followed by what the run still has to append: an
assistant message there is answered, cut off, or the last one and about to be answered. An append
leaves the flow alone; every other step extends it (`FlowGrows`) or cuts it where an exception
struck (`FlowCut`), and there the reply before the last one had all its results, because no reply
is recorded between a call and its result. `TodoInv` says in which phases nothing waits, so that
flow and history agree when a request goes out.

The other three rest on the flow as well. `SteerInv` orders the steers: what the model has heard
was said before what the run has taken, and that before what waits. For the refinement, `ReplyInv`
says what may wait to be appended, and `AnswersInv` that results that wait are those the last reply
has not got; then each action is a step of `Conversation` or none. `NudgeInv` says that a run that
used up its turns has heard something since its last nudge, so that the nudge is not what it
ends on.

`WorkflowRunProofs` proves, for any number of stages, retries, processes and failing writes:
`TypeCorrect`, `SeedsAreLanded` and `RerunsAreJustified` under every fault; `NoPatchTwice` and
`PatchesAreWitnessed` under `Supervised`, which says that runners are not abandoned at a deadline
and attempts not redone for a contract; `WorkflowRunDeadline.cfg` shows that it is needed. All five
hold under journal writes that fail and leave any tail. What a torn line swallowed is exempt from the
last three (`WorkflowRunTorn.cfg`), step by step: the other steps of the same run keep their promises,
for which the invariants follow `stem` beside `read`. The invariants are layered: `TypeInv`;
`ClaimsInv`, what the engine, the runner and the two folds may claim of a patch implies that it
landed; `RerunInv`, which ties the fold a process resumed with to the journal it has written since; and
`OnceInv`, where a step that may still be launched has no patch in the checkout, and the flushed fold is never behind what the runner has done.

`PermissionsProofs` proves, for every set of tools, segments and scopes: `DenialOutranks` and
`ChainsNeverWiden`, from lemmas about the order of rules (`Least`, `FirstPrecedes`,
`DecidingRule`, `AllowedBeatsDenies`) that do not depend on how many rules there are or of which
scopes: the deny that is compared is the most specific of the nearest scope that denies, so both
are about that scope (`PermissionsDeny.cfg` shows that a farther one may lose); and
`DecisionsAreOwn` from `DecisionInv`, which says that every cache entry and every check points at
a check of its own key.

`ConnectionProofs` proves, for every number of clients, sessions, calls, events and losses, and
every threshold, window and cap: `TypeCorrect`; `RequestsFollowTheHandshake`, from the fact that a
handshake under way holds every call of its socket back and that a call not yet sent is nowhere
at the server (`HandshakeInv`, `OutboxInv`, `ServedInv`); `AnswersAreKept`, where a pending answer
is followed from the server's work to the frame on the wire (`PendingInv`); and `CutsAreEarned`,
where a buffer that is still written to has been over the threshold since the instant the server
noted (`BufferInv`); `AnswersAreOwn`, where every frame and every caller say of a call what became
of it at the server (`FramesInv`, `RunningInv`, `VerdictsInv`, `EntriesInv`, `HeardInv`); and
`RecordsAreFresh`, where no connection has a record before its socket is open (`RecordsInv`). They
rest on the named assumptions that bounds and windows are numbers.

`AgentSessionProofs` proves all four properties of `AgentSession`, for every number of entries and
deaths: `ResumeIsFaithful` (`LiveIsReplay`), `AcknowledgedIsKept` (`NothingForgotten`),
`RoundsAreKept` (`RoundsStayTogether`) and `SummariesCoverWhatTheyFold` (`FoldsOnlyWhatWasRead`),
with `TypeCorrect`. `OrderInv` says that parents come first in the file, `ChainInv` that what waits
is a chain, `WritesInv` who waits for what; `AckedInv` finds every acknowledged message on the
path to the newest entry. `TreeInv` is about every branch of the file, not only the one in use,
because a resume may take any: it replays to distinct messages and whole rounds. `ReplayInv` is the
equality with the live conversation, with the one message whose write has not settled. `FoldInv`
says of a compaction under way that is not stale what it took of the conversation, so that its
splice and the replay of its entry agree; `CoverInv` and `LiveInv` carry the summaries.

`SessionStoreProofs` proves `TypeCorrect` for any number of processes, operations and deaths, and,
for one process (`OneProcess`), `HeadersComeFirst` and the refinement `StoreImplementsEntryLog`. With
two processes the statements the refinement needs are false: the queue is a process's own, and
`SessionStoreTwoProcs.cfg` shows a repair that cuts the other's line. `QueueInv` says that the queue
is served in order; a delete waits for its end, so a writer called later is at its start when the
file goes, or is overtaken (`GoneInv`). `FilesInv` says that until then every file begins with a
header. Every step but a delete's is one of three as far as the files go (`Effect`): it leaves
them, makes one, or touches one. For the refinement, `AloneInv` says that until a delete one
operation works at a time, `LinesInv` that the content is whole lines of three tokens with at most
one torn, each entry of the append that wrote it, and `JobsInv` what the working operation knows of the
file and has left to do. `Turned` is what a step does to the file and to the entries in it, proved
action by action; `StepMaps` and `NextMaps` read it as a step of `EntryLog`.

`TeamProofs` proves, for every plan, team size, pool, ceiling and number of merges, discards and
deaths: `WorkIsKept`, `MergedMeansLanded`, `ScopesAreDisjoint` and `CeilingHolds`. Neither of the
first two properties is inductive, because the record is written before git acts and again after
it. The invariant carries two facts about a member from step to step: `Safe`, what it changed is on disk outside its worktree or its loss is
accounted for, and `Told`, a record names the patch or says why there is none. `RunInv` has them
of every member whose run is past its capture; `KeptInv` of every copy of the record, memory and
file, that no longer names the worktree; `RecoveryInv` and `DiscardInv` of the members behind the
index of a recovery or a discard in flight; `SettledInv` of all members once nothing is owed. `OwnerInv`
keeps them apart: only the first process runs a team, and only a later one recovers it. `MergedInv`
says the same of patches that git applied. One lemma per action, over shared ones for what a step
does to one member (`OwnStep`), to none (`Quiet`), or to the members a discard passes (`DiscardGoesOn`).

`ScopesAreDisjoint` (`MembersDisjoint`) is about the repair of a plan of any length. The union-find
is a forest in which a parent is never larger than its child; `Find` ends at a root, a union joins
two trees and keeps all others, so after all pairs two subtasks that collide have one root. The
groups partition the subtasks, and folding the last of them keeps them apart. Every step but a
dispatch keeps the claims (`StaffInv`). `CeilingHolds` (`OvershootBounded`) follows from `SpendInv`:
before the cutoff less than the ceiling is spent; after it, what is spent and the members whose turn
may yet be counted are together less than the ceiling and the number of workers, because the turn
that reaches the ceiling is not among them any more.

`SessionHostProofs` proves all five invariants of `SessionHost`, for every number of sessions,
requests, steers and live sessions: `AcceptedPromptsRun` (`PromptsAreRun`), `RunsServed`
(`RunsAreServed`), `DeletedUncrossed` (`DeletedStaysDeleted`), `SteersInOrder` (`SteersKeepOrder`) and
`FlowsServed` (`PipelinesAreServed`). The invariant `IInv` has six parts beside the properties. `Basic`
types the state and says that requests, session objects and agents refer to one another. `OneClaim`
says that two prompts on their way never share a session object and that every run has its
prompt, so the agent that a prompt finds after its await is idle. `IdsInv` makes a created id
nobody else's. `Apart` is the heart of the deletes: on an id that nothing crossed a delete on, a
prompt in flight holds the live session, an open or a create in flight is the only one, a delete in
flight has neither beside it, and an open of a deleted session has not found its file. `Current`
says that a swap aborted what it replaced, and `SteersInv` that all an agent heard was sent before
what its chain still holds. Each action is first described field by field (the lemmas
`...Effect`); each part of the invariant then has one step per action, over frame lemmas for the
actions that leave it alone.

Recursion. `pathToLeaf`, `materializeBranch`, the union-find and the sums are recursive functions,
whose equations the provers are not given. `AgentSessionProofs` and `TeamProofs` get them from the
well-founded order of the numbers: every set of numbers has a least element (`Least`, from
`WFMin` and `NatLessThanWellFounded` of the library), so a function with the equations exists
(`Recursion`, `StepsExist`), two of them are equal (`Alike`), and what holds at 0 and climbs holds
everywhere (`Climb`), where "what holds" is a set of numbers, as the library's theorems that take
an operator cannot be used.

Model-checked only: the liveness properties `RunEnds`, `EveryCallSettles` of both modules,
`RunSettles` and `CutOffSettles`. They need fairness and ENABLED, which are out of the provers'
reach. Every other property of the runs is stated by a theorem. What the theorems assume beyond the
named assumptions of the modules is `Supervised` and `OneProcess`; the runs make
the same choices (no deadline or contract faults in `WorkflowRun`, one process).

## 5. Not modelled, and why

- The text and the size of messages, rendering events, telemetry, token estimates. A cut is any
  legal one instead of the one an estimate picks.
- Turn hooks that rewrite a request, context edits, deferred tools: they change what is sent, not
  what is recorded.
- The host's requests that only read; background delegations, MCP and model switches; `dispose`.
- A retitle beside a second process: `setTitle`'s comment says that it is unsafe.
- Workflows: parallel stages, races, judges, the read and exec lanes, money ceilings with their
  park, forks, the run header, a resume that leaves its question unanswered.
- Permissions: `addRule` and `clearRules` after setup (hosts call them at setup only: `agent.ts`
  533, `workflow.ts` 10285, `mcp-serve.ts` 1320), what globs and canonical paths match, the events
  around a decision.
- Teams: what section 2 names.
- Everything section 1 lists without a module. PROJECT.json gives the reason for each component;
  most are I/O, parsing, rendering or wiring without state that outlives a call.

## 6. Plan

What is left, the most consequential first.

1. More proofs: what holds of a store that two processes share, and of a workflow whose runners are
   abandoned at a deadline.
2. `Failover` of `ai` (retry and failover before the first content event) and the delegations of
   `background-agents.ts`, as small modules.
3. `Checkpoints`: snapshots before a turn's first write, and the restore.
4. Parallel stages and races of the workflow engine, on the journal of `WorkflowRun`.
5. A composition of `SessionHost` with `AgentSession` for rewind beside compaction.
