# Quarterdeck: TLA+ models and proofs

Quarterdeck runs coding agents (Codex, Claude, Pi) in terminals or through their
structured protocols, one task per agent, and shows the tasks on a board in the
browser and in a desktop shell. A single runtime process (`src/src/`) owns the
state: boards, sessions, worktrees and agent processes. This directory models the
parts of that runtime whose correctness depends on concurrency, failure and
ordering, checks them with TLC on small instances, and proves the central facts
with TLAPS for all values of the constants.

Paths below are relative to the repository's `src/` unless they start with
`web-ui/`, `docs/` or `desktop/`.

## 1. Inventory

The runtime is one Node.js process: no two JavaScript statements run at once, and
every `await` is a point where any other operation may run. Other processes
matter in three places: a second runtime or the command line taking the file
locks, the agents and their hook senders, and the browsers.

| Component (code) | State it keeps | Operations | Hard behaviours | What makes it correct |
|---|---|---|---|---|
| Project state store (`state/project-state*.ts`) | per project `board.json`, `sessions.json`, `meta.json` (revision, command receipts), a transaction journal | read, board command, projection, session save, recovery | crash or power loss at any step, retries after lost answers, bounded receipts | files agree; commits are atomic and durable; retries apply once |
| Locked file system (`fs/locked-file-system.ts`, `fs/in-process-lock-owners.ts`) | in-process queues, lock files | `withLock`, atomic write | failing holders, stale locks of dead processes | mutual exclusion, arrival order, no waiter forgotten |
| Board commands (`state/project-board-command-service.ts`) | none of its own; captures the live session map | `executeBatch`, projections, relocation | the captured map ages while the lock is awaited | never undo a newer session map |
| Session persistence (`server/runtime-session-persistence.ts`) | dirty and persisted generations, timer, write in flight, barriers, closed flag | schedule, run, flush, barriers, dispose, close | lost wake-ups, shared failing writes, shutdown against late hooks | acknowledged means durable; everything dirty is written |
| Hook ingestion (`trpc/hooks-api.ts`, `hook-*.ts`) | delivery and order receipts in the session summaries | ingest, outbox replay | duplicated, delayed and reordered deliveries | acknowledge only what is durable; apply once |
| Execution ownership (`execution/task-execution-ownership-service.ts`, `state/project-execution-ownership-store.ts`) | per task owner, generation, pending handoff, operation records | handoff both ways, stop, observe, startup recovery | crash inside a handoff, events of a former owner | one writer per provider conversation |
| Task lifecycle (`server/project-task-lifecycle-service.ts`, `state/project-task-lifecycle-operation-store.ts`) | durable operation records with a phase | start, stop, trash, restore, delete, clear trash | retries, revision conflicts, crash between effects and commit | each operation's effect once, in order, recoverable |
| Session state machine and hook order (`terminal/session-state-machine.ts`, `terminal/hook-event-order.ts`) | session summary: state, turn, permission, subagents, receipts | process, hook and structured events | late events of an earlier turn or instance | a state never goes back to what a settled turn said |
| Session lifecycle (`terminal/session-*.ts`, `server/startup-session-recovery.ts`) | live processes, restart counters, launch gates | start, stop, exit, auto restart, reconcile | exit against stop against restart; timeouts | at most one process per task |
| Operation coordinators (`core/*coordinator.ts`) | tails per key, shared/exclusive gates | `run`, `runProject`, `runProjectExclusive` | re-entrance, an exclusive request behind readers | exclusion and fairness |
| Coalesced refresh, read cache, publication scheduler (`core/coalesced-refresh.ts`, `state/project-board-read-cache.ts`, `server/project-state-publication-scheduler.ts`) | running and follow-up run; cached entry and token; a lane per project | run; load; schedule, drain, release | joins, staleness, out-of-order enrichments | never older than promised |
| State hub (`server/runtime-state-hub.ts` and neighbours) | connected clients, batches | connect snapshot, deltas, disconnect | snapshot against deltas | a client converges to the runtime's state |
| Registry and relocation (`server/project-registry.ts`, `workdir/project-relocation.ts`) | projects, their managers, a relocation journal | add, remove, relocate | relocation against every other writer, crash in the middle | no writer at the old path |
| Runtime ownership (`server/runtime-ownership.ts`, `state/runtime-write-admission.ts`) | owner record, lease, write fence | acquire, hand over, recover | a former owner that wakes up | one writer per state home |
| Shutdown (`server/shutdown-coordinator.ts`) | phase, deadlines | prepare, stop owners, save, close | late producers, phases that hang | interrupted tasks are recorded; it ends |
| Terminal WebSocket (`terminal/ws-server.ts`, `terminal/terminal-ws-*.ts`) | viewers, restore snapshots, output queues | attach, restore, fan out, pause | output during a restore; slow viewers | no byte lost or doubled on screen |
| Task images (`state/task-image-*.ts`) | image files and references | upload, commit, sweep | sweep against an upload about to be referenced | a referenced image exists |
| Browser sync (`web-ui/src/hooks/project/use-project-sync.ts`, `web-ui/src/runtime/`) | optimistic board, command queue, stream order | send, retry, rebase, apply | lost answers, stale stream messages | converges; no command twice |
| Metadata monitor, titles, Git, conversations, configuration, diagnostics, navigation, backup, command line, desktop shell, user interface | caches and settings | polling, parsing, rendering | little shared state | not planned; see section 8 |

How the parts meet: browsers send board commands over tRPC; the command service
reads the live session map from the terminal managers and commits under the
project lock; hooks change the session store synchronously and then wait for the
session writer, which commits through the same command service; every commit is
handed to the publication scheduler and reaches the browsers through the state
hub; lifecycle and ownership operations run inside the operation coordinators and
use all of the above.

`PROJECT.json` lists the hazards, each at the line where it bites, with the
properties that watch for it.

## 2. Modules

| Module | Role |
|---|---|
| `ProjectStore` | abstract specification: what a project's storage promises |
| `ProjectStateTransaction` | the lock queue, decisions, journal installation, recovery, crashes and power losses |
| `ProjectStateTransactionMC` | model values for it |
| `ProjectStateTransactionProofs` | type correctness, the inductive invariant, crash consistency |
| `ProjectStoreRefinementProofs` | the files implement `ProjectStore`; answers stay true; retries apply once |
| `SessionPersistence` | the session writer, hook barriers, board commands racing it, shutdown |
| `SessionPersistenceMC` | model values for it |
| `SessionPersistenceProofs` | its inductive invariant, and what an acknowledged delivery and a finished shutdown may rely on |
| `ExecutionOwnership` | one task's owner: native terminal or structured runner, handoffs, stops, restarts, crashes and recovery |
| `ExecutionOwnershipMC` | model values for it |
| `ExecutionOwnershipProofs` | its inductive invariant: authority, survivors, handing back, a single writer |
| `TaskLifecycle` | the managed operations on one task: journal, board steps, rebase, compensation, process and worktree, recovery |
| `TaskLifecycleMC` | model values for it |
| `TaskLifecycleProofs` | its inductive invariant: launches, outcomes, deletions |
| `BoardPublication` | a commit's way to a browser: publication lane, hub snapshots, connecting, and a relocation in between |
| `BoardPublicationMC` | model values for it |
| `BoardPublicationProofs` | its inductive invariant: relocations alone, no update lost, no browser going back |
| `BrowserProjectSync` | the browser's optimistic board: queue, rollback, stream, refreshes, cache, lifecycle actions |
| `BrowserProjectSyncMC` | model values for it |
| `BrowserProjectSyncProofs` | its inductive invariant, and a second one for refused edits |
| `HookEventOrder` | operators: the guard that judges provider hooks by time and identity, and its durable receipts |
| `SessionStateMachine` | operators: the reducer of a task session |
| `ProviderHooks` | composes the two with Claude, its user, the transport of hooks, the disk, exits and restarts |
| `ProviderHooksMC` | model values for it |
| `ProviderHooksProofs` | its inductive invariant in four layers: types, the live process, named prompts, the latest prompt |

The modules share actions' meaning, not variables: what `ProjectStateTransaction`
proves of a commit (atomic, at most once per identity) is one atomic step of
`TaskLifecycle`, `BoardPublication`, `BrowserProjectSync` and `SessionPersistence`,
and what `SessionPersistence` checks of a barrier is the `Persist` step of
`ProviderHooks`.

Operators named `Mutant...` are deliberate mistakes. They are used by no
specification; replacing the definition that follows one by it must make TLC
report the property that `PROJECT.json` pairs with it.

### ProjectStateTransaction

State. `disk` holds the four files of a project. A file is the entry that a reader
finds (`cur`) and the entries that losing power may bring back (`old`): a rename
is visible at once, its bytes are durable after `syncFile` and its name after
`syncProjectDirectory`. An unsynced entry may come back torn (`intact = FALSE`).
`queue` is the in-process FIFO of the project's directory lock; its head holds the
lock. `pc[r]` is where the operation in slot `r` stands, `request[r]` its input
with the captured session map, `transaction[r]` the journal it is installing.
`submitted` and `replies` remember what callers asked and were told.

A board is the set of mutations applied to it, each with the revision that did
it, which is exactly what is needed to say that a command was applied once, or
that a board read earlier is part of today's history. The reducer
(`core/project-board-command.ts`) is a free choice of changed or not.

| Actions | Code |
|---|---|
| `SubmitCommand`, `SubmitInternal`, `Enqueue` | `executeBatch`, `persistRuntimeProjection`, `saveProjectSessions`, reads: capture, then a project lookup of unknown length, then the lock request |
| `AcquireLock`, `NothingToRecover`, `RecoverJournal` | `withProjectStateLock`: the head proceeds and first finishes a journal left behind |
| `ReplayReceipt`, `RejectIdentity`, `RejectRevision`, `CommitCommand`, `CommitProjection`, `WriteSessionsOnly`, `ReadState` | the branches of `applyProjectBoardMutationFromContext`, `saveProjectSessions`, `loadProjectStateFromContext` |
| `WriteJournal` ... `SyncUnlink` | `writeProjectStateTransaction` and `installProjectStateTransaction`, one action per rename and per sync |
| `Release`, `Fail` | the answer, or an error at any stage; both pass the lock on |
| `Crash`, `PowerLoss` | the process or the machine dies between any two steps |

Callers behave as the code's callers do: an identity is repeated with the same
expected revision (`web-ui/src/hooks/project/use-project-sync.ts`) until a
conflict allows a rebase (`server/project-task-lifecycle-service.ts`,
`trpc/project-api-state.ts`). That is `MayExpect`.

`ProjectStore` knows no files: one atomic state, `Commit`, `SaveSessions`,
`LosePower` (which may only take back a session map saved on its own), and
replies that must be true of the state in which they are given. The refinement
mapping reads the committed state from the journal once the directory sync has
made its name durable, and from the files otherwise, so the commit point is
`SyncJournalDir`.

### SessionPersistence

The session store is a counter of durable changes and `sessions.json` the value
the counter had when its contents were captured. `dirty`, `persisted`, `timer`,
`write` are the fields of `RuntimeSessionPersistenceState`; `pc[f]`,
`required[f]`, `attempts[f]` the locals of one `flushRuntimeSessionPersistence`;
`need[f]` what the flush's caller vouches for when it resolves.

| Actions | Code |
|---|---|
| `Change` | the store listener: a durable change marks a generation |
| `ForcingHook`, `DuplicateHook` | `completeHookIngest` with `persistRuntimeSessions` and `awaitRuntimeSessionsDurable` |
| `Attempt`, `EndFlush` | the loop and the end of `flushRuntimeSessionPersistence` |
| `TimerFires`, `WriteCaptures`, `WriteLands`, `WriteSucceeds`, `WriteFails` | `runRuntimeSessionPersistence` around `reconcileRuntimeSessions` |
| `CommandCommits` | `executeBatch` and the other projections: any of them may write the map as it was at an earlier time |
| `Close`, `StopForShutdown`, `StopSkippingPersistence`, `DisposeDrained`, `FinishShutdown` | `close`, `stopForShutdown`, `disposeProject` |

The project lock appears as the atomicity of `WriteLands` and `CommandCommits`;
the files behind it are `ProjectStateTransaction`'s subject.

### ExecutionOwnership

One task. `own` is its record in `execution-ownership.json` (state, generation,
instance, recorded process, active turn, pending handoff, last failure) and
`receipts` the handoff operations of the same file; a crash of the runtime keeps
both and nothing else. `native` is the terminal manager's active process with the
turn its hooks have reported, `restart` the automatic restart that is on its way.
`owner` and `turn` are the registry's structured owner, `alive` the structured
processes that can write, `planned` the stop intents, `events` the owner events
queued behind the running operation. `op` holds the per-task queue and the locals
its operation keeps across awaits, `observer` an observation between its read and
its write. Instances are numbered as they are launched; 0 stands for an instance
that no process has, such as the fresh identifier a stop commits.

| Actions | Code |
|---|---|
| `StartNative`, `NativePrompt`, `NativeReports`, `NativeExits`, `AutoRestart` | the native terminal: start and input are admitted by the record, the rest is not |
| `ObserveBegins`, `ObserveEnds` | `observeNativeOwner` around its version probe, and `putOwnershipIfCurrent` |
| `BeginToStructured`, `RecordToStructured`, `StopNative`, `ClearOwner` | `handoffToStructuredOnce` up to its replacement |
| `SpawnReplacement`, `RecordReplacement`, `VerifyReplacement`, `UnwindReplacement`, `CommitReplacement`, `RetireReplacement`, `FailOperation` | `startStructuredReplacement` and its callers in handoff, restart and recovery |
| `RecordToNative`, `StopStructured`, `LaunchNative`, `IdentifyNative`, `VerifyNative`, `AbandonNative` | `handoffToNativeOnce`, and recovery of one |
| `BeginRestart`, `BeginStop`, `StopWithoutRecord`, `CommitStop` | `restartStructuredOwner`, `stopCurrentOwner`, `commitStoppedOwner` |
| `SendMessage`, `MessageSent`, `TurnEnds`, `StructuredExits`, `DeliverEvent` | `startMessage`, the owners' events and their handlers |
| `Crash`, `Recover` | the runtime dies at any step; `recoverProject`, before any client is served |

The generation a client names is today's or the next one, since the observation
inside a handoff may advance it. What the provider's verification checks
(profile, version, configuration, exact session) is one outcome: confirmed or not.

### TaskLifecycle

One task. `board` is its durable card with the revision of the board, `receipts`
the receipts of the operations' board steps (`<operation>:move` and so on),
`journal` the file `lifecycle-operations.json`; a crash keeps these and `tree`,
the worktree's HEAD with the branch that Trash saved. `exec[o]` holds the stage of
a running operation and the locals it keeps across awaits; `session` the process
that runs and the launch that the live and the saved summaries name; `server`
whether requests are served and what is left to recover.

| Actions | Code |
|---|---|
| `Begin`, `Resubmit` | `execute`, `begin`: one pending operation per task, a repeated one joins or runs again |
| `Validate`, `CreateCard`, `MoveCard`, `Conflict` | identity and column checks, board steps with their receipts, `executeBoardWithSemanticRebase` |
| `AfterMove`, `Stop`, `StopFails`, `Reattach`, `Consume`, `Ensure`, `Launch`, `LaunchFails`, `Refuse`, `AfterFailure` | `executeStart`, `executeTrash`, `executeRestore`, `executeStop`, `executeRestart`, `launchOrCompensate` after the board step |
| `Look`, `Compensate`, `StopAgain` | `compensateMove`, `handleLaunchFailure` |
| `SaveBranch`, `Detach`, `Purge`, `MarkDeleting`, `DeleteCard` | `archiveTaskWorktreeForTrash`, `purgeTaskWorkspaceForDelete`, the end of `executeDeleteSteps` |
| `Finish`, `PhaseWriteFails`, `FinishWriteFails` | `finish`, and journal writes that fail |
| `UnrelatedCommit`, `TogglePin`, `ClientMove`, `PersistSessions`, `ProcessExits` | the commits and events around the operations |
| `Crash`, `Recover`, `SkipRecovery`, `Serve` | `recover`, run for every project before the server listens |

### BoardPublication

A state is three numbers: board revision, metadata revision and location. `lane`
is `ProjectPublicationLane` and `run` its preparation in flight; `builds[b]` is a
`buildProjectStateSnapshot` per requester (the hub, the connecting browser, the end
of a relocation); `browser` the connection and what it shows; `move` the stage of a
relocation. `returning` holds commits whose callers have not scheduled them yet, so
that publications may be scheduled in any order.

| Actions | Code |
|---|---|
| `Commit`, `Return`, `Rename` | a board commit, `requestPublication` by its caller, a change of the project's metadata |
| `Observe`, `Recheck`, `PrepareFails`, `Publish`, `Discard`, `Retry`, `BackoffEnds` | `prepareProjectStatePublication` around its Git query, `runOnce`, `retry` |
| `RequestBroadcast`, `Admit`, `ReadBoard`, `BuildFails`, `Send` | `broadcastRuntimeProjectStateUpdated`, `buildProjectStateSnapshot` under the shared admission |
| `Connect`, `Disconnect`, `Register`, `CatchUp` | the hub's connection handler, `enqueueConnectionCatchupForClient` |
| `RequestMove`, `BeginMove`, `Drained`, `Suspend`, `RewriteBoard`, `Index`, `Refresh` | `relocate` under `runProjectExclusive` |
| `MoveFails`, `ReleaseFences`, `Resume`, `ResumeFails` | `createRelocationFailureResume` |

### BrowserProjectSync

`log` is the history of the server's board. What matters of a board is which edit
wrote it last, so a board is the number of an edit, the presentation of a lifecycle
action, or the negated revision of a foreign commit. `queue` and `call` are the
command queue of the project and its request, `late` the requests that were given
up and may still arrive; `browser` the refs of `useProjectSync`; `cache` the board
cache; `fetch` the two refreshes that may run at once; `streamed` the newest state
the stream has delivered; `life` a lifecycle action between its flush and its end.
`Events` names the kinds of events that nobody orders: commits of others, actions,
triggered refreshes, losses, failing refreshes, leaving.

Leaving a project ends its stream; the next visit opens a new one, and a first state
preloaded for it is read after the user has left, so `Leave` moves `streamed` to the
end of the history. A pump, its request and a lifecycle action go on while the user is
away and after the return; the count of successful refreshes is one for all projects, so
`Return` may find it advanced. `outlived` is a history variable that no action reads: the
edits of cached boards that an older answer, to a lifecycle action of an earlier visit,
has left in the cache. `RefusedEditsAreGone` exempts them (section 5).

| Actions | Code |
|---|---|
| `Edit`, `Pump`, `Committed`, `Refused`, `Lost`, `FetchFails`, `FetchAnswers` | `setBoard`, `pumpProjectBoardCommandQueue`, `sendProjectBoardCommandBatch` |
| `Serve`, `ServeLate`, `Others` | the server: receipts first, then revisions |
| `Deliver`, `Trigger`, `Hydrate`, `FetchReads` | the stream effect, the refresh triggers, the hydration retry |
| `Act`, `ActSend`, `ActServe`, `ActEnds`, `ActLost` | `executeTaskLifecycle` and `waitForAuthoritativeRevision` |
| `Leave`, `Return`, `CacheExpires` | `resetProjectSyncState`, the board cache |

### HookEventOrder, SessionStateMachine, ProviderHooks

One launch of Claude. `agent` is Claude itself: its turn, the tools that are open,
the dialog it shows, the prompts that background work may resume. Every hook it
runs gets the time of its capture and joins `net`, from which hooks are taken in
any order; ordinary tool starts are best effort and may be lost. `guard`
(`HookEventOrder`) judges a hook by what it has heard, `session`
(`SessionStateMachine`) is the summary the board shows, `receipts` what of the guard
is durable; `saved` is the disk, `unacked` the hooks that wait for it. `terminal`
holds the detector that an Escape arms and the fence of a Ctrl-C.

| Actions | Code |
|---|---|
| `Submit`, `StartTool`, `AskPermission`, `AutoDeny`, `EndTool`, `Stop`, `Wake` | Claude, as `claude-hooks.ts` subscribes to it |
| `Answer`, `Escape`, `CtrlC` | `processSessionInput` |
| `Render`, `Disarm`, `CtrlCSettles`, `LaunchTimesOut` | the terminal's evidence and timers, `session-transition-controller.ts` |
| `Deliver`, `Lose` | `ingest`: `evaluateHookEventOrder`, `applyProviderHook`, `commitHookEventOrder`, then the barrier |
| `Persist`, `Exit`, `Crash` | the durable writer, `handleTaskSessionExit`, `hydrateFromRecord` with `restoreHookEventOrderState` |

Claude is modelled from its documented hooks as the code subscribes to them:
`PostToolUseFailure` counts as `PostToolUse`, `StopFailure` as `Stop`; one dialog is
shown at a time; capture times differ; a Ctrl-C ends the turn, an Escape may end
it, dismiss the dialog or do nothing.

## 3. Runs

| Run | Checks | Bounds |
|---|---|---|
| `state_failures` | `TypeOK`, `ObservationsSurvive`, `RetriesApplyOnce`, `StateFilesAgree` | 2 slots, 2 identities, 3 operations, 1 crash, 1 power loss, receipt window 1 |
| `state_refinement` | `ImplementsProjectStore`, `EveryOperationEnds` | 2 operations, 2 contents, 1 power loss |
| `session_hooks` | `TypeOK`, `NoLostWakeup`, `AcknowledgedUnlessReplaced`, `ShutdownLeavesNothing`, `BarriersSettle`, `ShutdownEnds` | 2 deliveries, commands at any time, 2 changes, 2 failing writes |
| `session_stale_command` | `AcknowledgedStaysDurable`: **violated** | as above |
| `ownership_handoffs` | `TypeOK` (with the coherence of the journal), `SingleWriter`, `AuthorityIsRecorded`, `LiveOwnerIsRecorded`, `HandBackBetweenTurns` | 2 handoffs, 4 processes, 1 crash, the recorded process may survive |
| `ownership_liveness` | `HandoffsEnd` | 1 handoff, 4 processes, 2 crashes, 1 automatic restart, no survivor |
| `ownership_restart_race` | `SingleWriter` with 1 automatic restart: **violated** | no crash of the runtime |
| `lifecycle_operations` | `TypeOK`, `StartsLaunchOnce`, `OutcomeIsReal`, `DeletionIsConfirmed`, `DeletionIsOrderly`, `RuntimeSettles` | 2 operations, 1 rebase, 1 foreign commit, 1 failing step, 1 crash |
| `lifecycle_replayed_trash` | `BranchReleasedInTrash`: **violated** | 1 operation, 1 failing step, 1 crash |
| `publications` | `TypeOK`, `QuietIsCurrent`, `MoveRunsAlone`, `NeverGoesBack`, `Settles` | 2 commits, 1 rename, 1 relocation, 1 connection, 1 broadcast, 1 fault (a resume that fails after a failed relocation is not counted), 1 retry |
| `browser_sync` | `TypeOK`, `ShownIsNewest`, `FlushTellsTruth`, `RefusedEditsAreGone`, `ActionsEnd` | 2 edits, 3 events (foreign commits, actions, refreshes, losses, failing refreshes, leaving); the stream at any time |
| `provider_hooks` | `TypeOK`, `WaitIsShown`, `FinishedIsReview`, `CutTurnStaysCut`, `WaitIsNotForged`, `RestoreAgrees` | 2 prompts, 2 tools, 4 hooks, 3 on their way, 1 act of the user, 1 wake, 1 crash |

Why the bounds suffice. A receipt window of 1 puts eviction within reach of
three operations: apply, evict, retry. Three operations are also the least that
let a crash interrupt one, a second recover, and a third observe. Two operations
are enough for the refinement because each abstract step is checked from every
reachable state, and two contents are needed to reuse an identity for another
command. Two failing writes exhaust the two attempts of a flush, so the failure
paths are taken; two deliveries give one that writes and one that joins it, a
duplicate or a new one. Deadlock is not checked: all inputs are bounded, so the
systems do stop.

Of the ownership bounds, two handoffs are a handoff and its opposite, or one after
the other failed; four processes are the native one, its replacement, the one of
a handoff back or a restart, and the one of a recovery. `ownership_handoffs` also
passes with six processes and two crashes (14 million states). An operation
begins only while processes are left for it and for the recoveries to come, so
that no bound stops an operation in the middle.

Two lifecycle operations are an operation and the one that undoes it or meets what
it left; one failing step before or after one crash reaches every compensation and
every recovery of it, and one foreign commit exceeds the rebase bound of 1 when it
is the second conflict (the first is the revision the client names). Two commits
with one rename give a publication an older commit, a newer one and newer metadata
to meet; a second browser or relocation would repeat the first. Two edits are one
to refuse and one queued behind it; two edits and three events also let a cached edit
outlive an answer (`outlived`). With a third edit, which is refused when the idle queue
is pumped again, and four events (commits, actions, leaving) the invariants of
`browser_sync` and of its proof hold too (7 million states). Four hooks are enough for a prompt, a tool, its
request and its end, or for two turns; with two acts of the user the same run is
too large to finish, and its first 6.7 million states break nothing. The proofs
have no bound.

What the conditions of the hook properties leave out is what the guard cannot tell
from the hooks it gets. Each row gives a behaviour that breaks the property without it.

| Condition | Property | Without it |
|---|---|---|
| `~agent.blind` | `WaitIsShown`, `FinishedIsReview` | a dialog is opened or dealt with while the board is behind (its request is on its way, or the wait of an earlier dialog is still there): two dialogs merge into one wait, or an answer typed at the old wait meets a Stop on its way |
| `~agent.stray` | `WaitIsShown`, `FinishedIsReview` | a prompt works on behind the latest one: a late hook of it takes the foreground back |
| `~DoneSinceAsked` | `WaitIsShown` | a parallel tool is done during the dialog: the request, heard after that completion, is taken for the request of a tool that is done |
| `~Fenced`, `~TurnIsClosed` | `WaitIsShown` | background work resumes a turn that a Ctrl-C or a rendered Escape has closed |
| `1 .. agent.prompts \subseteq guard.retired` | `CutTurnStaysCut` | a prompt that the guard has not heard of is not retired by the cut |
| `OnlyOlder` | `WaitIsNotForged` | a Stop or a submission captured after the wait was opened ends it (a wait keeps its `openedAt` when its request is repeated), as does another prompt's hook captured after its last update |
| the last answer, `~terminal.rendered` | `RestoreAgrees` | an answer that the wait no longer records, and a rendered Escape, leave nothing durable |
| `~MayOmit` | `RestoreAgrees`; the theorems of `WaitIsShown` and `FinishedIsReview` | an unnamed submission heard late retires the prompt that is active, whose Stop is then refused |

Beyond the run, TLC has simulated `RestoreAgrees` through tens of millions of states
with three and four prompts and up to forty hooks.

## 4. Findings

`session_stale_command`: a board command captures the session map
(`state/project-board-command-service.ts:128`), waits for the project's context
and its lock, and then writes that map whole. A hook that is applied,
persisted and acknowledged meanwhile is overwritten in `sessions.json` by the
older map. The session writer considers the generation persisted, so nothing
rewrites the file until the next durable change; a restart in that window loses
acknowledged state. The barrier is documented as "Resolves only after the latest
session-store generation is durable" (`trpc/hooks-api.ts:131`). As long as no
command replaces the map the same property holds (`AcknowledgedUnlessReplaced`).

`ownership_restart_race`: a prompt is typed and a handoff to the structured runner
begins before its hook arrives. The hook reports the turn, the agent crashes, and
the terminal schedules its restart (`terminal/session-auto-restart.ts`). The
handoff's stop finds no active process and answers `not_running`
(`terminal/session-lifecycle-controller.ts:321`), so the structured replacement
starts while the restart launches a second agent on the same session.

`lifecycle_replayed_trash`: a trash moves its card, its stop fails, and the move is
compensated: the card is back where it was. The runtime exits before the operation
is finished. Recovery executes it again; its move is answered from the receipt
(accepted), and `executeTrash` goes on to stop the task and release its branch
(`server/project-task-lifecycle-service.ts:583`) although the card is in Review or
In Progress, and then reports the trash as completed. `docs/conventions/
runtime-state.md:47` asks for the source column and the session before an effect.

## 5. Divergences seen while modelling

Behaviours of the models that a document or comment of the repository speaks
against, and that have no run of their own.

- `execution/task-execution-ownership-service.ts:1048`: a handoff judges a copy of
  the session's state read before several awaits, so a turn reported meanwhile is
  cut (`docs/conventions/structured-execution.md:13`, "Reject mid-turn handoff by
  default.").
- `execution/task-execution-ownership-service.ts:636`: a recovery that failed leaves
  the active turn in the record; a restart keeps it with no failure, so that its
  unknown outcome is not reported (`structured-execution.md:14`).
- `server/project-state-publication-scheduler.ts:199`: a newer pending commit is
  dropped with the older one when the last permitted attempt meets changed metadata;
  the comment at `:194` promises "Retry with the latest committed state, keeping a
  newer pending commit if one arrived." The next commit or snapshot publishes it.
- `web-ui/src/hooks/project/use-project-sync.ts:248`: an edit made while the pump
  awaits its refresh after a refusal stays queued and shown, and is not sent until
  the next edit or flush (`docs/architecture.md:242`).
- `use-project-sync.ts:394`: when the refresh after a refusal fails, such an edit stays
  in the idle queue, also while the user visits another project. Back on the cached
  board, the first state that confirms the cached revision writes the shown board, edit
  included, back to the cache. If the answer of a lifecycle action begun before the
  visit is applied then, it is older than the cache entry, which `mergeCacheEntry`
  keeps; the edit is sent, refused and rolled back, and the cache still has it: the next
  return shows it and the runtime's state confirms it (`docs/architecture.md:242`: "A
  real revision conflict clears the rejected optimistic overlay"). TLC finds this with
  three edits and four events when the exemption of `outlived` is taken out of
  `RefusedEditsAreGone`. The overlay in the cache is itself what the comment at `:604`
  rules out ("Never label an optimistic overlay as an authoritative cache entry") and
  `project-board-cache.ts:18` allows.
- `use-project-sync.ts:200`, `:372`: the queue's revision may be set back by an
  answer or a state that is older than the one applied, which costs a conflict.
- `use-project-sync.ts:206`: an answer older than the applied state leaves the
  overlay of its edit until the next state arrives
  (`docs/conventions/runtime-state.md:95`).
- `web-ui/src/hooks/board/use-task-lifecycle-operations.ts:205`: a flush that fails
  because the user left the project leaves the presentation of the action behind
  (`use-project-sync.ts:565`).
- `server/project-task-lifecycle-service.ts:1133`: a compensation is not rebased. A
  foreign commit between its look and its move leaves a card in Trash with a live
  process, reported as `stop_failed` only; a journal write that fails after the move
  ends as `internal_error` with the move left in place.
- `terminal/hook-event-order.ts:869`: an Escape rendered while the prompt's own hooks
  are all on their way retires nothing, and a later `PostToolUse` of that prompt makes
  the task Running again (`docs/conventions/session-lifecycle.md:33`). When hooks name
  no prompt, a delayed submission of an interrupted prompt can reject the Stop of the
  next one. An answer given before the wait was heard of leaves a
  `response_submitted` wait that a delayed Stop does not clear.

## 6. Fairness

`ProjectStateTransaction`: weak fairness of each slot's steps. An operation's
continuation is always scheduled by the event loop, and file system calls return
or fail. Nothing forces a caller to submit.

`SessionPersistence`: weak fairness of every step of the writer, of the flushes
and of a shutdown once begun. An armed timer fires, I/O ends. No fairness for
hooks, changes, commands or the beginning of a shutdown. That failures are
bounded matters: a disk that fails for ever is retried for ever. That deliveries
are bounded matters for `ShutdownEnds`: `close` waits as long as new barriers keep
arriving; the runtime's own shutdown uses `stopForShutdown`, which refuses them
first.

`ExecutionOwnership`: weak fairness of the steps of an operation, whose awaits are
all answered or time out, and of the delivery of queued events. None for clients,
exits, hooks, restarts or observations.

`TaskLifecycle`: weak fairness of each operation's stages, of the recovery of each
pending operation and of `Serve`; failures and crashes are bounded.

`BoardPublication`: weak fairness of the runtime's own steps taken together
(`Progress`): queued work is done, backoffs end. None for commits, connections,
relocations or faults.

`BrowserProjectSync`: weak fairness of the pump, of the refreshes and of a lifecycle
action's steps, each of which the browser or the request's answer continues. None
for the user, other clients or the stream. `ActionsEnd` holds although a stream
may never deliver: the wait for a revision is bounded by a timeout.

`ProviderHooks` has no liveness: a hook may be late for ever.

## 7. Proofs

Eight modules prove, for any values of the constants, every safety invariant and every
action property that the passing runs check, `RestoreAgrees` apart. Each follows the
same plan: an inductive invariant `Inv` in named parts, which TLC checked on the
instances of section 3 before it was proved; one lemma per action, with one step per
part that the action can disturb; then the theorem of `[]Inv` and one theorem per
property.

| Module | Theorems |
|---|---|
| `ProjectStateTransactionProofs` | `TypeCorrect`, `InvariantHolds`, `CrashConsistency` (`StateFilesAgree`) |
| `ProjectStoreRefinementProofs` | `StoreImplemented` (`ImplementsProjectStore`), `ObservationsHold`, `RetriesHold` |
| `SessionPersistenceProofs` | `InvariantHolds`, `TypeCorrect`, `NothingDirtyIsForgotten`, `AcknowledgedIsDurable`, `ShutdownIsComplete` |
| `BoardPublicationProofs` | `InvariantHolds`, `TypeCorrect`, `RelocationRunsAlone`, `NoUpdateIsLost`, `BrowserNeverGoesBack` |
| `ExecutionOwnershipProofs` | `InvariantHolds`, `TypeCorrect`, `AuthorityHolds`, `LiveOwnerIsFound`, `HandBackWaitsForTurn`, `OneWriterAtATime` |
| `TaskLifecycleProofs` | `InvariantHolds`, `TypeCorrect`, `StartsOnce`, `OutcomesHold`, `DeletionConfirmed`, `DeletionOrdered` |
| `BrowserProjectSyncProofs` | `InvariantHolds`, `TypeCorrect`, `NewestIsShown`, `FlushIsTrue`, `RefusedEditsStayGone` |
| `ProviderHooksProofs` | `InvariantHolds`, `TypeCorrectness`, `WaitsAreNotForged`, `CutTurnsStayCut`, `FinishedTurnsAreReview`, `DialogsAreShown` |

Assumptions: the named `ASSUME`s of the modules, which TLC evaluates in the runs. They
say that bounds are natural numbers, that special values are not among the ordinary
ones, and, for ownership, that each crash leaves a process number for the recovery
after it. Some theorems have a hypothesis more, explained below: `OneWriterAtATime`, and
three about hooks that name their prompt.

**Crash consistency.** `StateFilesAgree` says nothing while a journal is valid, and a
step that removes the journal must know that the files already agree *durably*. `Inv`
adds what every stage of an operation knows (its transaction is a well-formed next
state, the journal on disk holds it, the files replaced so far hold its parts), that
every journal a power loss may bring back agrees with itself, and that without a durable
journal the board and metadata entries are durable, whole and agree. `PowerLoss` is the
case in which the `old` entries matter.

**The store.** The refinement mapping reads one state out of files and journal, so each
step must leave it alone or make exactly one step of `ProjectStore`. That needs the
history of the disk: every journal that can still come back either repeats the
committed state or offers the one next commit (`JournalHistory`, `SlotHistory`), a
session map is only ever replaced together with the state it belongs to
(`SlotSessions`), and the receipts kept are the newest of the history (`Windowed`,
`Kept`). The commit point is `SyncJournalDir`, or a crash or power loss that leaves the
journal. Initial states map to initial states and every step to a step or a stutter
(`StoreImplemented`). `ObservationsHold` and `RetriesHold` come from the same history:
what was answered is a prefix of it, and a command found in it twice has the receipt
window between.

**Sessions.** `NoLostWakeup` and `AcknowledgedUnlessReplaced` depend on what a
generation vouches for: a generation at or below `persisted` was captured by a write
that landed, and the flush that a delivery joined waits for a generation that contains
the delivery's change. `WriteInv`, `WakeInv`, `FileInv` and `ShutdownInv` say it of the
write, the timer and flushes, the file, and a shutdown. `ShutdownLeavesNothing` needs
one thing more (`WaitedInv`): once the store's listener is detached only deliveries mark
generations, so that somebody waits for the last one, and if it is not written somebody's
flush has failed.

**Publication.** Whatever is under way, a build, a queued payload or a browser's board,
is a view of the project at an earlier time, and those times are ordered along the way a
publication takes: `NeverGoesBack`. What a browser does not show yet is carried by
somebody: a caller that has not scheduled its commit, a lane, a retry, a catch-up. When
nothing carries anything, the browser is current: `QuietIsCurrent`. `MoveRunsAlone` is
the exclusion of the coordinator's admissions and of the drained lane (`MoveInv`): from the
suspension to the refresh nothing is prepared or built, and during the announcement only
the relocation's own snapshot, which has the new location.

**Ownership.** `Inv` states, per stage of a handoff, a restart and a recovery, which
process may be alive, which record is durable and what is persisted of a pending
handoff. Its core is that a structured process that can write is the one that the record
names, except while its launch is being recorded (`LiveOwnerIsRecorded`).
`OneWriterAtATime` assumes `MaxRestarts = 0`: with one automatic restart `SingleWriter`
is false, as `ownership_restart_race` shows, so the hypothesis is what the code needs
rather than what the prover needs. The other ownership theorems allow restarts.

**Lifecycle.** The operations on a task share its card, its process and its worktree and
are ordered by the coordinator (`Order`). `Running(o)` says of the one that runs what its
stage and the receipts of its commands tell of the card; `Reported(o)` what the last
outcome still claims. Receipts are what survives a crash, so every stage that recovery
may run again is described by them: `StartsOnce` holds since a launch is only reached
through a receipt that a second run finds, `DeletionOrdered` since the worktree goes
before the card. `lifecycle_replayed_trash` is what the same receipts do not tell.

**Browser.** `Inv` says that every revision held is one of the history, that a board
which is no edit is the board of such a revision, that an edit in the queue is in the
hands of a pump unless the queue is idle, and how much of the bounds each commit has
used. Refused edits need a second invariant (`EditsInv`): an unsaved edit is shown or
cached only while it is pending; if the board is not confirmed, its queue is idle, so
that nobody refuses it before a state has arrived; and the cached one will be replaced,
because no state that can still arrive is older than the entry. Only a lifecycle answer
to an earlier visit can be older, and what it leaves in the cache is `outlived`. All of
this is proved of `Spec`, with actions that end at any time after a return.

**Hooks.** Hooks are named by the time of their capture, taken in any order, and judged
by what was judged before, so the invariant has to say of *every* order in which the
hooks on their way may still be heard that it ends well. It is built in four layers:

- `TypeInv`: the values; every hook was captured in the past; what was judged,
  acknowledged or written is not on its way again, even after a crash sends what was
  not acknowledged a second time. It gives `TypeOK`.
- `AliveInv`, while the process lives: Claude's own bookkeeping of turn, tools and
  dialog, and that no hook speaks for a prompt or a tool that has not been. With
  `TypeInv` it gives the two action properties: `WaitIsNotForged`, by the reducer's
  cases while a wait is outstanding, and `CutTurnStaysCut`, since a hook of a retired
  prompt is refused and an unnamed one too until a prompt is submitted.
- `NamedInv`, if hooks name their prompt: that the prompts, tools and times the guard
  holds have been, and that the start of an open tool is the first it hears of the tool.
- `LatestInv`, for the latest prompt while none works on behind it (`~agent.stray`). `OrderOK` says in which order what is on its way
  was captured, `StopOK` that the last Stop of a turn which has stopped is on its way
  and will be accepted, or has been heard and nothing on its way reopens what it
  closed, `AskOK` that a dialog's request is on its way and will be accepted, or the
  wait is there and nothing on its way ends it. With nothing on its way, `StopOK` is
  `FinishedIsReview` and `AskOK` is `WaitIsShown`.

The last two layers and the theorems built on them (`InvariantHolds`,
`FinishedTurnsAreReview`, `DialogsAreShown`) assume `~MayOmit`. Without it both
properties are false (section 3); the other three theorems hold with or without it.

Only model-checked: liveness (`EveryOperationEnds`, `BarriersSettle`, `ShutdownEnds`,
`HandoffsEnd`, `RuntimeSettles`, `Settles`, `ActionsEnd`), which the proof system cannot
express under fairness; `RestoreAgrees`, which compares the guard in memory with one
folded from the compacted receipts: that removing a receipt changes no later verdict is
an induction over the list of receipts, which these provers cannot do; and the properties of the runs that expect a violation, which are false. No
module uses recursive operators (recursion over receipts in `HookEventOrder` is a
fold), so every module may have theorems.

## 8. Not modelled

Within the modelled parts:

- *State and sessions*: pruning and repair of session maps, image externalisation,
  locks over several paths, the lock file between processes, a second writer of the
  same project after relocation.
- *Ownership*: the shutdown and removal of a project, launch path reconciliation,
  deletion of a task, interaction receipts, several providers and profiles, pruning
  of receipts, failing journal writes, a structured process that outlives its
  runtime before it is recorded.
- *Lifecycle*: automatic restarts, starts that bypass the service, a task created
  again under its id, instance fences of a stop, detail shells apart from their stop,
  structured owners, pruning of finished operations, a corrupt journal, Clear Trash.
- *Publication*: several browsers and projects, the project list, session deltas,
  notifications, closing at shutdown, removal of a project, the read and summary
  caches. Relocations are serialised by the registry, so one is modelled at a time.
- *Browser*: other projects' queues, overlays that throw, availability, metadata,
  images. The first state of a new stream may be older than what is shown. A preload
  that a third visit still awaits is taken for one of that visit.
- *Hooks*: subagents, elicitations, plan approvals, typed-ahead prompts, Codex and
  Pi, limits of age and count, incomplete Stops. `MayOmit` lets hooks omit their
  prompt's identity, as older versions of Claude do; the run leaves it off.

Whole components not modelled are listed in `PROJECT.json` with the reason. Those
of the last row of the inventory parse, render, poll or call other programs and
keep no state whose interleavings matter to the rest.

## 9. Plan

1. `ProjectStore`, `ProjectStateTransaction`, crash consistency. *Done.*
2. `SessionPersistence` with the board commands that race it. *Done.*
3. `ExecutionOwnership`: handoffs, crashes inside them, events of former owners,
   startup recovery. *Done*; left: project shutdown, interaction receipts.
4. `TaskLifecycle`: durable operations, rebase, compensation, recovery. *Done.*
5. `HookEventOrder`, `SessionStateMachine`, `ProviderHooks`. *Done* for Claude's
   foreground, with their proofs; left: subagents, Codex.
6. `BoardPublication` and `BrowserProjectSync`. *Done*; left: the read cache and the
   coalesced refresh of the project list.
7. Runtime ownership, shutdown, terminal restore, task image sweep.
8. Proofs. *Done* for the safety of all modules; left: `RestoreAgrees`.
