------------------------- MODULE BoardPublication --------------------------
(***************************************************************************)
(* How the committed state of one project reaches a browser, and how the   *)
(* relocation of the project's folder keeps out of its way:                *)
(*  - the publication lane (server/project-state-publication-scheduler.ts) *)
(*    enriches the newest commit and broadcasts it, with bounded retries;  *)
(*  - the hub (server/runtime-state-hub.ts) also broadcasts snapshots that *)
(*    it builds itself, and gives a connecting browser a snapshot and,     *)
(*    when it missed something meanwhile, a catch-up;                      *)
(*  - a relocation (server/project-location-service.ts, project-           *)
(*    relocation-quiesce.ts) waits for the admitted snapshots, drains the  *)
(*    lane, suspends the hub, moves, and refreshes or, failing, resumes;   *)
(*  - the browser (web-ui runtime/project-state-ordering.ts) merges what   *)
(*    it is sent by two clocks: the board's and the project metadata's.    *)
(***************************************************************************)
EXTENDS Integers

CONSTANTS
    Retries,         \* entries of PROJECT_STATE_PUBLICATION_RETRY_DELAYS_MS
    MaxCommits,      \* bound: board commits
    MaxRenames,      \* bound: changes of the project's metadata alone
    MaxMoves,        \* bound: relocations
    MaxBroadcasts,   \* bound: snapshots broadcast on request
    MaxConnections,  \* bound: connections of the browser
    MaxFaults        \* bound: preparations, builds and relocations that fail

ASSUME BoundsAssumption ==
    {Retries, MaxCommits, MaxRenames, MaxMoves, MaxBroadcasts, MaxConnections, MaxFaults}
        \subseteq Nat

(* Who asked for a snapshot: the hub itself, the connecting browser, or the
   end of a relocation. *)
Builders == {"live", "client", "move"}

(* The folder's locations are numbered in the order it takes them. *)
States == [revision: Nat, metadata: Nat, place: Nat]
Nothing == [revision |-> -1, metadata |-> -1, place |-> -1]

VARIABLES
    saved,      \* the durable board revision, metadata revision and location
    returning,  \* committed states whose callers have not scheduled them yet
    lane,       \* ProjectPublicationLane, without its running promise
    run,        \* the lane's running preparation
    builds,     \* buildProjectStateSnapshot per builder
    suspended,  \* the hub's suspendedProjects
    browser,    \* the browser's connection and the state it shows
    move,       \* the relocation
    lost,       \* an update was given up for good
    spent       \* how much of the bounds has been used

vars == <<saved, returning, lane, run, builds, suspended, browser, move, lost, spent>>

Free == [pending |-> Nothing, backoff |-> FALSE, attempts |-> 0, published |-> -1,
         drained |-> FALSE]
NoRun == [at |-> "none", state |-> Nothing, scope |-> Nothing, answer |-> ""]
NoBuild == [at |-> "none", state |-> Nothing]

Exclusive == {"waiting", "draining", "suspending", "moving", "indexing", "refreshing",
              "announcing"}
MoveStages == Exclusive \cup {"idle", "failed", "resuming", "reannouncing"}

TypeOK ==
    /\ saved \in States
    /\ returning \subseteq States
    /\ lane \in [pending: States \cup {Nothing}, backoff: BOOLEAN, attempts: 0 .. Retries,
                 published: Nat \cup {-1}, drained: BOOLEAN]
    /\ run \in [at: {"none", "scope", "check", "end"}, state: States \cup {Nothing},
                scope: States \cup {Nothing},
                answer: {"", "ready", "superseded", "metadata_changed", "failed"}]
    /\ builds \in [Builders -> [at: {"none", "waiting", "board", "send", "failed"},
                                state: States \cup {Nothing}]]
    /\ suspended \in BOOLEAN
    /\ browser \in [at: {"off", "loading", "live"}, missed: BOOLEAN,
                    shown: States \cup {Nothing}]
    /\ move \in MoveStages
    /\ lost \in BOOLEAN
    /\ spent \in [commits: 0 .. MaxCommits, renames: 0 .. MaxRenames, moves: 0 .. MaxMoves,
                  broadcasts: 0 .. MaxBroadcasts, connections: 0 .. MaxConnections,
                  faults: 0 .. MaxFaults]

Init ==
    /\ saved = [revision |-> 0, metadata |-> 0, place |-> 0]
    /\ returning = {}
    /\ lane = Free
    /\ run = NoRun
    /\ builds = [b \in Builders |-> NoBuild]
    /\ suspended = FALSE
    /\ browser = [at |-> "off", missed |-> FALSE, shown |-> Nothing]
    /\ move = "idle"
    /\ lost = FALSE
    /\ spent = [commits |-> 0, renames |-> 0, moves |-> 0, broadcasts |-> 0,
                connections |-> 0, faults |-> 0]

Spend(bound, limit) == spent[bound] < limit /\ spent' = [spent EXCEPT ![bound] = @ + 1]
Fault == Spend("faults", MaxFaults)

-----------------------------------------------------------------------------
(* The browser. *)

(* mergeProjectStateByRevision: board and metadata each keep their newest. *)
MutantMerge(current, incoming) ==
    IF incoming.metadata < current.metadata
    THEN [current EXCEPT !.revision = incoming.revision] ELSE incoming
Merge(current, incoming) ==
    LET board == IF incoming.revision < current.revision THEN current ELSE incoming
        metadata == IF incoming.metadata < current.metadata THEN current ELSE incoming IN
    [metadata EXCEPT !.revision = board.revision]

(* Marking a publication: a browser whose snapshot is still loading will have
   missed it. *)
Marked == [browser EXCEPT !.missed = @ \/ browser.at = "loading"]

(* broadcastRuntimeProjectStateSnapshot *)
Broadcast(state) ==
    browser' = IF suspended THEN browser
               ELSE [Marked EXCEPT !.shown =
                       IF browser.at = "live" THEN Merge(@, state) ELSE @]

-----------------------------------------------------------------------------
(* The publication lane. *)

(* kick, applied to a lane whose run has ended: the lane and run after it. *)
Kicked(l) ==
    IF l.backoff \/ l.pending = Nothing \/ l.drained
    THEN lane' = l /\ run' = NoRun
    ELSE /\ lane' = [l EXCEPT !.pending = Nothing]
         /\ run' = [NoRun EXCEPT !.at = "scope", !.state = l.pending]

(* kick while a run may be in flight *)
Kick(l) == IF run.at = "none" THEN Kicked(l) ELSE lane' = l /\ UNCHANGED run

(* schedule *)
Accepts(state) ==
    /\ ~lane.drained
    /\ state.revision >= lane.published
    /\ state.revision >= lane.pending.revision

Schedule(state) ==
    IF ~Accepts(state) THEN UNCHANGED <<lane, run>>
    ELSE Kick([lane EXCEPT !.pending = state, !.backoff = FALSE,
                           !.attempts = IF lane.backoff THEN 0 ELSE @])

(* retry of the lane after its run failed or met newer metadata *)
Newer(state) == lane.pending.revision >= state.revision
MutantRetryLane(state) ==
    [lane EXCEPT !.pending = state, !.attempts = @ + 1]
RetryLane(state) ==
    IF lane.attempts < Retries
    THEN [lane EXCEPT !.pending = IF Newer(state) THEN @ ELSE state,
                      !.attempts = @ + 1, !.backoff = TRUE]
    ELSE [lane EXCEPT !.pending = Nothing, !.attempts = 0]

Cancelled == [lane EXCEPT !.pending = Nothing, !.attempts = 0, !.backoff = FALSE]

(* releaseProject *)
Released == IF run.at = "none" THEN Free ELSE [lane EXCEPT !.drained = FALSE]

(* prepareProjectStatePublication reads the scope, asks Git, and reads the
   scope again.  It takes no admission: a relocation may be waiting for it. *)
MutantObserve ==
    /\ run.at = "scope"
    /\ move \notin Exclusive
    /\ run' = [run EXCEPT !.scope = saved, !.at = IF saved.place = run.state.place
                                                 THEN "check" ELSE "end",
                          !.answer = "superseded"]
    /\ UNCHANGED <<saved, returning, lane, builds, suspended, browser, move, lost, spent>>

Observe ==
    /\ run.at = "scope"
    /\ run' = [run EXCEPT !.scope = saved, !.at = IF saved.place = run.state.place
                                                 THEN "check" ELSE "end",
                          !.answer = "superseded"]
    /\ UNCHANGED <<saved, returning, lane, builds, suspended, browser, move, lost, spent>>

Recheck ==
    /\ run.at = "check"
    /\ run' = [run EXCEPT !.at = "end", !.answer =
                 CASE saved.place # run.scope.place -> "superseded"
                   [] saved.place = run.scope.place /\ saved.metadata # run.scope.metadata ->
                        "metadata_changed"
                   [] OTHER -> "ready"]
    /\ UNCHANGED <<saved, returning, lane, builds, suspended, browser, move, lost, spent>>

PrepareFails ==
    /\ run.at \in {"scope", "check"}
    /\ Fault
    /\ run' = [run EXCEPT !.at = "end", !.answer = "failed"]
    /\ UNCHANGED <<saved, returning, lane, builds, suspended, browser, move, lost>>

(* The end of runOnce.  A failed preparation is retried even on a drained
   lane, which holds what it is given until it is released. *)
Publish ==
    /\ run.at = "end"
    /\ run.answer = "ready"
    /\ ~lane.drained
    /\ IF run.state.revision < lane.published
       THEN Kicked([lane EXCEPT !.attempts = 0]) /\ UNCHANGED browser
       ELSE /\ Kicked([lane EXCEPT !.attempts = 0, !.published = run.state.revision])
            /\ Broadcast([run.state EXCEPT !.metadata = run.scope.metadata])
    /\ UNCHANGED <<saved, returning, builds, suspended, move, lost, spent>>

Discard ==
    /\ run.at = "end"
    /\ \/ run.answer = "superseded"
       \/ run.answer # "failed" /\ lane.drained
    /\ Kicked(IF lane.drained THEN lane ELSE [lane EXCEPT !.attempts = 0])
    /\ UNCHANGED <<saved, returning, builds, suspended, browser, move, lost, spent>>

Retry ==
    /\ run.at = "end"
    /\ run.answer = "failed" \/ (run.answer = "metadata_changed" /\ ~lane.drained)
    /\ Kicked(RetryLane(run.state))
    /\ lost' = (lost \/ lane.attempts >= Retries)
    /\ UNCHANGED <<saved, returning, builds, suspended, browser, move, spent>>

BackoffEnds ==
    /\ lane.backoff
    /\ Kick([lane EXCEPT !.backoff = FALSE])
    /\ UNCHANGED <<saved, returning, builds, suspended, browser, move, lost, spent>>

-----------------------------------------------------------------------------
(* Commits and changes of the project's metadata. *)

(* A commit about the board.  Relocation has detached every writer between
   its suspension of the project and its refresh. *)
Commit ==
    /\ move \notin {"moving", "indexing", "refreshing"}
    /\ Spend("commits", MaxCommits)
    /\ saved' = [saved EXCEPT !.revision = @ + 1]
    /\ returning' = returning \cup {saved'}
    /\ UNCHANGED <<lane, run, builds, suspended, browser, move, lost>>

(* The caller of a commit schedules its publication. *)
Return ==
    \E state \in returning :
        /\ returning' = returning \ {state}
        /\ Schedule(state)
        /\ UNCHANGED <<saved, builds, suspended, browser, move, lost, spent>>

(* updateProjectIndexMetadata by a rename of the project *)
Rename ==
    /\ Spend("renames", MaxRenames)
    /\ saved' = [saved EXCEPT !.metadata = @ + 1]
    /\ UNCHANGED <<returning, lane, run, builds, suspended, browser, move, lost>>

-----------------------------------------------------------------------------
(* Snapshots built by the hub, under the shared admission of the project. *)

(* broadcastRuntimeProjectStateUpdated marks the publication at once, and
   builds only if somebody listens. *)
Request(b, stage) ==
    /\ browser' = Marked
    /\ builds' = [builds EXCEPT ![b] =
                     IF browser.at = "live" THEN [NoBuild EXCEPT !.at = "waiting"] ELSE NoBuild]
    /\ move' = stage

RequestBroadcast ==
    /\ builds["live"].at = "none"
    /\ Spend("broadcasts", MaxBroadcasts)
    /\ Request("live", move)
    /\ UNCHANGED <<saved, returning, lane, run, suspended, lost>>

(* The refresh of a relocation is admitted as part of it. *)
MayAdmit(b) == move \notin Exclusive \/ (b = "move" /\ move = "announcing")

Admit(b) ==
    /\ builds[b].at = "waiting"
    /\ MayAdmit(b)
    /\ builds' = [builds EXCEPT ![b] = [at |-> "board", state |-> saved]]
    /\ UNCHANGED <<saved, returning, lane, run, suspended, browser, move, lost, spent>>

(* The scope was read first, the board under its lock later. *)
ReadBoard(b) ==
    /\ builds[b].at = "board"
    /\ builds' = [builds EXCEPT ![b] =
                     [at |-> "send", state |-> [@.state EXCEPT !.revision = saved.revision]]]
    /\ UNCHANGED <<saved, returning, lane, run, suspended, browser, move, lost, spent>>

BuildFails(b) ==
    /\ builds[b].at = "board"
    /\ Fault
    /\ builds' = [builds EXCEPT ![b] = [NoBuild EXCEPT !.at = "failed"]]
    /\ UNCHANGED <<saved, returning, lane, run, suspended, browser, move, lost>>

(* A built snapshot is broadcast in whatever order the builds end. *)
Send(b) ==
    /\ b # "client"
    /\ builds[b].at \in {"send", "failed"}
    /\ IF builds[b].at = "send" THEN Broadcast(builds[b].state) ELSE UNCHANGED browser
    /\ builds' = [builds EXCEPT ![b] = NoBuild]
    /\ move' = IF b = "move" THEN "idle" ELSE move
    /\ lost' = (lost \/ (b = "move" /\ builds[b].at = "failed"))
    /\ UNCHANGED <<saved, returning, lane, run, suspended, spent>>

-----------------------------------------------------------------------------
(* The connection of the browser. *)

Connect ==
    /\ browser.at = "off"
    /\ Spend("connections", MaxConnections)
    /\ browser' = [browser EXCEPT !.at = "loading", !.missed = FALSE]
    /\ builds' = [builds EXCEPT !["client"].at = "waiting"]
    /\ UNCHANGED <<saved, returning, lane, run, suspended, move, lost>>

Disconnect ==
    /\ browser.at # "off"
    /\ browser' = [browser EXCEPT !.at = "off"]
    /\ builds' = [builds EXCEPT !["client"] = NoBuild]
    /\ UNCHANGED <<saved, returning, lane, run, suspended, move, lost, spent>>

Loaded == builds["client"].at \in {"send", "failed"}

(* enqueueConnectionCatchupForClient: what was published while the snapshot
   loaded, and a snapshot that could not be loaded, are caught up with. *)
MutantMustCatchUp == builds["client"].at = "failed"
MustCatchUp == browser.missed \/ builds["client"].at = "failed"

Shown(state) == IF builds["client"].at = "send" THEN Merge(browser.shown, state) ELSE browser.shown

(* The browser is sent its snapshot and registered for broadcasts in one step. *)
Register ==
    /\ browser.at = "loading"
    /\ Loaded
    /\ browser' = [at |-> "live", missed |-> FALSE, shown |-> Shown(builds["client"].state)]
    /\ builds' = [builds EXCEPT !["client"] =
                     IF MustCatchUp THEN [NoBuild EXCEPT !.at = "waiting"] ELSE NoBuild]
    /\ UNCHANGED <<saved, returning, lane, run, suspended, move, lost, spent>>

CatchUp ==
    /\ browser.at = "live"
    /\ Loaded
    /\ browser' = [browser EXCEPT !.shown = Shown(builds["client"].state)]
    /\ builds' = [builds EXCEPT !["client"] = NoBuild]
    /\ lost' = (lost \/ builds["client"].at = "failed")
    /\ UNCHANGED <<saved, returning, lane, run, suspended, move, spent>>

-----------------------------------------------------------------------------
(* The relocation of the project's folder. *)

RequestMove ==
    /\ move = "idle"
    /\ Spend("moves", MaxMoves)
    /\ move' = "waiting"
    /\ UNCHANGED <<saved, returning, lane, run, builds, suspended, browser, lost>>

(* Later admissions wait, those before it end.  Then stopProject drains the
   lane. *)
BeginMove ==
    /\ move = "waiting"
    /\ \A b \in Builders : builds[b].at # "board"
    /\ move' = "draining"
    /\ lane' = [Cancelled EXCEPT !.drained = TRUE]
    /\ UNCHANGED <<saved, returning, run, builds, suspended, browser, lost, spent>>

MutantDrained ==
    /\ move = "draining"
    /\ move' = "suspending"
    /\ UNCHANGED <<saved, returning, lane, run, builds, suspended, browser, lost, spent>>

(* drainProject has awaited the run in flight; the sessions are stopped. *)
Drained ==
    /\ move = "draining"
    /\ run.at = "none"
    /\ move' = "suspending"
    /\ UNCHANGED <<saved, returning, lane, run, builds, suspended, browser, lost, spent>>

(* suspendProject: the hub is suspended and the writers disposed. *)
Suspend ==
    /\ move = "suspending"
    /\ returning = {}
    /\ suspended' = TRUE
    /\ lane' = Cancelled
    /\ move' = "moving"
    /\ UNCHANGED <<saved, returning, run, builds, browser, lost, spent>>

(* relocateProjectPaths commits without a publication, if a path changes. *)
RewriteBoard ==
    /\ move = "moving"
    /\ move' = "indexing"
    /\ \/ Spend("commits", MaxCommits) /\ saved' = [saved EXCEPT !.revision = @ + 1]
       \/ UNCHANGED <<saved, spent>>
    /\ UNCHANGED <<returning, lane, run, builds, suspended, browser, lost>>

Index ==
    /\ move = "indexing"
    /\ saved' = [saved EXCEPT !.metadata = @ + 1, !.place = @ + 1]
    /\ move' = "refreshing"
    /\ UNCHANGED <<returning, lane, run, builds, suspended, browser, lost, spent>>

(* refreshProject *)
Refresh ==
    /\ move = "refreshing"
    /\ lane' = Released
    /\ suspended' = FALSE
    /\ Request("move", IF browser.at = "live" THEN "announcing" ELSE "idle")
    /\ UNCHANGED <<saved, returning, run, lost, spent>>

(* Any step after the quiesce may fail: the exclusive section ends, and then
   the project is resumed at whatever location is saved. *)
MoveFails ==
    /\ move \in {"suspending", "moving", "indexing", "refreshing"}
    /\ Fault
    /\ move' = "failed"
    /\ UNCHANGED <<saved, returning, lane, run, builds, suspended, browser, lost>>

ReleaseFences ==
    /\ move = "failed"
    /\ lane' = Released
    /\ move' = "resuming"
    /\ UNCHANGED <<saved, returning, run, builds, suspended, browser, lost, spent>>

Resume ==
    /\ move = "resuming"
    /\ suspended' = FALSE
    /\ Request("move", IF browser.at = "live" THEN "reannouncing" ELSE "idle")
    /\ UNCHANGED <<saved, returning, lane, run, lost, spent>>

(* The project cannot be resumed: the failure is reported, and the hub stays
   as it was. *)
ResumeFails ==
    /\ move = "resuming"
    /\ move' = "idle"
    /\ lost' = TRUE
    /\ UNCHANGED <<saved, returning, lane, run, builds, suspended, browser, spent>>

-----------------------------------------------------------------------------
Publication == Observe \/ Recheck \/ Publish \/ Discard \/ Retry \/ BackoffEnds
Snapshot == \E b \in Builders : Admit(b) \/ ReadBoard(b) \/ Send(b)
Relocation ==
    \/ BeginMove \/ Drained \/ Suspend \/ RewriteBoard \/ Index \/ Refresh
    \/ ReleaseFences \/ Resume

Progress == Return \/ Publication \/ Snapshot \/ Register \/ CatchUp \/ Relocation

Environment ==
    \/ Commit \/ Rename \/ RequestBroadcast \/ Connect \/ Disconnect \/ RequestMove
    \/ PrepareFails \/ MoveFails \/ ResumeFails \/ \E b \in Builders : BuildFails(b)

Next == Progress \/ Environment

Spec == Init /\ [][Next]_vars

(* The runtime takes the steps it has queued; nobody owes it a commit, a
   connection, a relocation or a fault. *)
FairSpec == Spec /\ WF_vars(Progress)

-----------------------------------------------------------------------------
(* Properties. *)

Settled ==
    /\ returning = {}
    /\ lane.pending = Nothing /\ run.at = "none"
    /\ \A b \in Builders : builds[b].at = "none"
    /\ move = "idle"

(* No update is lost: when nothing is left to do, a connected browser shows
   the newest board and the current location, however its connection, the
   commits, the drains and the refreshes were interleaved, unless a step gave
   up and reported it. *)
QuietIsCurrent ==
    Settled /\ browser.at = "live" /\ ~lost =>
        browser.shown.revision = saved.revision /\ browser.shown.place = saved.place

(* While the writers are stopped, the folder and its records change and the
   project is refreshed, nothing that the runtime does to publish reads them.
   While the relocation announces itself its own snapshot is the only one that is
   built, and that one is of the location it has saved. *)
MoveRunsAlone ==
    /\ move \in {"suspending", "moving", "indexing", "refreshing"} =>
          run.at = "none" /\ \A b \in Builders : builds[b].at # "board"
    /\ move = "announcing" => \A b \in Builders \ {"move"} : builds[b].at # "board"
    /\ builds["move"].at \in {"board", "send"} => builds["move"].state.place = saved.place

(* The browser never goes back to an older board, older metadata or an older
   location, across connections too. *)
NeverGoesBack ==
    [][\A clock \in {"revision", "metadata", "place"} :
          browser'.shown[clock] >= browser.shown[clock]]_vars

(* Publications, snapshots and relocations end: none of them waits for
   another that waits for it. *)
Settles == []<>Settled
=============================================================================
