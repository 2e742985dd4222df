------------------------ MODULE BrowserProjectSync -------------------------
(***************************************************************************)
(* One browser's view of one project                                       *)
(* (web-ui/src/hooks/project/use-project-sync.ts): edits are shown at once *)
(* and sent, one batch at a time, with an identity and a revision; the     *)
(* answers, the runtime's stream, fetches and a cached board all enter     *)
(* through one apply step that overlays what is still pending.  Lifecycle  *)
(* actions show what they intend, flush the queue, and are sent to the     *)
(* runtime (hooks/board/use-task-lifecycle-operations.ts).  The user may   *)
(* leave the project for another and return while all of this goes on.     *)
(*                                                                         *)
(* A board is the writer of its last commit: what the properties tell      *)
(* apart is whose change is shown.  The committed states are the prefixes  *)
(* of "log", so a state that the browser holds is a revision.              *)
(***************************************************************************)
EXTENDS Integers, Sequences, SequencesExt

CONSTANTS
    MaxEdits,  \* bound: edits of the user
    Events,    \* the kinds of other events that happen: commits of other clients and
               \* of the runtime, lifecycle actions, triggered fetches, lost commands
               \* and actions, fetches that fail, and switches to another project
    MaxEvents  \* bound: other events

ASSUME BoundsAssumption == {MaxEdits, MaxEvents} \subseteq Nat
ASSUME EventsAssumption ==
    Events \subseteq {"commit", "action", "fetch", "loss", "outage", "leave"}

(* Revisions the browser does not have. *)
None == -1

(* Boards: an edit's number, the initial board 0, and the negated revision of
   a commit of somebody else. *)
Edits == 1 .. MaxEdits
Presented == MaxEdits + 1  \* the intent of a lifecycle action, never committed
Empty == MaxEdits + 2      \* createInitialBoardData

Fetchers == {"pump", "sync", "life"}

VARIABLES
    log,       \* the durable commits of the project
    queue,     \* the ProjectBoardCommandQueue and the stage of its pump
    call,      \* the command that the pump has sent
    late,      \* commands given up by the browser that may still arrive
    browser,   \* authoritative version, last state, shown board, cache restore
    cache,     \* the project's entry of project-board-cache.ts
    streamed,  \* the newest revision that the stream has carried
    fetch,     \* refreshProjectState per caller
    life,      \* the lifecycle action in progress
    outlived,  \* history, read by a property only: cached edits that outlived an answer
    spent      \* how much of the bounds has been used

vars == <<log, queue, call, late, browser, cache, streamed, fetch, life, outlived, spent>>

NoCall == [at |-> "none", id |-> 0, expected |-> 0, revision |-> 0]
NoFetch == [at |-> "none", revision |-> 0, latest |-> FALSE]
NoEntry == [revision |-> None, board |-> Empty]
NoAction == [at |-> "none", owed |-> {}, revision |-> 0]

Value(r) == IF r = 0 THEN 0 ELSE log[r]
Pending == {queue.pending[i] : i \in DOMAIN queue.pending}
Revisions == 0 .. (MaxEdits + MaxEvents)
Boards == -(MaxEdits + MaxEvents) .. Empty

TypeOK ==
    /\ \A i \in DOMAIN log : log[i] \in Edits \cup {-i}
    /\ Len(log) \in Revisions
    /\ queue.revision \in Revisions \cup {None}
    /\ queue.pending \in BoundedSeq(Edits, MaxEdits)
    /\ queue.at \in {"idle", "first", "second", "refresh"}
    /\ queue.refreshed \in BOOLEAN
    /\ call \in [at: {"none", "request", "done", "conflict"}, id: 0 .. MaxEdits,
                 expected: Revisions, revision: Revisions]
    /\ late \subseteq [id: Edits, expected: Revisions]
    /\ browser \in [selected: BOOLEAN, version: Revisions \cup {None}, last: Revisions \cup {None},
                    shown: Boards, restore: Revisions \cup {None}, applied: BOOLEAN]
    /\ cache \in [revision: Revisions \cup {None}, board: Boards]
    /\ streamed \in Revisions
    /\ fetch \in [Fetchers -> [at: {"none", "asked", "read"}, revision: Revisions, latest: BOOLEAN]]
    /\ life \in [at: {"none", "flushing", "waiting", "sent", "answered", "restoring"},
                 owed: SUBSET Edits, revision: Revisions]
    /\ outlived \subseteq Edits
    /\ spent \in [edits: 0 .. MaxEdits, events: 0 .. MaxEvents]
    /\ call.at # "none" <=> queue.at \in {"first", "second"}
    /\ fetch["pump"].at # "none" <=> queue.at = "refresh"

Init ==
    /\ log = <<>>
    /\ queue = [revision |-> None, pending |-> <<>>, at |-> "idle", refreshed |-> FALSE]
    /\ call = NoCall
    /\ late = {}
    /\ browser = [selected |-> TRUE, version |-> None, last |-> None, shown |-> Empty,
                  restore |-> None, applied |-> FALSE]
    /\ cache = NoEntry
    /\ streamed = 0
    /\ fetch = [f \in Fetchers |-> NoFetch]
    /\ life = NoAction
    /\ outlived = {}
    /\ spent = [edits |-> 0, events |-> 0]

Spend(bound, limit) == spent[bound] < limit /\ spent' = [spent EXCEPT ![bound] = @ + 1]
Event(kind) == kind \in Events /\ Spend("events", MaxEvents)

-----------------------------------------------------------------------------
(* The one apply step. *)

(* mergeProjectStateByRevision *)
Merged(b, r) == IF r < b.last THEN b.last ELSE r

(* resolveAuthoritativeBoardAction: the shown board is kept at the revision it
   already has, and when the runtime confirms the cached one. *)
MutantResolved(b, r) ==
    IF b.version = r \/ (b.version = None /\ b.restore # None) THEN b.shown ELSE Value(r)
Resolved(b, r) ==
    IF b.version = r \/ (b.version = None /\ b.restore = r) THEN b.shown ELSE Value(r)

(* applyPendingProjectBoardCommands *)
Overlaid(board, pending) == IF pending = <<>> THEN board ELSE Last(pending)

(* mergeCacheEntry and updateProjectBoardCache *)
Recached(r, board) ==
    IF cache.revision = None \/ cache.revision > r THEN cache
    ELSE [revision |-> r, board |-> board]

Show(b, pending, r) ==
    LET revision == Merged(b, r)
        board == Resolved(b, revision) IN
    /\ browser' = [b EXCEPT !.version = revision, !.last = revision, !.restore = None,
                            !.applied = TRUE, !.shown = Overlaid(board, pending)]
    /\ cache' = Recached(revision, board)

(* The version of a board that must be hydrated again, exactly. *)
Forgotten(b) == [b EXCEPT !.version = None]

(* applyLifecycleProjectState *)
ShowAction(r) == Show(IF r >= browser.version THEN Forgotten(browser) ELSE browser,
                      queue.pending, r)

-----------------------------------------------------------------------------
(* The runtime: a command is replayed, refused or committed. *)

Arrive(id, expected) ==
    IF Contains(log, id) \/ expected # Len(log) THEN UNCHANGED log ELSE log' = Append(log, id)

Serve ==
    /\ call.at = "request"
    /\ Arrive(call.id, call.expected)
    /\ call' = [call EXCEPT !.at = IF Contains(log', call.id) THEN "done" ELSE "conflict",
                            !.revision = Len(log')]
    /\ UNCHANGED <<queue, late, browser, cache, streamed, fetch, life, outlived, spent>>

ServeLate ==
    \E command \in late :
        /\ Arrive(command.id, command.expected)
        /\ late' = late \ {command}
        /\ UNCHANGED <<queue, call, browser, cache, streamed, fetch, life, outlived, spent>>

(* Somebody else commits. *)
Others ==
    /\ Event("commit")
    /\ log' = Append(log, -(Len(log) + 1))
    /\ UNCHANGED <<queue, call, late, browser, cache, streamed, fetch, life, outlived>>

-----------------------------------------------------------------------------
(* refreshProjectState.  Only the newest request may apply its answer. *)

Asked(f) ==
    [g \in Fetchers |-> IF g = f THEN [at |-> "asked", revision |-> 0, latest |-> TRUE]
                        ELSE [fetch[g] EXCEPT !.latest = FALSE]]

FetchReads(f) ==
    /\ fetch[f].at = "asked"
    /\ fetch' = [fetch EXCEPT ![f].at = "read", ![f].revision = Len(log)]
    /\ UNCHANGED <<log, queue, call, late, browser, cache, streamed, life, outlived, spent>>

(* queue.revision follows the board that is applied to an idle queue. *)
Followed(r) ==
    IF queue.at = "idle" /\ queue.pending = <<>> /\ queue.revision # None
    THEN [queue EXCEPT !.revision = r] ELSE queue

(* A successful fetch is seen by a pump that refreshes: the count is one for
   all projects. *)
Counted(q) == [q EXCEPT !.refreshed = q.at = "refresh"]

(* What the pump does once its refresh has ended: its queue stops, and the
   actions that wait for it fail. *)
Stopped(q, version) ==
    [q EXCEPT !.at = "idle", !.refreshed = FALSE,
              !.revision = IF q.refreshed /\ version # None THEN version ELSE @]

MutantUnflushed == IF life.at = "flushing" THEN [life EXCEPT !.at = "waiting"] ELSE life
Unflushed == IF life.at = "flushing" THEN NoAction ELSE life

(* A fetch ends: "answered" tells whether its answer came. *)
FetchEnds(f, answered) ==
    LET applies == answered /\ fetch[f].latest /\ browser.selected IN
    /\ fetch' = [fetch EXCEPT ![f] = NoFetch]
    /\ CASE f = "sync" ->
              /\ IF applies
                 THEN /\ Show(browser, queue.pending, fetch[f].revision)
                      /\ queue' = Counted(Followed(browser'.version))
                 ELSE UNCHANGED <<browser, cache, queue>>
              /\ UNCHANGED life
         [] f = "life" ->
              /\ IF applies
                 THEN /\ ShowAction(fetch[f].revision)
                      /\ queue' = Counted(Followed(browser'.version))
                 ELSE UNCHANGED <<browser, cache, queue>>
              /\ life' = NoAction
         [] f = "pump" ->
              /\ IF applies
                 THEN /\ Show(browser, queue.pending, fetch[f].revision)
                      /\ queue' = Stopped([queue EXCEPT !.refreshed = TRUE], browser'.version)
                 ELSE /\ browser' = IF queue.refreshed \/ ~browser.selected THEN browser
                                    ELSE Forgotten(browser)
                      /\ queue' = Stopped(queue, browser.version)
                      /\ UNCHANGED cache
              /\ life' = Unflushed

FetchAnswers(f) ==
    /\ fetch[f].at = "read"
    /\ FetchEnds(f, TRUE)
    /\ UNCHANGED <<log, call, late, streamed, outlived, spent>>

FetchFails(f) ==
    /\ fetch[f].at # "none"
    /\ Event("outage")
    /\ FetchEnds(f, FALSE)
    /\ UNCHANGED <<log, call, late, streamed, outlived>>

(* The effects that fetch: a new stream or a visible document, and the retry
   of a project that is not hydrated. *)
MayFetch == browser.selected /\ (fetch["sync"].at = "none" \/ ~fetch["sync"].latest)

Trigger ==
    /\ MayFetch
    /\ Event("fetch")
    /\ fetch' = Asked("sync")
    /\ UNCHANGED <<log, queue, call, late, browser, cache, streamed, life, outlived>>

Hydrate ==
    /\ MayFetch
    /\ ~browser.applied
    /\ fetch' = Asked("sync")
    /\ UNCHANGED <<log, queue, call, late, browser, cache, streamed, life, outlived, spent>>

(* The runtime's stream carries a state: a newer one, or the same one again
   with other sessions. *)
Deliver ==
    /\ browser.selected
    /\ \E r \in streamed .. Len(log) :
          /\ streamed' = r
          /\ Show(browser, queue.pending, r)
    /\ queue' = Followed(browser'.version)
    /\ UNCHANGED <<log, call, late, fetch, life, outlived, spent>>

-----------------------------------------------------------------------------
(* The edits of the user and the pump of their queue. *)

MutantMayPump == queue.at \in {"idle", "refresh"}
MayPump == queue.at = "idle"

Command(q) == [at |-> "request", id |-> Head(q.pending), expected |-> q.revision, revision |-> 0]

Pump(q) ==
    IF MayPump THEN queue' = [q EXCEPT !.at = "first"] /\ call' = Command(q)
    ELSE queue' = q /\ UNCHANGED call

(* setBoard, on a board that the runtime has confirmed *)
Edit ==
    /\ browser.selected
    /\ browser.version # None
    /\ Spend("edits", MaxEdits)
    /\ browser' = [browser EXCEPT !.shown = spent'.edits]
    /\ Pump([queue EXCEPT !.revision = IF @ = None THEN browser.version ELSE @,
                          !.pending = Append(@, spent'.edits)])
    /\ UNCHANGED <<log, late, cache, streamed, fetch, life, outlived>>

(* A batch is committed: its state is applied exactly unless a newer one is
   shown, or only cached if the user has left; the next batch follows at its
   revision. *)
Committed ==
    /\ call.at = "done"
    /\ LET rest == [queue EXCEPT !.pending = Tail(@), !.revision = call.revision] IN
       /\ IF rest.pending # <<>>
          THEN queue' = [rest EXCEPT !.at = "first"] /\ call' = Command(rest) /\ UNCHANGED life
          ELSE /\ queue' = [rest EXCEPT !.at = "idle"]
               /\ call' = NoCall
               /\ life' = IF life.at = "flushing" THEN [life EXCEPT !.at = "waiting"] ELSE life
       /\ IF browser.selected
          THEN Show(IF browser.version <= call.revision THEN Forgotten(browser) ELSE browser,
                    rest.pending, call.revision)
          ELSE cache' = Recached(call.revision, Value(call.revision)) /\ UNCHANGED browser
    /\ UNCHANGED <<log, late, streamed, fetch, outlived, spent>>

(* A failed batch takes the ones behind it along.  The last confirmed board is
   shown again, exactly, and a fresh one is fetched. *)
MutantRolledBack == Show(browser, <<>>, browser.last)
RolledBack ==
    IF browser.last = None THEN browser' = Forgotten(browser) /\ UNCHANGED cache
    ELSE Show(Forgotten(browser), <<>>, browser.last)

Fail ==
    /\ call' = NoCall
    /\ IF browser.selected
       THEN /\ RolledBack
            /\ queue' = [queue EXCEPT !.pending = <<>>, !.at = "refresh", !.refreshed = FALSE]
            /\ fetch' = Asked("pump")
            /\ UNCHANGED life
       ELSE /\ queue' = [queue EXCEPT !.pending = <<>>, !.at = "idle"]
            /\ life' = Unflushed
            /\ UNCHANGED <<browser, cache, fetch>>

Refused ==
    /\ call.at = "conflict"
    /\ Fail
    /\ UNCHANGED <<log, late, streamed, outlived, spent>>

(* No answer comes.  The first time the same command is sent again, at the
   same revision; a request that was on its way may still arrive. *)
Lost ==
    /\ call.at # "none"
    /\ Event("loss")
    /\ late' = IF call.at = "request"
               THEN late \cup {[id |-> call.id, expected |-> call.expected]} ELSE late
    /\ IF queue.at = "first"
       THEN /\ queue' = [queue EXCEPT !.at = "second"]
            /\ call' = Command(queue)
            /\ UNCHANGED <<browser, cache, fetch, life>>
       ELSE Fail
    /\ UNCHANGED <<log, streamed, outlived>>

-----------------------------------------------------------------------------
(* Lifecycle actions. *)

(* presentLifecycleBoard, then executeTaskLifecycle, which flushes the queue. *)
MutantFlush == UNCHANGED <<queue, call>>
Flush == IF queue.pending = <<>> THEN UNCHANGED <<queue, call>> ELSE Pump(queue)

Act ==
    /\ browser.selected
    /\ browser.version # None
    /\ life.at = "none"
    /\ Event("action")
    /\ browser' = [browser EXCEPT !.shown = Presented]
    /\ life' = [NoAction EXCEPT !.at = IF queue.at = "idle" /\ queue.pending = <<>>
                                       THEN "waiting" ELSE "flushing",
                                !.owed = Pending]
    /\ Flush
    /\ UNCHANGED <<log, late, cache, streamed, fetch, outlived>>

(* waitForAuthoritativeRevision *)
ActSend ==
    /\ life.at = "waiting"
    /\ life' = IF browser.selected /\ browser.version # None
               THEN [life EXCEPT !.at = "sent"] ELSE NoAction
    /\ UNCHANGED <<log, queue, call, late, browser, cache, streamed, fetch, outlived, spent>>

ActServe ==
    /\ life.at = "sent"
    /\ log' \in {log, Append(log, -(Len(log) + 1))}
    /\ life' = [life EXCEPT !.at = "answered", !.revision = Len(log')]
    /\ UNCHANGED <<queue, call, late, browser, cache, streamed, fetch, outlived, spent>>

(* The first state shown since the return is the answer to an action of an
   earlier visit, and older than the cached board: mergeCacheEntry keeps that
   board, with the edits that were pending when it was cached. *)
Outliving ==
    IF browser.selected /\ browser.last = None /\ life.revision < cache.revision
    THEN {cache.board} \cap Edits ELSE {}

ActEnds ==
    /\ life.at = "answered"
    /\ life' = NoAction
    /\ IF browser.selected
       THEN ShowAction(life.revision) /\ queue' = Followed(browser'.version)
       ELSE UNCHANGED <<browser, cache, queue>>
    /\ outlived' = outlived \cup Outliving
    /\ UNCHANGED <<log, call, late, streamed, fetch, spent>>

(* The answer, its retry and the status query are lost: the board is fetched. *)
ActLost ==
    /\ life.at \in {"sent", "answered"}
    /\ Event("loss")
    /\ IF browser.selected
       THEN fetch' = Asked("life") /\ life' = [life EXCEPT !.at = "restoring"]
       ELSE life' = NoAction /\ UNCHANGED fetch
    /\ UNCHANGED <<log, queue, call, late, browser, cache, streamed, outlived>>

-----------------------------------------------------------------------------
(* resetProjectSyncState: the user leaves for another project and returns.
   Fetches in flight no longer apply; the pump and a lifecycle action go on, and
   the other project may have been fetched by the time of the return.  The stream
   of the next visit is a new one: its states, and a preloaded first one, are read
   after the user has left. *)

Leave ==
    /\ browser.selected
    /\ Event("leave")
    /\ browser' = [selected |-> FALSE, version |-> None, last |-> None, shown |-> Empty,
                   restore |-> None, applied |-> FALSE]
    /\ cache' = IF browser.version = None \/ cache.revision > browser.version THEN cache
                ELSE [revision |-> browser.version, board |-> Value(browser.last)]
    /\ fetch' = [f \in Fetchers |-> [fetch[f] EXCEPT !.latest = FALSE]]
    /\ streamed' = Len(log)
    /\ UNCHANGED <<log, queue, call, late, life, outlived>>

Return ==
    /\ ~browser.selected
    /\ browser' = [browser EXCEPT !.selected = TRUE, !.shown = cache.board,
                                  !.restore = cache.revision]
    /\ queue' \in {queue, Counted(queue)}
    /\ UNCHANGED <<log, call, late, cache, streamed, fetch, life, outlived, spent>>

(* The entry grows old or is evicted. *)
CacheExpires ==
    /\ ~browser.selected
    /\ cache # NoEntry
    /\ cache' = NoEntry
    /\ UNCHANGED <<log, queue, call, late, browser, streamed, fetch, life, outlived, spent>>

-----------------------------------------------------------------------------
Pumping == Serve \/ Committed \/ Refused
Fetching == \E f \in Fetchers : FetchReads(f) \/ FetchAnswers(f)
Acting == ActSend \/ ActServe \/ ActEnds

Environment ==
    \/ Edit \/ Act \/ Others \/ ServeLate \/ Trigger \/ Deliver \/ Leave \/ Return
    \/ CacheExpires \/ Lost \/ ActLost \/ \E f \in Fetchers : FetchFails(f)

Next == Pumping \/ Fetching \/ Acting \/ Hydrate \/ Environment

Spec == Init /\ [][Next]_vars

(* The runtime answers, and the browser's timers and callbacks run.  Nothing
   is owed by the user, by other clients or by the stream. *)
Fairness ==
    /\ WF_vars(Pumping) /\ WF_vars(Acting) /\ WF_vars(Hydrate)
    /\ \A f \in Fetchers : WF_vars(FetchReads(f) \/ FetchAnswers(f))

FairSpec == Spec /\ Fairness

-----------------------------------------------------------------------------
(* Properties. *)

(* docs/conventions/runtime-state.md:94: "treat the runtime board as authoritative,
   with pending local command batches overlaid only for optimistic presentation".
   What the user sees, and what the cache would show on a return, is a change that
   is durable, the intent of a lifecycle action, or an edit that is still pending
   (project-board-cache.ts:18-22: "may include optimistic command overlays"): an
   edit that was refused or given up, and is not durable, never comes back, be it
   by the cache, a fetch, a late answer, the overlay or a visit.  Exempt is the
   edit that "Outliving" describes: it may be shown again after its refusal. *)
RefusedEditsAreGone ==
    \A board \in {browser.shown, cache.board} :
        board \in Edits => board \in Pending \cup ToSet(log) \cup outlived

(* A confirmed board is never older than what confirmed it: it shows the
   newest state applied, or changes of this browser on top of it. *)
ShownIsNewest ==
    browser.selected /\ browser.version # None /\ browser.shown <= 0 =>
        browser.shown = Value(browser.version)

(* A lifecycle action is sent only when every edit made before it is durable. *)
FlushTellsTruth == life.at = "sent" => life.owed \subseteq ToSet(log)

(* A lifecycle action ends, whatever happens to the queue it waits for. *)
ActionsEnd == life.at # "none" ~> life.at = "none"
=============================================================================
