---------------------- MODULE ProjectStateTransaction ----------------------
(***************************************************************************)
(* How one project's board, sessions and metadata files are read and       *)
(* committed (state/project-state-transaction.ts, state/project-state.ts,  *)
(* fs/locked-file-system.ts, state/project-board-command-service.ts).      *)
(*                                                                         *)
(* Every operation of the runtime runs under the project directory lock.   *)
(* It first finishes whatever journal an earlier holder left, then reads   *)
(* the metadata and the board, decides, and, if there is something to      *)
(* commit, renames a journal holding the whole next state into place and   *)
(* installs it file by file.                                               *)
(*                                                                         *)
(* Abstractions.  A board is the set of mutations applied to it, each with *)
(* the revision that applied it; the reducer's verdict (changed or not) is *)
(* a free choice.  A session snapshot is a model value.  A command's       *)
(* fingerprint is its content.  A file is the entry a reader finds plus    *)
(* the entries that a power loss may bring back.                           *)
(***************************************************************************)
EXTENDS Integers, FiniteSets, Sequences

CONSTANTS
    Slots,            \* concurrent operations of the runtime
    CommandIds,       \* client-chosen command identities
    Contents,         \* command contents, one per fingerprint
    Snapshots,        \* values of the authoritative session map
    InitialSnapshot,  \* what sessions.json holds at first
    NoCommand,        \* the identity of an operation that has none
    Absent,           \* no such file
    Torn,             \* what the abstract store calls a session map lost in part
    MaxReceipts,      \* MAX_RECENT_BOARD_COMMAND_RECEIPTS
    MaxSubmissions,   \* bound: operations ever started
    MaxCrashes,       \* bound: runtime crashes
    MaxPowerLosses    \* bound: power losses

ASSUME SnapshotAssumption == InitialSnapshot \in Snapshots
ASSUME ReceiptAssumption == MaxReceipts \in Nat \ {0}
ASSUME BoundAssumption ==
    /\ MaxSubmissions \in Nat
    /\ MaxCrashes \in Nat
    /\ MaxPowerLosses \in Nat
ASSUME NoCommandAssumption == NoCommand \notin CommandIds
ASSUME ContentAssumption == Contents # {}

VARIABLES
    disk,         \* per file: the visible entry and those a power loss may restore
    queue,        \* slots in the in-process lock queue; the head holds the lock
    pc,           \* per slot: where its operation stands
    request,      \* per slot: the operation's input, sessions snapshot included
    transaction,  \* per slot: the journal contents it is installing
    installing,   \* per slot: whether it installs a recovered or its own journal
    outcome,      \* per slot: the answer it will give when it releases the lock
    submitted,    \* every request ever made
    replies,      \* every answer a caller received
    submissions, crashes, powerLosses   \* spent bounds

vars == <<disk, queue, pc, request, transaction, installing, outcome,
          submitted, replies, submissions, crashes, powerLosses>>
bounds == <<submissions, crashes, powerLosses>>

-----------------------------------------------------------------------------
(* Data *)

Mutations == [rev : Nat, id : CommandIds \cup {NoCommand}, content : Contents]
Receipts == [rev : Nat, id : CommandIds, content : Contents, accepted : BOOLEAN]
Metas == [revision : Nat, receipts : SUBSET Receipts]
Transactions == [board : SUBSET Mutations, sessions : Snapshots, meta : Metas]

InternalKinds == {"projection", "save", "read"}
Requests ==
    [kind : {"command"}, id : CommandIds, content : Contents, expected : Nat, sessions : Snapshots]
    \cup [kind : InternalKinds, id : {NoCommand}, content : Contents, expected : Nat, sessions : Snapshots]

Answers == {"applied", "unchanged", "conflict", "identityConflict", "observed"}
Outcomes == [answer : Answers, revision : Nat, board : SUBSET Mutations]
Replies == [id : CommandIds \cup {NoCommand}, content : Contents, expected : Nat,
            answer : Answers, revision : Nat, board : SUBSET Mutations]

ASSUME AbsentAssumption == Absent \notin Transactions \cup Outcomes

EmptyMeta == [revision |-> 0, receipts |-> {}]

-----------------------------------------------------------------------------
(* The file system: a rename is visible at once, and durable only after    *)
(* the directory is synced; its bytes are durable only after the file is.  *)

Entry(v) == [val |-> v, flushed |-> FALSE, intact |-> TRUE]
Synced(entry) == [entry EXCEPT !.flushed = TRUE]
Stored(v) == [cur |-> Synced(Entry(v)), old |-> {}]

\* writeTextFileAtomic leaves a file with the same content alone.
Replaced(file, v) ==
    IF file.cur.val = v /\ file.cur.intact THEN file
    ELSE [cur |-> Entry(v), old |-> file.old \cup {file.cur}]
Unlinked(file) == [cur |-> Synced(Entry(Absent)), old |-> file.old \cup {file.cur}]
FileSynced(file) == [cur |-> Synced(file.cur), old |-> file.old]
Settled(file) == [cur |-> file.cur, old |-> {}]
DirectorySynced == [board |-> Settled(disk.board), sessions |-> Settled(disk.sessions),
                    meta |-> Settled(disk.meta), journal |-> Settled(disk.journal)]

Entries(V) == [val : V, flushed : BOOLEAN, intact : BOOLEAN]
FilesOf(V) == [cur : Entries(V), old : SUBSET Entries(V)]
Disks == [board : FilesOf(SUBSET Mutations), sessions : FilesOf(Snapshots),
          meta : FilesOf(Metas), journal : FilesOf(Transactions \cup {Absent})]

\* Losing power keeps one of the entries; bytes that were not flushed may be lost.
Survivors(entry) ==
    {Synced(entry)} \cup IF entry.flushed THEN {} ELSE {[Synced(entry) EXCEPT !.intact = FALSE]}
AfterPowerLoss(file) ==
    {[cur |-> e, old |-> {}] : e \in UNION {Survivors(x) : x \in file.old \cup {file.cur}}}

Visible(file) == file.cur.val
Readable(file) == file.cur.intact
JournalValid == Visible(disk.journal) # Absent /\ Readable(disk.journal)

-----------------------------------------------------------------------------
(* The committed state.  The commit point is the directory sync that makes *)
(* the journal's rename durable: from there on every outcome finishes it.  *)

InstallPending ==
    /\ JournalValid
    /\ disk.journal.cur.flushed
    /\ disk.journal.old = {}

Committed ==
    IF InstallPending
    THEN Visible(disk.journal)
    ELSE [board |-> Visible(disk.board), sessions |-> Visible(disk.sessions), meta |-> Visible(disk.meta)]

-----------------------------------------------------------------------------
\* Mutants, here and below, are named for the mistake they make.
MutantOneReceiptFewer(receipts) ==
    {r \in receipts : Cardinality({s \in receipts : s.rev > r.rev}) < MaxReceipts - 1}

NewestReceipts(receipts) ==
    {r \in receipts : Cardinality({s \in receipts : s.rev > r.rev}) < MaxReceipts}

IdleRequest == [kind |-> "read", id |-> NoCommand, content |-> CHOOSE c \in Contents : TRUE,
                expected |-> 0, sessions |-> InitialSnapshot]

Init ==
    /\ disk = [board |-> Stored({}), sessions |-> Stored(InitialSnapshot),
               meta |-> Stored(EmptyMeta), journal |-> Stored(Absent)]
    /\ queue = <<>>
    /\ pc = [r \in Slots |-> "idle"]
    /\ request = [r \in Slots |-> IdleRequest]
    /\ transaction = [r \in Slots |-> Absent]
    /\ installing = [r \in Slots |-> "nothing"]
    /\ outcome = [r \in Slots |-> Absent]
    /\ submitted = {}
    /\ replies = {}
    /\ submissions = 0 /\ crashes = 0 /\ powerLosses = 0

Goes(r, here, there) == pc[r] = here /\ pc' = [pc EXCEPT ![r] = there]

-----------------------------------------------------------------------------
(* Callers *)

KnownRevisions == {0} \cup {p.revision : p \in replies}

\* A caller repeats an identity with the revision it first expected, until a
\* conflict tells it that the command was not applied; then it may rebase.
MayExpect(id, revision) ==
    /\ revision \in KnownRevisions
    /\ \A q \in submitted : (q.id = id /\ q.expected # revision) =>
           \E p \in replies : p.id = id /\ p.expected = q.expected /\ p.answer = "conflict"

\* The operation starts by capturing the authoritative sessions; looking up
\* the project then takes a while, and the order of arrival is lost.
Submit(r, q) ==
    /\ submissions < MaxSubmissions
    /\ Goes(r, "idle", "captured")
    /\ request' = [request EXCEPT ![r] = q]
    /\ submitted' = submitted \cup {q}
    /\ submissions' = submissions + 1
    /\ UNCHANGED <<disk, queue, transaction, installing, outcome, replies, crashes, powerLosses>>

SubmitCommand(r) ==
    \E id \in CommandIds, c \in Contents, s \in Snapshots, revision \in KnownRevisions :
        /\ MayExpect(id, revision)
        /\ Submit(r, [kind |-> "command", id |-> id, content |-> c, expected |-> revision, sessions |-> s])

SubmitInternal(r) ==
    \E k \in InternalKinds, s \in Snapshots :
        Submit(r, [IdleRequest EXCEPT !.kind = k, !.sessions = s])

Enqueue(r) ==
    /\ Goes(r, "captured", "waiting")
    /\ queue' = Append(queue, r)
    /\ UNCHANGED <<disk, request, transaction, installing, outcome, submitted, replies, bounds>>

MutantAcquireOutOfTurn(r) ==
    /\ queue # <<>>
    /\ Goes(r, "waiting", "recover")
    /\ UNCHANGED <<disk, queue, request, transaction, installing, outcome, submitted, replies, bounds>>

AcquireLock(r) ==
    /\ queue # <<>> /\ Head(queue) = r
    /\ Goes(r, "waiting", "recover")
    /\ UNCHANGED <<disk, queue, request, transaction, installing, outcome, submitted, replies, bounds>>

-----------------------------------------------------------------------------
(* Recovery, before anything else is read under the lock *)

MutantSkipRecovery(r) ==
    /\ Goes(r, "recover", "decide")
    /\ UNCHANGED <<disk, queue, request, transaction, installing, outcome, submitted, replies, bounds>>

NothingToRecover(r) ==
    /\ Visible(disk.journal) = Absent
    /\ Goes(r, "recover", "decide")
    /\ UNCHANGED <<disk, queue, request, transaction, installing, outcome, submitted, replies, bounds>>

RecoverJournal(r) ==
    /\ JournalValid
    /\ Goes(r, "recover", "syncJournal")
    /\ transaction' = [transaction EXCEPT ![r] = Visible(disk.journal)]
    /\ installing' = [installing EXCEPT ![r] = "recovered"]
    /\ UNCHANGED <<disk, queue, request, outcome, submitted, replies, bounds>>

-----------------------------------------------------------------------------
(* Decisions, taken on the metadata and the board read under the lock *)

Revision == Visible(disk.meta).revision
ReceiptsFor(id) == {c \in Visible(disk.meta).receipts : c.id = id}

Deciding(r, kinds) ==
    /\ pc[r] = "decide"
    /\ request[r].kind \in kinds
    /\ Readable(disk.board) /\ Readable(disk.meta)

Answer(answer, revision, board) == [answer |-> answer, revision |-> revision, board |-> board]

Decides(r, answer) ==
    /\ pc' = [pc EXCEPT ![r] = "release"]
    /\ outcome' = [outcome EXCEPT ![r] = Answer(answer, Revision, Visible(disk.board))]
    /\ UNCHANGED <<queue, request, transaction, installing, submitted, replies, bounds>>

ReplayReceipt(r) ==
    /\ Deciding(r, {"command"})
    /\ \E c \in ReceiptsFor(request[r].id) :
           /\ c.content = request[r].content
           /\ Decides(r, IF c.accepted THEN "applied" ELSE "unchanged")
    /\ UNCHANGED disk

RejectIdentity(r) ==
    /\ Deciding(r, {"command"})
    /\ \E c \in ReceiptsFor(request[r].id) : c.content # request[r].content
    /\ Decides(r, "identityConflict")
    /\ UNCHANGED disk

RejectRevision(r) ==
    /\ Deciding(r, {"command"})
    /\ ReceiptsFor(request[r].id) = {}
    /\ request[r].expected # Revision
    /\ Decides(r, "conflict")
    /\ UNCHANGED disk

\* The state an operation commits: the next revision, the mutation if the
\* reducer changed the board, and a receipt if the operation has an identity.
NextState(q, changed) ==
    LET next == Revision + 1
        receipts == Visible(disk.meta).receipts
    IN [board |-> IF changed
                  THEN Visible(disk.board) \cup {[rev |-> next, id |-> q.id, content |-> q.content]}
                  ELSE Visible(disk.board),
        sessions |-> q.sessions,
        meta |-> [revision |-> next,
                  receipts |-> IF q.kind = "command"
                               THEN NewestReceipts(receipts \cup {[rev |-> next, id |-> q.id,
                                                       content |-> q.content, accepted |-> changed]})
                               ELSE receipts]]

Commits(r, changed) ==
    LET next == NextState(request[r], changed)
    IN /\ pc' = [pc EXCEPT ![r] = "writeJournal"]
       /\ transaction' = [transaction EXCEPT ![r] = next]
       /\ installing' = [installing EXCEPT ![r] = "own"]
       /\ outcome' = [outcome EXCEPT ![r] =
              Answer(IF changed THEN "applied" ELSE "unchanged", next.meta.revision, next.board)]
       /\ UNCHANGED <<disk, queue, request, submitted, replies, bounds>>

CommitCommand(r) ==
    /\ Deciding(r, {"command"})
    /\ ReceiptsFor(request[r].id) = {}
    /\ request[r].expected = Revision
    /\ \E changed \in BOOLEAN : Commits(r, changed)

CommitProjection(r) ==
    /\ Deciding(r, {"projection"})
    /\ Commits(r, TRUE)

\* A projection that changes nothing, and the session persistence, write the
\* sessions alone: no journal, no revision, no sync.
WriteSessionsOnly(r) ==
    /\ Deciding(r, {"projection", "save"})
    /\ disk' = [disk EXCEPT !.sessions = Replaced(@, request[r].sessions)]
    /\ Decides(r, "observed")

ReadState(r) ==
    /\ Deciding(r, {"read"})
    /\ Readable(disk.sessions)
    /\ Decides(r, "observed")
    /\ UNCHANGED disk

-----------------------------------------------------------------------------
(* Installation *)

InstallStep(r, here, there, newDisk) ==
    /\ Goes(r, here, there)
    /\ disk' = newDisk
    /\ UNCHANGED <<queue, request, transaction, installing, outcome, submitted, replies, bounds>>

WriteJournal(r) == InstallStep(r, "writeJournal", "syncJournal", [disk EXCEPT !.journal = Replaced(@, transaction[r])])
MutantJournalNotSynced(r) == InstallStep(r, "syncJournal", "syncJournalDir", disk)
SyncJournal(r) == InstallStep(r, "syncJournal", "syncJournalDir", [disk EXCEPT !.journal = FileSynced(@)])
SyncJournalDir(r) == InstallStep(r, "syncJournalDir", "replaceBoard", DirectorySynced)

InstallFiles(r) ==
    \/ InstallStep(r, "replaceBoard", "syncBoard", [disk EXCEPT !.board = Replaced(@, transaction[r].board)])
    \/ InstallStep(r, "syncBoard", "replaceSessions", [disk EXCEPT !.board = FileSynced(@)])
    \/ InstallStep(r, "replaceSessions", "syncSessions", [disk EXCEPT !.sessions = Replaced(@, transaction[r].sessions)])
    \/ InstallStep(r, "syncSessions", "replaceMeta", [disk EXCEPT !.sessions = FileSynced(@)])
    \/ InstallStep(r, "replaceMeta", "syncMeta", [disk EXCEPT !.meta = Replaced(@, transaction[r].meta)])
    \/ InstallStep(r, "syncMeta", "syncFilesDir", [disk EXCEPT !.meta = FileSynced(@)])

MutantFilesDirNotSynced(r) == InstallStep(r, "syncFilesDir", "unlinkJournal", disk)
SyncFilesDir(r) == InstallStep(r, "syncFilesDir", "unlinkJournal", DirectorySynced)
UnlinkJournal(r) ==
    InstallStep(r, "unlinkJournal", "syncUnlink", [disk EXCEPT !.journal = Unlinked(@)])

SyncUnlink(r) ==
    /\ Goes(r, "syncUnlink", IF installing[r] = "own" THEN "release" ELSE "decide")
    /\ disk' = DirectorySynced
    /\ transaction' = [transaction EXCEPT ![r] = Absent]
    /\ installing' = [installing EXCEPT ![r] = "nothing"]
    /\ UNCHANGED <<queue, request, outcome, submitted, replies, bounds>>

-----------------------------------------------------------------------------
(* The end of an operation, and its failures *)

Ends(r) ==
    /\ queue' = Tail(queue)
    /\ pc' = [pc EXCEPT ![r] = "idle"]
    /\ request' = [request EXCEPT ![r] = IdleRequest]
    /\ transaction' = [transaction EXCEPT ![r] = Absent]
    /\ installing' = [installing EXCEPT ![r] = "nothing"]
    /\ outcome' = [outcome EXCEPT ![r] = Absent]
    /\ UNCHANGED <<disk, submitted, bounds>>

MutantKeepLock(r) ==
    /\ pc[r] = "release"
    /\ pc' = [pc EXCEPT ![r] = "idle"]
    /\ UNCHANGED <<disk, queue, request, transaction, installing, outcome, submitted, replies, bounds>>

Release(r) ==
    /\ pc[r] = "release"
    /\ replies' = replies \cup {[id |-> request[r].id, content |-> request[r].content,
                                 expected |-> request[r].expected, answer |-> outcome[r].answer,
                                 revision |-> outcome[r].revision, board |-> outcome[r].board]}
    /\ Ends(r)

LockedStages == {"recover", "decide", "writeJournal", "syncJournal", "syncJournalDir",
                 "replaceBoard", "syncBoard", "replaceSessions", "syncSessions",
                 "replaceMeta", "syncMeta", "syncFilesDir", "unlinkJournal", "syncUnlink", "release"}

\* An unreadable file, a full disk, a refused sync: the error reaches the
\* caller, who cannot tell what was committed, and the lock is released.
Fail(r) ==
    /\ pc[r] \in LockedStages \ {"release"}
    /\ replies' = replies
    /\ Ends(r)

Stops ==
    /\ queue' = <<>>
    /\ pc' = [r \in Slots |-> "idle"]
    /\ request' = [r \in Slots |-> IdleRequest]
    /\ transaction' = [r \in Slots |-> Absent]
    /\ installing' = [r \in Slots |-> "nothing"]
    /\ outcome' = [r \in Slots |-> Absent]
    /\ UNCHANGED <<submitted, replies, submissions>>

\* The runtime dies; its stale lock is taken over by the next owner.
Crash ==
    /\ crashes < MaxCrashes
    /\ crashes' = crashes + 1
    /\ Stops
    /\ UNCHANGED <<disk, powerLosses>>

\* The machine dies: each file keeps one of the entries it may have.
PowerLoss ==
    /\ powerLosses < MaxPowerLosses
    /\ powerLosses' = powerLosses + 1
    /\ Stops
    /\ \E board \in AfterPowerLoss(disk.board), sessions \in AfterPowerLoss(disk.sessions),
          meta \in AfterPowerLoss(disk.meta), journal \in AfterPowerLoss(disk.journal) :
          disk' = [board |-> board, sessions |-> sessions, meta |-> meta, journal |-> journal]
    /\ UNCHANGED crashes

-----------------------------------------------------------------------------
Decide(r) ==
    \/ ReplayReceipt(r) \/ RejectIdentity(r) \/ RejectRevision(r)
    \/ CommitCommand(r) \/ CommitProjection(r) \/ WriteSessionsOnly(r) \/ ReadState(r)

Install(r) ==
    \/ WriteJournal(r) \/ SyncJournal(r) \/ SyncJournalDir(r) \/ InstallFiles(r)
    \/ SyncFilesDir(r) \/ UnlinkJournal(r) \/ SyncUnlink(r)

Step(r) ==
    \/ Enqueue(r) \/ AcquireLock(r)
    \/ NothingToRecover(r) \/ RecoverJournal(r)
    \/ Decide(r) \/ Install(r) \/ Release(r) \/ Fail(r)

Next ==
    \/ \E r \in Slots : SubmitCommand(r) \/ SubmitInternal(r) \/ Step(r)
    \/ Crash
    \/ PowerLoss

Spec == Init /\ [][Next]_vars
FairSpec == Spec /\ \A r \in Slots : WF_vars(Step(r))

-----------------------------------------------------------------------------
(* Properties *)

Types ==
    /\ disk \in Disks
    /\ queue \in Seq(Slots)
    /\ pc \in [Slots -> {"idle", "captured", "waiting"} \cup LockedStages]
    /\ request \in [Slots -> Requests]
    /\ transaction \in [Slots -> Transactions \cup {Absent}]
    /\ installing \in [Slots -> {"nothing", "recovered", "own"}]
    /\ outcome \in [Slots -> Outcomes \cup {Absent}]
    /\ submitted \subseteq Requests /\ replies \subseteq Replies
    /\ submissions \in Nat /\ crashes \in Nat /\ powerLosses \in Nat

LockOrder ==
    /\ \A i, j \in DOMAIN queue : i # j => queue[i] # queue[j]
    /\ \A i \in DOMAIN queue : pc[queue[i]] \in {"waiting"} \cup LockedStages
    /\ \A r \in Slots : pc[r] \in LockedStages => queue # <<>> /\ Head(queue) = r

\* Every variable has the shape the code gives it, the lock queue holds no
\* operation twice, and only its head is past the wait for the lock.
TypeOK == Types /\ LockOrder

\* Two halves of one commit: no mutation is newer than the revision, and every
\* accepted receipt has its mutation on the board.
Agree(board, meta) ==
    /\ \A m \in board : m.rev <= meta.revision
    /\ \A c \in meta.receipts : c.accepted = TRUE =>
           \E m \in board : m.rev = c.rev /\ m.id = c.id /\ m.content = c.content

\* When no journal can be recovered, board.json and meta.json are whole and come
\* from one commit.  Whatever step a crash or a power loss interrupts, the journal
\* covers the files until they agree again.
StateFilesAgree ==
    ~JournalValid =>
        /\ Readable(disk.board) /\ Readable(disk.meta)
        /\ Agree(Visible(disk.board), Visible(disk.meta))

\* Every board and revision a caller was ever given is a committed state that is
\* still part of history: the board it saw is today's committed board cut at the
\* revision it was told.  A reader never sees half a commit, and an acknowledged
\* commit survives every crash and power loss.
ObservationsSurvive ==
    \A p \in replies :
        /\ p.revision <= Committed.meta.revision
        /\ p.board = {m \in Committed.board : m.rev <= p.revision}

\* A command identity is applied twice only when its receipt has been pushed out
\* by as many later commits as the receipt window holds, however often, and with
\* whatever rebased revision, its callers retry after losing an answer.
RetriesApplyOnce ==
    \A m, n \in Committed.board :
        (m.id = n.id /\ m.id # NoCommand /\ m.rev < n.rev) => n.rev - m.rev > MaxReceipts

\* The files, the lock and the journal together behave as one atomic store.
SessionsIn(entry) == IF entry.intact THEN entry.val ELSE Torn
SessionsAfterPowerLoss ==
    IF InstallPending THEN {Visible(disk.journal).sessions}
    ELSE {SessionsIn(f.cur) : f \in AfterPowerLoss(disk.sessions)}
            \cup {e.val.sessions : e \in {x \in disk.journal.old : x.val # Absent /\ x.intact}}

Store == INSTANCE ProjectStore WITH
    board <- Committed.board,
    sessions <- IF InstallPending THEN Committed.sessions ELSE SessionsIn(disk.sessions.cur),
    revision <- Committed.meta.revision,
    receipts <- Committed.meta.receipts,
    mayRevertTo <- SessionsAfterPowerLoss

\* Every step of an operation, a recovery, a crash or a power loss is a step of
\* the abstract store or changes nothing of it: the commit happens at once, when
\* the journal's rename becomes durable, and every answer is true when given.
ImplementsProjectStore == Store!Spec

\* Every operation ends: the lock passes on in arrival order whether its holder
\* answers or fails, and no holder waits for anything but the disk.
EveryOperationEnds == \A r \in Slots : pc[r] = "captured" ~> pc[r] = "idle"

=============================================================================
