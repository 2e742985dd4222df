------------------- MODULE ProjectStateTransactionProofs -------------------
(***************************************************************************)
(* Theorems about ProjectStateTransaction, for every number of operations, *)
(* commands, crashes and power losses and every receipt window.            *)
(*                                                                         *)
(* The inductive invariant says, stage by stage, what the holder of the    *)
(* lock has already made durable.  As long as no journal is durable, the   *)
(* board and metadata files are: nothing touches them before the journal's *)
(* directory entry is synced, and they are synced before it is removed.    *)
(***************************************************************************)
EXTENDS ProjectStateTransaction, TLAPS

AfterBoard == {"replaceSessions", "syncSessions", "replaceMeta", "syncMeta", "syncFilesDir", "unlinkJournal"}
InstallingFiles == {"replaceBoard", "syncBoard"} \cup AfterBoard
InstallStages == {"writeJournal", "syncJournal", "syncJournalDir", "syncUnlink"} \cup InstallingFiles

(* What a slot's operation holds in memory at each stage.                  *)
StageData(r) ==
    /\ pc[r] \in InstallStages =>
          transaction[r] \in Transactions /\ Agree(transaction[r].board, transaction[r].meta)
    /\ pc[r] = "release" => outcome[r] \in Outcomes
    /\ pc[r] \in InstallStages /\ installing[r] = "own" => outcome[r] \in Outcomes
    /\ pc[r] = "writeJournal" => installing[r] = "own"

(* What the lock holder's install has reached on the disk.                 *)
StageDisk(r) ==
    /\ pc[r] \in {"decide", "writeJournal", "syncUnlink"} => Visible(disk.journal) = Absent
    /\ pc[r] \in {"syncJournal", "syncJournalDir"} =>
          JournalValid /\ Visible(disk.journal) = transaction[r]
    /\ pc[r] = "syncJournalDir" => disk.journal.cur.flushed
    /\ pc[r] \in InstallingFiles => InstallPending /\ Visible(disk.journal) = transaction[r]
    /\ pc[r] \in {"syncBoard"} \cup AfterBoard =>
          Visible(disk.board) = transaction[r].board /\ Readable(disk.board)
    /\ pc[r] \in AfterBoard => disk.board.cur.flushed
    /\ pc[r] \in {"syncMeta", "syncFilesDir", "unlinkJournal"} =>
          Visible(disk.meta) = transaction[r].meta /\ Readable(disk.meta)
    /\ pc[r] \in {"syncFilesDir", "unlinkJournal"} => disk.meta.cur.flushed
    /\ pc[r] = "unlinkJournal" => disk.board.old = {} /\ disk.meta.old = {}

(* Every journal the disk may show is a commit of its own.                 *)
JournalsAgree ==
    \A e \in disk.journal.old \cup {disk.journal.cur} :
        e.val # Absent => Agree(e.val.board, e.val.meta)

Steady(file) == file.cur.flushed /\ file.cur.intact /\ file.old = {}

(* The files of the commit are durable whenever the journal is not.        *)
CoveredOrSteady ==
    ~InstallPending =>
        /\ Steady(disk.board) /\ Steady(disk.meta)
        /\ Agree(Visible(disk.board), Visible(disk.meta))

DiskInv == JournalsAgree /\ CoveredOrSteady
Inv ==
    /\ Types /\ LockOrder /\ DiskInv
    /\ \A r \in Slots : StageData(r) /\ StageDisk(r)

-----------------------------------------------------------------------------
(* An idle slot's request is a request.                                    *)
LEMMA IdleRequestType == IdleRequest \in Requests
BY SnapshotAssumption, ContentAssumption DEF IdleRequest, Requests, InternalKinds

(* The first state satisfies the invariant: an empty, durable project.     *)
LEMMA InitInv == Init => Inv
<1> SUFFICES ASSUME Init PROVE Inv
    OBVIOUS
<1>1. Types
  <2>1. disk \in Disks
    BY SnapshotAssumption DEF Init, Disks, FilesOf, Entries, Stored, Synced, Entry, EmptyMeta, Metas
  <2> QED
    BY <2>1, IdleRequestType, BoundAssumption DEF Init, Types
<1>2. LockOrder
    BY DEF Init, LockOrder, LockedStages
<1>3. DiskInv
    BY DEF Init, DiskInv, JournalsAgree, CoveredOrSteady, Steady, Stored, Synced, Entry, EmptyMeta,
           Agree, Visible, Readable
<1>4. \A r \in Slots : StageData(r) /\ StageDisk(r)
    BY DEF Init, StageData, StageDisk, InstallStages, InstallingFiles, AfterBoard
<1> QED
    BY <1>1, <1>2, <1>3, <1>4 DEF Inv

-----------------------------------------------------------------------------
(* The holder's decision commits a state whose halves agree.               *)
LEMMA NextStateAgrees ==
    ASSUME Types, NEW q \in Requests, NEW changed \in BOOLEAN,
           Agree(Visible(disk.board), Visible(disk.meta))
    PROVE  /\ NextState(q, changed) \in Transactions
           /\ Agree(NextState(q, changed).board, NextState(q, changed).meta)
<1> DEFINE old == Visible(disk.board)
           meta == Visible(disk.meta)
           next == meta.revision + 1
           new == [rev |-> next, id |-> q.id, content |-> q.content]
           receipt == [rev |-> next, id |-> q.id, content |-> q.content, accepted |-> changed]
           board == IF changed THEN old \cup {new} ELSE old
           receipts == IF q.kind = "command"
                       THEN NewestReceipts(meta.receipts \cup {receipt}) ELSE meta.receipts
<1>1. old \in SUBSET Mutations /\ meta \in Metas
  BY DEF Types, Disks, FilesOf, Entries, Visible
<1>2. meta.revision \in Nat /\ meta.receipts \in SUBSET Receipts
  BY <1>1 DEF Metas
<1>3. q.id \in CommandIds \cup {NoCommand} /\ q.content \in Contents /\ q.sessions \in Snapshots
  BY DEF Requests
<1>4. q.kind = "command" => q.id \in CommandIds
  BY DEF Requests, InternalKinds
<1>5. board \in SUBSET Mutations
  <2>1. new \in Mutations
    BY <1>2, <1>3 DEF Mutations
  <2> QED
    BY <1>1, <2>1
<1>6. receipts \subseteq Receipts /\ receipts \subseteq meta.receipts \cup {receipt}
      /\ (q.kind # "command" => receipts = meta.receipts)
  <2>1. q.kind = "command" => receipt \in Receipts
    BY <1>2, <1>3, <1>4 DEF Receipts
  <2>2. NewestReceipts(meta.receipts \cup {receipt}) \subseteq meta.receipts \cup {receipt}
    BY DEF NewestReceipts
  <2> QED
    BY <1>2, <2>1, <2>2
<1>7. NextState(q, changed) =
        [board |-> board, sessions |-> q.sessions, meta |-> [revision |-> next, receipts |-> receipts]]
  BY DEF NextState, Revision
<1>8. NextState(q, changed) \in Transactions
  <2>1. next \in Nat
    BY <1>2
  <2> HIDE DEF board, receipts, next
  <2>2. [revision |-> next, receipts |-> receipts] \in Metas
    BY <1>6, <2>1 DEF Metas
  <2> QED
    BY <1>3, <1>5, <1>7, <2>2 DEF Transactions
<1>9. ASSUME NEW m \in board PROVE m.rev <= next
  <2>1. ASSUME m \in old PROVE m.rev <= next
    <3>1. m.rev \in Nat /\ m.rev <= meta.revision
      BY <1>1, <2>1 DEF Agree, Mutations
    <3> QED
      BY <1>2, <3>1
  <2>2. ASSUME m = new PROVE m.rev <= next
    BY <1>2, <2>2
  <2> QED
    BY <2>1, <2>2
<1>10. ASSUME NEW c \in receipts, c.accepted = TRUE
       PROVE  \E m \in board : m.rev = c.rev /\ m.id = c.id /\ m.content = c.content
  <2>1. CASE c \in meta.receipts
    <3>1. \E m \in old : m.rev = c.rev /\ m.id = c.id /\ m.content = c.content
      BY <1>10, <2>1 DEF Agree
    <3> QED
      BY <3>1
  <2>2. CASE c = receipt
    <3>1. changed = TRUE
      BY <1>10, <2>2
    <3>2. new \in board
      BY <3>1
    <3> QED
      BY <2>2, <3>2
  <2> QED
    BY <1>6, <2>1, <2>2
<1>11. Agree(board, [revision |-> next, receipts |-> receipts])
  BY <1>9, <1>10 DEF Agree
<1> QED
  BY <1>7, <1>8, <1>11

-----------------------------------------------------------------------------
(* Only the head of the queue is past the wait, so what holds of one locked *)
(* slot's stage is not disturbed by another's step.                         *)
LEMMA OnlyTheHolder ==
    ASSUME LockOrder, NEW r \in Slots, pc[r] \in LockedStages
    PROVE  \A q \in Slots : pc[q] \in LockedStages => q = r
BY DEF LockOrder

(* A slot that is not at a locked stage has nothing to say about the disk.  *)
LEMMA NothingHeld ==
    ASSUME NEW r \in Slots, pc[r] \notin LockedStages
    PROVE  StageData(r) /\ StageDisk(r)
BY DEF StageData, StageDisk, LockedStages, InstallStages, InstallingFiles, AfterBoard

(* A step of the lock holder to another locked stage preserves the invariant *)
(* if it types its own data, keeps the disk in order and reaches its stage.  *)
LEMMA HolderMoves ==
    ASSUME Inv, NEW r \in Slots, NEW stage \in LockedStages,
           pc[r] \in LockedStages,
           pc' = [pc EXCEPT ![r] = stage],
           UNCHANGED <<queue, request, submitted, replies, bounds>>,
           disk' \in Disks,
           transaction' \in [Slots -> Transactions \cup {Absent}],
           installing' \in [Slots -> {"nothing", "recovered", "own"}],
           outcome' \in [Slots -> Outcomes \cup {Absent}],
           DiskInv', StageData(r)', StageDisk(r)'
    PROVE  Inv'
<1>1. Types'
  BY DEF Inv, Types, bounds
<1>2. LockOrder'
  BY DEF Inv, Types, LockOrder
<1>3. ASSUME NEW q \in Slots, q # r PROVE StageData(q)' /\ StageDisk(q)'
  <2>1. pc[q] \notin LockedStages
    BY <1>3, OnlyTheHolder DEF Inv
  <2>2. pc'[q] \notin LockedStages
    BY <1>3, <2>1 DEF Inv, Types
  <2> QED
    BY <2>2 DEF StageData, StageDisk, LockedStages, InstallStages, InstallingFiles, AfterBoard
<1> QED
  BY <1>1, <1>2, <1>3 DEF Inv

(* Nothing that leaves the disk alone disturbs what the disk promises.     *)
LEMMA SameDisk == ASSUME DiskInv, disk' = disk PROVE DiskInv'
BY DEF DiskInv, JournalsAgree, CoveredOrSteady, InstallPending, JournalValid, Visible, Readable, Steady

-----------------------------------------------------------------------------
(* The decision stages *)

LEMMA AcquireLockInv == ASSUME Inv, NEW r \in Slots, AcquireLock(r) PROVE Inv'
<1>1. pc[r] = "waiting" /\ pc' = [pc EXCEPT ![r] = "recover"]
      /\ queue # <<>> /\ Head(queue) = r
      /\ UNCHANGED <<disk, queue, request, transaction, installing, outcome, submitted, replies, bounds>>
  BY DEF AcquireLock, Goes
<1>2. Types'
  BY <1>1 DEF Inv, Types, bounds, LockedStages
<1>3. LockOrder'
  BY <1>1 DEF Inv, Types, LockOrder, LockedStages
<1>4. DiskInv'
  BY <1>1, SameDisk DEF Inv
<1>5. ASSUME NEW q \in Slots PROVE StageData(q)' /\ StageDisk(q)'
  <2>1. pc'[q] = "recover" \/ pc'[q] \notin LockedStages
    BY <1>1 DEF Inv, Types, LockOrder, LockedStages
  <2> QED
    BY <2>1 DEF StageData, StageDisk, LockedStages, InstallStages, InstallingFiles, AfterBoard
<1> QED
  BY <1>2, <1>3, <1>4, <1>5 DEF Inv

LEMMA NothingToRecoverInv == ASSUME Inv, NEW r \in Slots, NothingToRecover(r) PROVE Inv'
<1>1. pc[r] = "recover" /\ pc' = [pc EXCEPT ![r] = "decide"] /\ Visible(disk.journal) = Absent
      /\ UNCHANGED <<disk, queue, request, transaction, installing, outcome, submitted, replies, bounds>>
  BY DEF NothingToRecover, Goes
<1>2. pc'[r] = "decide"
  BY <1>1 DEF Inv, Types
<1>3. StageData(r)' /\ StageDisk(r)'
  BY <1>1, <1>2 DEF StageData, StageDisk, InstallStages, InstallingFiles, AfterBoard, Visible
<1>4. DiskInv'
  BY <1>1, SameDisk DEF Inv
<1> QED
  BY <1>1, <1>3, <1>4, HolderMoves DEF Inv, Types, LockedStages

LEMMA RecoverJournalInv == ASSUME Inv, NEW r \in Slots, RecoverJournal(r) PROVE Inv'
<1>1. pc[r] = "recover" /\ pc' = [pc EXCEPT ![r] = "syncJournal"] /\ JournalValid
      /\ transaction' = [transaction EXCEPT ![r] = Visible(disk.journal)]
      /\ installing' = [installing EXCEPT ![r] = "recovered"]
      /\ UNCHANGED <<disk, queue, request, outcome, submitted, replies, bounds>>
  BY DEF RecoverJournal, Goes
<1>2. Visible(disk.journal) \in Transactions
      /\ Agree(Visible(disk.journal).board, Visible(disk.journal).meta)
  BY <1>1 DEF Inv, Types, Disks, FilesOf, Entries, DiskInv, JournalsAgree, JournalValid, Visible
<1>3. pc'[r] = "syncJournal" /\ transaction'[r] = Visible(disk.journal) /\ installing'[r] = "recovered"
  BY <1>1 DEF Inv, Types
<1>4. StageData(r)'
  BY <1>2, <1>3 DEF StageData, InstallStages
<1>5. StageDisk(r)'
  BY <1>1, <1>3 DEF StageDisk, InstallingFiles, AfterBoard, JournalValid, Visible, Readable
<1>6. DiskInv'
  BY <1>1, SameDisk DEF Inv
<1> QED
  BY <1>1, <1>2, <1>4, <1>5, <1>6, HolderMoves DEF Inv, Types, LockedStages

(* An answer decided under the lock, the session map written or not.       *)
LEMMA DecidesInv ==
    ASSUME Inv, NEW r \in Slots, NEW answer \in Answers, pc[r] = "decide", Decides(r, answer),
           disk' \in Disks, DiskInv'
    PROVE  Inv'
<1>1. pc' = [pc EXCEPT ![r] = "release"]
      /\ outcome' = [outcome EXCEPT ![r] = Answer(answer, Revision, Visible(disk.board))]
      /\ UNCHANGED <<queue, request, transaction, installing, submitted, replies, bounds>>
  BY DEF Decides
<1>2. Answer(answer, Revision, Visible(disk.board)) \in Outcomes
  BY DEF Inv, Types, Disks, FilesOf, Entries, Metas, Answer, Revision, Visible, Outcomes
<1>3. pc'[r] = "release" /\ outcome'[r] \in Outcomes
  BY <1>1, <1>2 DEF Inv, Types
<1>4. StageData(r)' /\ StageDisk(r)'
  BY <1>3 DEF StageData, StageDisk, InstallStages, InstallingFiles, AfterBoard
<1> QED
  BY <1>1, <1>2, <1>4, HolderMoves DEF Inv, Types, LockedStages

LEMMA AnsweredInv ==
    ASSUME Inv, NEW r \in Slots,
           ReplayReceipt(r) \/ RejectIdentity(r) \/ RejectRevision(r) \/ ReadState(r)
    PROVE  Inv'
<1>1. PICK answer \in Answers : Decides(r, answer)
  BY DEF ReplayReceipt, RejectIdentity, RejectRevision, ReadState, Answers
<1>2. pc[r] = "decide" /\ disk' = disk
  BY DEF ReplayReceipt, RejectIdentity, RejectRevision, ReadState, Deciding
<1> QED
  BY <1>1, <1>2, SameDisk, DecidesInv DEF Inv, Types

LEMMA WriteSessionsOnlyInv == ASSUME Inv, NEW r \in Slots, WriteSessionsOnly(r) PROVE Inv'
<1>1. pc[r] = "decide" /\ Decides(r, "observed")
      /\ disk' = [disk EXCEPT !.sessions = Replaced(@, request[r].sessions)]
  BY DEF WriteSessionsOnly, Deciding
<1>2. Replaced(disk.sessions, request[r].sessions) \in FilesOf(Snapshots)
  <2>1. request[r].sessions \in Snapshots
    BY DEF Inv, Types, Requests
  <2>2. disk.sessions \in FilesOf(Snapshots)
    BY DEF Inv, Types, Disks
  <2> QED
    BY <2>1, <2>2 DEF Replaced, Entry, FilesOf, Entries
<1>3. disk' \in Disks
  BY <1>1, <1>2 DEF Inv, Types, Disks
<1>4. disk'.board = disk.board /\ disk'.meta = disk.meta /\ disk'.journal = disk.journal
  BY <1>1 DEF Inv, Types, Disks
<1>5. DiskInv'
  BY <1>4 DEF Inv, DiskInv, JournalsAgree, CoveredOrSteady, InstallPending, JournalValid,
              Visible, Readable, Steady
<1> QED
  BY <1>1, <1>3, <1>5, DecidesInv DEF Answers

(* A commit is decided: its journal is next.                               *)
LEMMA CommitsInv ==
    ASSUME Inv, NEW r \in Slots, NEW changed \in BOOLEAN, pc[r] = "decide", Commits(r, changed)
    PROVE  Inv'
<1> DEFINE next == NextState(request[r], changed)
<1>1. pc' = [pc EXCEPT ![r] = "writeJournal"]
      /\ transaction' = [transaction EXCEPT ![r] = next]
      /\ installing' = [installing EXCEPT ![r] = "own"]
      /\ outcome' = [outcome EXCEPT ![r] =
             Answer(IF changed THEN "applied" ELSE "unchanged", next.meta.revision, next.board)]
      /\ UNCHANGED <<disk, queue, request, submitted, replies, bounds>>
  BY DEF Commits
<1>2. Visible(disk.journal) = Absent
  BY DEF Inv, StageDisk
<1>3. Agree(Visible(disk.board), Visible(disk.meta))
  BY <1>2 DEF Inv, DiskInv, CoveredOrSteady, InstallPending, JournalValid
<1>4. next \in Transactions /\ Agree(next.board, next.meta)
  BY <1>3, NextStateAgrees DEF Inv, Types
<1> HIDE DEF next
<1>5. Answer(IF changed THEN "applied" ELSE "unchanged", next.meta.revision, next.board) \in Outcomes
  BY <1>4 DEF Transactions, Metas, Answer, Outcomes, Answers
<1>6. pc'[r] = "writeJournal" /\ transaction'[r] = next /\ installing'[r] = "own"
      /\ outcome'[r] \in Outcomes
  BY <1>1, <1>5 DEF Inv, Types
<1>7. StageData(r)'
  BY <1>4, <1>6 DEF StageData
<1>8. StageDisk(r)'
  BY <1>1, <1>2, <1>6 DEF StageDisk, InstallingFiles, AfterBoard, Visible
<1>9. DiskInv'
  BY <1>1, SameDisk DEF Inv
<1> QED
  BY <1>1, <1>4, <1>5, <1>7, <1>8, <1>9, HolderMoves DEF Inv, Types, LockedStages

-----------------------------------------------------------------------------
(* The installation stages *)

(* What every step of an installation has in common: its slot keeps the     *)
(* transaction, and the invariant follows once the disk is in order.        *)
LEMMA InstallStepInv ==
    ASSUME Inv, NEW r \in Slots, NEW here \in InstallStages, NEW there \in InstallStages,
           NEW newDisk \in Disks, InstallStep(r, here, there, newDisk),
           there # "writeJournal", DiskInv', StageDisk(r)'
    PROVE  Inv'
<1>1. pc[r] = here /\ pc' = [pc EXCEPT ![r] = there] /\ disk' = newDisk
      /\ UNCHANGED <<queue, request, transaction, installing, outcome, submitted, replies, bounds>>
  BY DEF InstallStep, Goes
<1>2. pc'[r] = there
  BY <1>1 DEF Inv, Types
<1>3. StageData(r)'
  BY <1>1, <1>2 DEF Inv, StageData, InstallStages, InstallingFiles, AfterBoard
<1>4. here \in LockedStages /\ there \in LockedStages
  BY DEF LockedStages, InstallStages, InstallingFiles, AfterBoard
<1> QED
  BY <1>1, <1>3, <1>4, HolderMoves DEF Inv, Types

(* The file operations keep a file of its kind.                             *)
LEMMA FileTypes ==
    ASSUME NEW V, NEW file \in FilesOf(V)
    PROVE  /\ FileSynced(file) \in FilesOf(V)
           /\ Settled(file) \in FilesOf(V)
           /\ \A v \in V : Replaced(file, v) \in FilesOf(V)
BY DEF FilesOf, Entries, FileSynced, Settled, Replaced, Entry, Synced

LEMMA DirectorySyncedType == Types => DirectorySynced \in Disks
BY FileTypes DEF Types, Disks, DirectorySynced

(* A replaced file shows the new contents; a synced one keeps showing its.   *)
LEMMA FileOperations ==
    ASSUME NEW V, NEW file \in FilesOf(V)
    PROVE  /\ FileSynced(file).cur.flushed /\ FileSynced(file).cur.val = file.cur.val
           /\ FileSynced(file).cur.intact = file.cur.intact /\ FileSynced(file).old = file.old
           /\ \A v : Replaced(file, v).cur.val = v /\ Replaced(file, v).cur.intact
BY DEF FilesOf, Entries, FileSynced, Replaced, Entry, Synced

LEMMA WriteJournalInv == ASSUME Inv, NEW r \in Slots, WriteJournal(r) PROVE Inv'
<1> DEFINE tx == transaction[r]
           journal == Replaced(disk.journal, tx)
           newDisk == [disk EXCEPT !.journal = journal]
<1>1. InstallStep(r, "writeJournal", "syncJournal", newDisk) /\ pc[r] = "writeJournal"
      /\ disk' = newDisk /\ pc' = [pc EXCEPT ![r] = "syncJournal"] /\ transaction' = transaction
  BY DEF WriteJournal, InstallStep, Goes
<1>2. Visible(disk.journal) = Absent /\ tx \in Transactions /\ Agree(tx.board, tx.meta)
  BY <1>1 DEF Inv, StageDisk, StageData, InstallStages
<1>3. tx # Absent
  BY <1>2, AbsentAssumption
<1>4. disk.journal \in FilesOf(Transactions \cup {Absent})
  BY DEF Inv, Types, Disks
<1>5. journal \in FilesOf(Transactions \cup {Absent})
  BY <1>2, <1>4, FileTypes
<1>6. newDisk \in Disks
  BY <1>5 DEF Inv, Types, Disks
<1>7. disk'.board = disk.board /\ disk'.meta = disk.meta /\ disk'.journal = journal
  BY <1>1 DEF Inv, Types, Disks
<1>8. journal = [cur |-> Entry(tx), old |-> disk.journal.old \cup {disk.journal.cur}]
  BY <1>2, <1>3 DEF Replaced, Visible
<1>9. JournalsAgree'
  BY <1>2, <1>7, <1>8 DEF Inv, DiskInv, JournalsAgree, Entry
<1>10. CoveredOrSteady'
  <2>1. ~InstallPending
    BY <1>2 DEF InstallPending, JournalValid
  <2> QED
    BY <1>7, <2>1 DEF Inv, DiskInv, CoveredOrSteady, Steady, Visible
<1>11. StageDisk(r)'
  <2>1. pc'[r] = "syncJournal"
    BY <1>1 DEF Inv, Types
  <2> QED
    BY <1>1, <1>3, <1>7, <1>8, <2>1
       DEF StageDisk, InstallingFiles, AfterBoard, JournalValid, Visible, Readable, Entry
<1> QED
  BY <1>1, <1>6, <1>9, <1>10, <1>11, InstallStepInv DEF DiskInv, InstallStages

LEMMA SyncJournalInv == ASSUME Inv, NEW r \in Slots, SyncJournal(r) PROVE Inv'
<1> DEFINE newDisk == [disk EXCEPT !.journal = FileSynced(@)]
<1>1. InstallStep(r, "syncJournal", "syncJournalDir", newDisk) /\ pc[r] = "syncJournal"
      /\ disk' = newDisk /\ pc' = [pc EXCEPT ![r] = "syncJournalDir"] /\ transaction' = transaction
  BY DEF SyncJournal, InstallStep, Goes
<1>2. JournalValid /\ Visible(disk.journal) = transaction[r]
  BY <1>1 DEF Inv, StageDisk
<1>3. disk.journal \in FilesOf(Transactions \cup {Absent})
  BY DEF Inv, Types, Disks
<1>4. newDisk \in Disks
  BY <1>3, FileTypes DEF Inv, Types, Disks
<1>5. disk'.board = disk.board /\ disk'.meta = disk.meta /\ disk'.journal = FileSynced(disk.journal)
  BY <1>1 DEF Inv, Types, Disks
<1>6. JournalsAgree'
  BY <1>3, <1>5 DEF Inv, DiskInv, JournalsAgree, FileSynced, Synced, FilesOf, Entries
<1>7. CoveredOrSteady'
  <2>1. InstallPending => InstallPending'
    BY <1>3, <1>5, FileOperations DEF InstallPending, JournalValid, Visible, Readable
  <2> QED
    BY <1>5, <2>1 DEF Inv, DiskInv, CoveredOrSteady, Steady, Visible
<1>8. StageDisk(r)'
  <2>1. pc'[r] = "syncJournalDir"
    BY <1>1 DEF Inv, Types
  <2> QED
    BY <1>1, <1>2, <1>3, <1>5, <2>1, FileOperations
       DEF StageDisk, InstallingFiles, AfterBoard, JournalValid, Visible, Readable
<1> QED
  BY <1>1, <1>4, <1>6, <1>7, <1>8, InstallStepInv DEF DiskInv, InstallStages

LEMMA SyncJournalDirInv == ASSUME Inv, NEW r \in Slots, SyncJournalDir(r) PROVE Inv'
<1>1. InstallStep(r, "syncJournalDir", "replaceBoard", DirectorySynced) /\ pc[r] = "syncJournalDir"
      /\ disk' = DirectorySynced /\ pc' = [pc EXCEPT ![r] = "replaceBoard"]
      /\ transaction' = transaction
  BY DEF SyncJournalDir, InstallStep, Goes
<1>2. JournalValid /\ Visible(disk.journal) = transaction[r] /\ disk.journal.cur.flushed
  BY <1>1 DEF Inv, StageDisk
<1>3. disk'.journal = [cur |-> disk.journal.cur, old |-> {}]
  BY <1>1 DEF DirectorySynced, Settled
<1>4. InstallPending' /\ Visible(disk.journal)' = transaction'[r]
  BY <1>1, <1>2, <1>3 DEF InstallPending, JournalValid, Visible, Readable
<1>5. DiskInv'
  BY <1>3, <1>4 DEF Inv, DiskInv, JournalsAgree, CoveredOrSteady
<1>6. StageDisk(r)'
  <2>1. pc'[r] = "replaceBoard"
    BY <1>1 DEF Inv, Types
  <2> QED
    BY <1>4, <2>1 DEF StageDisk, InstallingFiles, AfterBoard
<1> QED
  BY <1>1, <1>5, <1>6, DirectorySyncedType, InstallStepInv DEF Inv, InstallStages, InstallingFiles

(* While the journal is durable and stays so, the files under it are free.   *)
LEMMA JournalKept ==
    ASSUME DiskInv, InstallPending, disk'.journal = disk.journal
    PROVE  DiskInv' /\ InstallPending' /\ Visible(disk.journal)' = Visible(disk.journal)
BY DEF DiskInv, JournalsAgree, CoveredOrSteady, InstallPending, JournalValid, Visible, Readable

(* Each file of the commit is replaced, then synced.                        *)
LEMMA InstallFilesInv == ASSUME Inv, NEW r \in Slots, InstallFiles(r) PROVE Inv'
<1> DEFINE tx == transaction[r]
<1>1. PICK here, there, newDisk :
         /\ here \in InstallStages /\ there \in InstallStages
         /\ InstallStep(r, here, there, newDisk)
         /\ \/ /\ here = "replaceBoard" /\ there = "syncBoard"
               /\ newDisk = [disk EXCEPT !.board = Replaced(@, tx.board)]
            \/ /\ here = "syncBoard" /\ there = "replaceSessions"
               /\ newDisk = [disk EXCEPT !.board = FileSynced(@)]
            \/ /\ here = "replaceSessions" /\ there = "syncSessions"
               /\ newDisk = [disk EXCEPT !.sessions = Replaced(@, tx.sessions)]
            \/ /\ here = "syncSessions" /\ there = "replaceMeta"
               /\ newDisk = [disk EXCEPT !.sessions = FileSynced(@)]
            \/ /\ here = "replaceMeta" /\ there = "syncMeta"
               /\ newDisk = [disk EXCEPT !.meta = Replaced(@, tx.meta)]
            \/ /\ here = "syncMeta" /\ there = "syncFilesDir"
               /\ newDisk = [disk EXCEPT !.meta = FileSynced(@)]
  BY DEF InstallFiles, InstallStages, InstallingFiles, AfterBoard
<1>2. pc[r] = here /\ pc' = [pc EXCEPT ![r] = there] /\ disk' = newDisk /\ transaction' = transaction
      /\ pc'[r] = there
  BY <1>1 DEF InstallStep, Goes, Inv, Types
<1>3. here \in InstallingFiles
  BY <1>1 DEF InstallingFiles, AfterBoard
<1>4. InstallPending /\ Visible(disk.journal) = tx /\ tx \in Transactions
  BY <1>2, <1>3 DEF Inv, StageDisk, StageData, InstallStages
<1>5. /\ disk.board \in FilesOf(SUBSET Mutations) /\ disk.meta \in FilesOf(Metas)
      /\ disk.sessions \in FilesOf(Snapshots)
      /\ tx.board \in SUBSET Mutations /\ tx.sessions \in Snapshots /\ tx.meta \in Metas
  BY <1>4 DEF Inv, Types, Disks, Transactions
<1>6. newDisk \in Disks
  <2>1. /\ Replaced(disk.board, tx.board) \in FilesOf(SUBSET Mutations)
        /\ Replaced(disk.sessions, tx.sessions) \in FilesOf(Snapshots)
        /\ Replaced(disk.meta, tx.meta) \in FilesOf(Metas)
    BY <1>5, FileTypes
  <2>2. /\ FileSynced(disk.board) \in FilesOf(SUBSET Mutations)
        /\ FileSynced(disk.sessions) \in FilesOf(Snapshots)
        /\ FileSynced(disk.meta) \in FilesOf(Metas)
    BY <1>5, FileTypes
  <2> QED
    BY <1>1, <2>1, <2>2 DEF Inv, Types, Disks
<1>7. disk'.journal = disk.journal
  BY <1>1, <1>2 DEF Inv, Types, Disks
<1>8. DiskInv' /\ InstallPending' /\ Visible(disk.journal)' = transaction'[r]
  BY <1>2, <1>4, <1>7, JournalKept DEF Inv
<1>9. StageDisk(r)
  BY DEF Inv
<1>10. StageDisk(r)'
  <2>1. CASE here = "replaceBoard"
    <3>1. disk'.board = Replaced(disk.board, tx.board) /\ there = "syncBoard"
      BY <1>1, <1>2, <2>1 DEF Inv, Types, Disks
    <3>2. Visible(disk.board)' = tx.board /\ Readable(disk.board)'
      BY <1>5, <3>1, FileOperations DEF Visible, Readable
    <3> QED
      BY <1>2, <1>8, <3>1, <3>2 DEF StageDisk, InstallingFiles, AfterBoard
  <2>2. CASE here = "syncBoard"
    <3>1. disk'.board = FileSynced(disk.board) /\ there = "replaceSessions"
      BY <1>1, <1>2, <2>2 DEF Inv, Types, Disks
    <3>2. Visible(disk.board) = tx.board /\ Readable(disk.board)
      BY <1>2, <1>9, <2>2 DEF StageDisk
    <3>3. Visible(disk.board)' = tx.board /\ Readable(disk.board)' /\ disk'.board.cur.flushed
      BY <1>5, <3>1, <3>2, FileOperations DEF Visible, Readable
    <3> QED
      BY <1>2, <1>8, <3>1, <3>3 DEF StageDisk, InstallingFiles, AfterBoard
  <2>3. CASE here \in {"replaceSessions", "syncSessions"}
    <3>1. disk'.board = disk.board /\ there \in {"syncSessions", "replaceMeta"}
      BY <1>1, <1>2, <2>3 DEF Inv, Types, Disks
    <3>2. Visible(disk.board) = tx.board /\ Readable(disk.board) /\ disk.board.cur.flushed
      BY <1>2, <1>9, <2>3 DEF StageDisk, AfterBoard
    <3> QED
      BY <1>2, <1>8, <3>1, <3>2 DEF StageDisk, InstallingFiles, AfterBoard, Visible, Readable
  <2>4. CASE here = "replaceMeta"
    <3>1. disk'.board = disk.board /\ disk'.meta = Replaced(disk.meta, tx.meta) /\ there = "syncMeta"
      BY <1>1, <1>2, <2>4 DEF Inv, Types, Disks
    <3>2. Visible(disk.board) = tx.board /\ Readable(disk.board) /\ disk.board.cur.flushed
      BY <1>2, <1>9, <2>4 DEF StageDisk, AfterBoard
    <3>3. Visible(disk.meta)' = tx.meta /\ Readable(disk.meta)'
      BY <1>5, <3>1, FileOperations DEF Visible, Readable
    <3> QED
      BY <1>2, <1>8, <3>1, <3>2, <3>3 DEF StageDisk, InstallingFiles, AfterBoard, Visible, Readable
  <2>5. CASE here = "syncMeta"
    <3>1. disk'.board = disk.board /\ disk'.meta = FileSynced(disk.meta) /\ there = "syncFilesDir"
      BY <1>1, <1>2, <2>5 DEF Inv, Types, Disks
    <3>2. Visible(disk.board) = tx.board /\ Readable(disk.board) /\ disk.board.cur.flushed
          /\ Visible(disk.meta) = tx.meta /\ Readable(disk.meta)
      BY <1>2, <1>9, <2>5 DEF StageDisk, AfterBoard
    <3>3. Visible(disk.meta)' = tx.meta /\ Readable(disk.meta)' /\ disk'.meta.cur.flushed
      BY <1>5, <3>1, <3>2, FileOperations DEF Visible, Readable
    <3> QED
      BY <1>2, <1>8, <3>1, <3>2, <3>3 DEF StageDisk, InstallingFiles, AfterBoard, Visible, Readable
  <2> QED
    BY <1>1, <2>1, <2>2, <2>3, <2>4, <2>5
<1> QED
  BY <1>1, <1>6, <1>8, <1>10, InstallStepInv

(* The directory sync makes the replaced files the only ones to come back.  *)
LEMMA SyncFilesDirInv == ASSUME Inv, NEW r \in Slots, SyncFilesDir(r) PROVE Inv'
<1>1. InstallStep(r, "syncFilesDir", "unlinkJournal", DirectorySynced) /\ pc[r] = "syncFilesDir"
      /\ disk' = DirectorySynced /\ pc' = [pc EXCEPT ![r] = "unlinkJournal"]
      /\ transaction' = transaction
  BY DEF SyncFilesDir, InstallStep, Goes
<1>2. StageDisk(r) /\ InstallPending /\ Visible(disk.journal) = transaction[r]
  BY <1>1 DEF Inv, StageDisk, InstallingFiles, AfterBoard
<1>3. disk'.journal = Settled(disk.journal) /\ disk'.board = Settled(disk.board)
      /\ disk'.meta = Settled(disk.meta)
  BY <1>1 DEF DirectorySynced
<1>4. disk'.journal.cur = disk.journal.cur /\ disk'.journal.old = {}
      /\ disk'.board.cur = disk.board.cur /\ disk'.board.old = {}
      /\ disk'.meta.cur = disk.meta.cur /\ disk'.meta.old = {}
  BY <1>3 DEF Settled
<1>5. InstallPending' /\ Visible(disk.journal)' = transaction'[r]
  BY <1>1, <1>2, <1>4 DEF InstallPending, JournalValid, Visible, Readable
<1>6. DiskInv'
  BY <1>4, <1>5 DEF Inv, DiskInv, JournalsAgree, CoveredOrSteady
<1>7. StageDisk(r)'
  <2>1. pc'[r] = "unlinkJournal"
    BY <1>1 DEF Inv, Types
  <2> QED
    BY <1>1, <1>2, <1>4, <1>5, <2>1 DEF StageDisk, InstallingFiles, AfterBoard, Visible, Readable
<1> QED
  BY <1>1, <1>6, <1>7, DirectorySyncedType, InstallStepInv DEF Inv, InstallStages, InstallingFiles, AfterBoard

(* By the time the journal goes, the files it covered are durable.          *)
LEMMA UnlinkJournalInv == ASSUME Inv, NEW r \in Slots, UnlinkJournal(r) PROVE Inv'
<1> DEFINE newDisk == [disk EXCEPT !.journal = Unlinked(@)]
<1>1. InstallStep(r, "unlinkJournal", "syncUnlink", newDisk) /\ pc[r] = "unlinkJournal"
      /\ disk' = newDisk /\ pc' = [pc EXCEPT ![r] = "syncUnlink"] /\ transaction' = transaction
  BY DEF UnlinkJournal, InstallStep, Goes
<1>2. /\ Steady(disk.board) /\ Steady(disk.meta)
      /\ Visible(disk.board) = transaction[r].board /\ Visible(disk.meta) = transaction[r].meta
      /\ Agree(transaction[r].board, transaction[r].meta)
  BY <1>1 DEF Inv, StageDisk, StageData, InstallStages, InstallingFiles, AfterBoard, Steady, Readable
<1>3. disk'.board = disk.board /\ disk'.meta = disk.meta /\ disk'.journal = Unlinked(disk.journal)
  BY <1>1 DEF Inv, Types, Disks
<1>4. disk'.journal.cur.val = Absent /\ disk'.journal.old = disk.journal.old \cup {disk.journal.cur}
  BY <1>3 DEF Unlinked, Synced, Entry
<1>5. newDisk \in Disks
  BY DEF Inv, Types, Disks, FilesOf, Entries, Unlinked, Synced, Entry
<1>6. JournalsAgree'
  BY <1>4 DEF Inv, DiskInv, JournalsAgree
<1>7. CoveredOrSteady'
  BY <1>2, <1>3 DEF CoveredOrSteady, Steady, Visible
<1>8. StageDisk(r)'
  <2>1. pc'[r] = "syncUnlink"
    BY <1>1 DEF Inv, Types
  <2> QED
    BY <1>4, <2>1 DEF StageDisk, InstallingFiles, AfterBoard, Visible
<1> QED
  BY <1>1, <1>5, <1>6, <1>7, <1>8, InstallStepInv DEF DiskInv, InstallStages, InstallingFiles, AfterBoard

LEMMA SyncUnlinkInv == ASSUME Inv, NEW r \in Slots, SyncUnlink(r) PROVE Inv'
<1> DEFINE stage == IF installing[r] = "own" THEN "release" ELSE "decide"
<1>1. pc[r] = "syncUnlink" /\ pc' = [pc EXCEPT ![r] = stage] /\ disk' = DirectorySynced
      /\ transaction' = [transaction EXCEPT ![r] = Absent]
      /\ installing' = [installing EXCEPT ![r] = "nothing"]
      /\ UNCHANGED <<queue, request, outcome, submitted, replies, bounds>>
  BY DEF SyncUnlink, Goes
<1>2. Visible(disk.journal) = Absent
  BY <1>1 DEF Inv, StageDisk
<1>3. /\ disk'.journal.cur = disk.journal.cur /\ disk'.journal.old = {}
      /\ disk'.board.cur = disk.board.cur /\ disk'.board.old = {}
      /\ disk'.meta.cur = disk.meta.cur /\ disk'.meta.old = {}
  BY <1>1 DEF DirectorySynced, Settled
<1>4. DiskInv'
  <2>1. ~InstallPending
    BY <1>2 DEF InstallPending, JournalValid
  <2> QED
    BY <1>3, <2>1 DEF Inv, DiskInv, JournalsAgree, CoveredOrSteady, Steady, Visible
<1>5. pc'[r] = stage
  BY <1>1 DEF Inv, Types
<1>6. StageData(r)'
  BY <1>1, <1>5 DEF Inv, StageData, InstallStages, InstallingFiles, AfterBoard
<1>7. StageDisk(r)'
  BY <1>2, <1>3, <1>5 DEF StageDisk, InstallingFiles, AfterBoard, Visible
<1>8. stage \in LockedStages /\ "syncUnlink" \in LockedStages
  BY DEF LockedStages
<1>9. disk' \in Disks
  BY <1>1, DirectorySyncedType DEF Inv
<1>10. /\ transaction' \in [Slots -> Transactions \cup {Absent}]
       /\ installing' \in [Slots -> {"nothing", "recovered", "own"}]
       /\ outcome' \in [Slots -> Outcomes \cup {Absent}]
  BY <1>1 DEF Inv, Types
<1> QED
  BY <1>1, <1>4, <1>6, <1>7, <1>8, <1>9, <1>10, HolderMoves

-----------------------------------------------------------------------------
(* Arrivals, ends and crashes *)

(* A slot outside the lock moves outside the lock.                          *)
LEMMA OutsideStages ==
    ASSUME Inv, NEW r \in Slots, NEW stage \in {"idle", "captured", "waiting"},
           pc[r] \notin LockedStages, pc' = [pc EXCEPT ![r] = stage],
           UNCHANGED <<disk, transaction, installing, outcome>>
    PROVE  DiskInv' /\ \A q \in Slots : StageData(q)' /\ StageDisk(q)'
<1>1. DiskInv'
  BY SameDisk DEF Inv
<1>2. ASSUME NEW q \in Slots, q # r PROVE StageData(q)' /\ StageDisk(q)'
  <2>1. StageData(q) /\ StageDisk(q) /\ pc'[q] = pc[q]
    BY <1>2 DEF Inv, Types
  <2> QED
    BY <2>1 DEF StageData, StageDisk, InstallPending, JournalValid, Visible, Readable
<1>3. StageData(r)' /\ StageDisk(r)'
  <2>1. pc'[r] = stage
    BY DEF Inv, Types
  <2> QED
    BY <2>1 DEF StageData, StageDisk, InstallStages, InstallingFiles, AfterBoard
<1> QED
  BY <1>1, <1>2, <1>3

LEMMA SubmitInv == ASSUME Inv, NEW r \in Slots, NEW q \in Requests, Submit(r, q) PROVE Inv'
<1>1. pc[r] = "idle" /\ pc' = [pc EXCEPT ![r] = "captured"]
      /\ request' = [request EXCEPT ![r] = q] /\ submitted' = submitted \cup {q}
      /\ submissions' = submissions + 1
      /\ UNCHANGED <<disk, queue, transaction, installing, outcome, replies, crashes, powerLosses>>
  BY DEF Submit, Goes
<1>2. Types'
  BY <1>1 DEF Inv, Types
<1>3. LockOrder'
  BY <1>1 DEF Inv, Types, LockOrder, LockedStages
<1>4. pc[r] \notin LockedStages
  BY <1>1 DEF LockedStages
<1> QED
  BY <1>1, <1>2, <1>3, <1>4, OutsideStages DEF Inv

LEMMA SubmitAnyInv ==
    ASSUME Inv, NEW r \in Slots, SubmitCommand(r) \/ SubmitInternal(r) PROVE Inv'
<1>1. KnownRevisions \subseteq Nat
  BY DEF KnownRevisions, Inv, Types, Replies
<1>2. CASE SubmitCommand(r)
  <2>1. PICK id \in CommandIds, c \in Contents, s \in Snapshots, revision \in KnownRevisions :
          Submit(r, [kind |-> "command", id |-> id, content |-> c, expected |-> revision, sessions |-> s])
    BY <1>2 DEF SubmitCommand
  <2> DEFINE q == [kind |-> "command", id |-> id, content |-> c, expected |-> revision, sessions |-> s]
  <2>2. q \in Requests
    BY <1>1 DEF Requests
  <2> HIDE DEF q
  <2> QED
    BY <2>1, <2>2, SubmitInv DEF q
<1>3. CASE SubmitInternal(r)
  <2>1. PICK k \in InternalKinds, s \in Snapshots :
          Submit(r, [IdleRequest EXCEPT !.kind = k, !.sessions = s])
    BY <1>3 DEF SubmitInternal
  <2>2. [IdleRequest EXCEPT !.kind = k, !.sessions = s] \in Requests
    BY ContentAssumption DEF IdleRequest, Requests
  <2> QED
    BY <2>1, <2>2, SubmitInv
<1> QED
  BY <1>2, <1>3

LEMMA EnqueueInv == ASSUME Inv, NEW r \in Slots, Enqueue(r) PROVE Inv'
<1>1. pc[r] = "captured" /\ pc' = [pc EXCEPT ![r] = "waiting"] /\ queue' = Append(queue, r)
      /\ UNCHANGED <<disk, request, transaction, installing, outcome, submitted, replies, bounds>>
  BY DEF Enqueue, Goes
<1>2. Types'
  BY <1>1 DEF Inv, Types, bounds
<1>3. ASSUME NEW i \in DOMAIN queue PROVE queue[i] # r /\ queue'[i] = queue[i]
  BY <1>1, <1>3 DEF Inv, Types, LockOrder, LockedStages
<1>4. DOMAIN queue' = DOMAIN queue \cup {Len(queue) + 1} /\ queue'[Len(queue) + 1] = r
  BY <1>1 DEF Inv, Types
<1>5. LockOrder'
  <2>1. ASSUME NEW i \in DOMAIN queue', NEW j \in DOMAIN queue', i # j PROVE queue'[i] # queue'[j]
    BY <1>3, <1>4, <2>1 DEF Inv, LockOrder
  <2>2. ASSUME NEW i \in DOMAIN queue' PROVE pc'[queue'[i]] \in {"waiting"} \cup LockedStages
    <3>1. CASE i \in DOMAIN queue
      <4>1. queue'[i] = queue[i] /\ queue[i] # r /\ queue[i] \in Slots
        BY <1>3, <3>1 DEF Inv, Types
      <4> QED
        BY <1>1, <3>1, <4>1 DEF Inv, Types, LockOrder
    <3>2. CASE i = Len(queue) + 1
      BY <1>1, <1>4, <3>2 DEF Inv, Types
    <3> QED
      BY <1>4, <3>1, <3>2
  <2>3. ASSUME NEW q \in Slots, pc'[q] \in LockedStages PROVE queue' # <<>> /\ Head(queue') = q
    <3>1. q # r /\ pc[q] \in LockedStages
      BY <1>1, <2>3 DEF Inv, Types, LockedStages
    <3>2. queue # <<>> /\ Head(queue) = q
      BY <3>1 DEF Inv, LockOrder
    <3> QED
      BY <1>1, <3>2 DEF Inv, Types
  <2> QED
    BY <2>1, <2>2, <2>3 DEF LockOrder
<1>6. pc[r] \notin LockedStages
  BY <1>1 DEF LockedStages
<1> QED
  BY <1>1, <1>2, <1>5, <1>6, OutsideStages DEF Inv

(* The holder leaves, answered or failed, whatever it left on the disk.      *)
LEMMA EndsInv ==
    ASSUME Inv, NEW r \in Slots, pc[r] \in LockedStages, Ends(r), replies' \subseteq Replies
    PROVE  Inv'
<1>1. queue' = Tail(queue) /\ pc' = [pc EXCEPT ![r] = "idle"]
      /\ request' = [request EXCEPT ![r] = IdleRequest]
      /\ transaction' = [transaction EXCEPT ![r] = Absent]
      /\ installing' = [installing EXCEPT ![r] = "nothing"]
      /\ outcome' = [outcome EXCEPT ![r] = Absent]
      /\ UNCHANGED <<disk, submitted, bounds>>
  BY DEF Ends
<1>2. queue # <<>> /\ Head(queue) = r /\ queue \in Seq(Slots)
  BY DEF Inv, Types, LockOrder
<1>3. queue' \in Seq(Slots) /\ DOMAIN queue' = 1 .. (Len(queue) - 1)
      /\ \A i \in DOMAIN queue' : queue'[i] = queue[i + 1] /\ i + 1 \in DOMAIN queue
      /\ queue[1] = r /\ 1 \in DOMAIN queue
  BY <1>1, <1>2
<1>4. Types'
  BY <1>1, <1>3, IdleRequestType DEF Inv, Types, bounds
<1>5. ASSUME NEW q \in Slots PROVE pc'[q] \notin LockedStages
  BY <1>1, <1>5, OnlyTheHolder DEF Inv, Types, LockedStages
<1>6. LockOrder'
  <2>1. ASSUME NEW i \in DOMAIN queue' PROVE queue'[i] # r /\ queue'[i] \in Slots
                                              /\ pc[queue'[i]] \in {"waiting"} \cup LockedStages
    BY <1>2, <1>3 DEF Inv, LockOrder
  <2>2. ASSUME NEW i \in DOMAIN queue', NEW j \in DOMAIN queue', i # j PROVE queue'[i] # queue'[j]
    BY <1>3, <2>2 DEF Inv, LockOrder
  <2>3. ASSUME NEW i \in DOMAIN queue' PROVE pc'[queue'[i]] \in {"waiting"} \cup LockedStages
    BY <1>1, <2>1 DEF Inv, Types
  <2> QED
    BY <1>5, <2>2, <2>3 DEF LockOrder
<1>7. DiskInv'
  BY <1>1, SameDisk DEF Inv
<1>8. ASSUME NEW q \in Slots PROVE StageData(q)' /\ StageDisk(q)'
  BY <1>5 DEF StageData, StageDisk, LockedStages, InstallStages, InstallingFiles, AfterBoard
<1> QED
  BY <1>4, <1>6, <1>7, <1>8 DEF Inv

LEMMA ReleaseOrFailInv == ASSUME Inv, NEW r \in Slots, Release(r) \/ Fail(r) PROVE Inv'
<1>1. CASE Release(r)
  <2>1. pc[r] = "release" /\ Ends(r)
        /\ replies' = replies \cup {[id |-> request[r].id, content |-> request[r].content,
              expected |-> request[r].expected, answer |-> outcome[r].answer,
              revision |-> outcome[r].revision, board |-> outcome[r].board]}
    BY <1>1 DEF Release
  <2>2. outcome[r] \in Outcomes /\ request[r] \in Requests
    BY <2>1 DEF Inv, StageData, Types
  <2>3. replies' \subseteq Replies
    BY <2>1, <2>2 DEF Inv, Types, Replies, Outcomes, Requests
  <2> QED
    BY <2>1, <2>3, EndsInv DEF LockedStages
<1>2. CASE Fail(r)
  BY <1>2, EndsInv DEF Fail, Inv, Types
<1> QED
  BY <1>1, <1>2

(* After a stop nobody holds anything; only the disk matters.               *)
LEMMA StopsInv ==
    ASSUME Inv, Stops, crashes' \in Nat, powerLosses' \in Nat, disk' \in Disks, DiskInv'
    PROVE  Inv'
<1>1. Types'
  BY IdleRequestType DEF Stops, Inv, Types
<1>2. LockOrder'
  BY DEF Stops, LockOrder, LockedStages
<1>3. \A r \in Slots : StageData(r)' /\ StageDisk(r)'
  BY DEF Stops, StageData, StageDisk, InstallStages, InstallingFiles, AfterBoard
<1> QED
  BY <1>1, <1>2, <1>3 DEF Inv

LEMMA CrashInv == ASSUME Inv, Crash PROVE Inv'
BY StopsInv, SameDisk DEF Crash, Inv, Types

(* Losing power picks, for each file, one of its entries: a durable file or  *)
(* journal stays what it is, and any journal that appears agrees.            *)
LEMMA PowerLossInv == ASSUME Inv, PowerLoss PROVE Inv'
<1>1. PICK board \in AfterPowerLoss(disk.board), sessions \in AfterPowerLoss(disk.sessions),
           meta \in AfterPowerLoss(disk.meta), journal \in AfterPowerLoss(disk.journal) :
         disk' = [board |-> board, sessions |-> sessions, meta |-> meta, journal |-> journal]
  BY DEF PowerLoss
<1>2. /\ disk.board \in FilesOf(SUBSET Mutations) /\ disk.sessions \in FilesOf(Snapshots)
      /\ disk.meta \in FilesOf(Metas) /\ disk.journal \in FilesOf(Transactions \cup {Absent})
  BY DEF Inv, Types, Disks
<1>3. ASSUME NEW V, NEW file \in FilesOf(V), NEW lost \in AfterPowerLoss(file)
      PROVE  /\ lost \in FilesOf(V) /\ lost.old = {}
             /\ \E e \in file.old \cup {file.cur} : lost.cur.val = e.val
             /\ file.cur.flushed /\ file.old = {} => lost.cur = file.cur
  <2>1. PICK e \in file.old \cup {file.cur} : lost.cur \in Survivors(e) /\ lost = [cur |-> lost.cur, old |-> {}]
    BY DEF AfterPowerLoss
  <2>2. e \in Entries(V)
    BY DEF FilesOf
  <2>3. lost.cur \in Entries(V) /\ lost.cur.val = e.val /\ (e.flushed => lost.cur = e)
    BY <2>1, <2>2 DEF Survivors, Synced, Entries
  <2> QED
    BY <2>1, <2>3 DEF FilesOf
<1>4. board \in FilesOf(SUBSET Mutations) /\ sessions \in FilesOf(Snapshots)
      /\ meta \in FilesOf(Metas) /\ journal \in FilesOf(Transactions \cup {Absent})
  BY <1>2, <1>3
<1>5. disk' \in Disks
  BY <1>1, <1>4 DEF Disks
<1>6. journal.old = {} /\ \E e \in disk.journal.old \cup {disk.journal.cur} : journal.cur.val = e.val
  BY <1>2, <1>3
<1>7. JournalsAgree'
  BY <1>1, <1>6 DEF Inv, DiskInv, JournalsAgree
<1>8. CoveredOrSteady'
  <2>1. CASE InstallPending
    <3>1. journal.cur = disk.journal.cur
      BY <1>2, <1>3, <2>1 DEF InstallPending
    <3>2. InstallPending'
      BY <1>1, <1>6, <2>1, <3>1 DEF InstallPending, JournalValid, Visible, Readable
    <3> QED
      BY <3>2 DEF CoveredOrSteady
  <2>2. CASE ~InstallPending
    <3>1. Steady(disk.board) /\ Steady(disk.meta) /\ Agree(Visible(disk.board), Visible(disk.meta))
      BY <2>2 DEF Inv, DiskInv, CoveredOrSteady
    <3>2. board.cur = disk.board.cur /\ board.old = {} /\ meta.cur = disk.meta.cur /\ meta.old = {}
      BY <1>2, <1>3, <3>1 DEF Steady
    <3> QED
      BY <1>1, <3>1, <3>2 DEF CoveredOrSteady, Steady, Visible
  <2> QED
    BY <2>1, <2>2
<1> QED
  BY <1>5, <1>7, <1>8, StopsInv DEF PowerLoss, DiskInv, Inv, Types

-----------------------------------------------------------------------------
(* Every step of the system preserves the invariant.                        *)
LEMMA NextInv == Inv /\ [Next]_vars => Inv'
<1> SUFFICES ASSUME Inv, [Next]_vars PROVE Inv'
  OBVIOUS
<1>1. ASSUME NEW r \in Slots, SubmitCommand(r) \/ SubmitInternal(r) PROVE Inv'
  BY <1>1, SubmitAnyInv
<1>2. ASSUME NEW r \in Slots, Decide(r) PROVE Inv'
  <2>1. CASE CommitCommand(r) \/ CommitProjection(r)
    <3>1. PICK changed \in BOOLEAN : pc[r] = "decide" /\ Commits(r, changed)
      BY <2>1 DEF CommitCommand, CommitProjection, Deciding
    <3> QED
      BY <3>1, CommitsInv
  <2> QED
    BY <1>2, <2>1, AnsweredInv, WriteSessionsOnlyInv DEF Decide
<1>3. ASSUME NEW r \in Slots, Install(r) PROVE Inv'
  BY <1>3, WriteJournalInv, SyncJournalInv, SyncJournalDirInv, InstallFilesInv, SyncFilesDirInv,
     UnlinkJournalInv, SyncUnlinkInv DEF Install
<1>4. ASSUME NEW r \in Slots, Step(r) PROVE Inv'
  BY <1>2, <1>3, <1>4, EnqueueInv, AcquireLockInv, NothingToRecoverInv, RecoverJournalInv,
     ReleaseOrFailInv DEF Step
<1>5. CASE UNCHANGED vars
  <2>1. Types' /\ LockOrder'
    BY <1>5 DEF Inv, Types, LockOrder, vars
  <2>2. DiskInv'
    BY <1>5, SameDisk DEF Inv, vars
  <2>3. \A r \in Slots : StageData(r)' /\ StageDisk(r)'
    BY <1>5 DEF Inv, StageData, StageDisk, InstallPending, JournalValid, Visible, Readable, vars
  <2> QED
    BY <2>1, <2>2, <2>3 DEF Inv
<1> QED
  BY <1>1, <1>4, <1>5, CrashInv, PowerLossInv DEF Next

THEOREM InvariantHolds == Spec => []Inv
BY InitInv, NextInv, PTL DEF Spec

(* Type correctness and mutual exclusion: only the head of the in-process   *)
(* queue is ever past the wait for the project lock.                        *)
THEOREM TypeCorrect == Spec => []TypeOK
<1>1. Inv => TypeOK
  BY DEF Inv, TypeOK
<1> QED
  BY <1>1, InvariantHolds, PTL

(* Crash consistency of installProjectStateTransaction: whatever step any    *)
(* crash, I/O error or power loss interrupts, either the journal can be      *)
(* installed or board.json and meta.json are whole and from one commit.      *)
THEOREM CrashConsistency == Spec => []StateFilesAgree
<1>1. Inv => StateFilesAgree
  BY DEF Inv, DiskInv, CoveredOrSteady, StateFilesAgree, Steady, InstallPending, JournalValid, Readable
<1> QED
  BY <1>1, InvariantHolds, PTL

=============================================================================
