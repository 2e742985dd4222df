-------------------- MODULE ProjectStoreRefinementProofs --------------------
(***************************************************************************)
(* The project files implement ProjectStore, and what follows from it: the *)
(* observations of callers stay true, and a retried command is applied     *)
(* once within the receipt window.                                         *)
(*                                                                         *)
(* The invariant of ProjectStateTransactionProofs says what is durable.    *)
(* The one here says what it means: which journals on the disk repeat the  *)
(* committed state and which one offers the next commit, whose request it  *)
(* came from, and that an answer is true from the moment the lock holder   *)
(* decides on it until it is given.                                        *)
(***************************************************************************)
EXTENDS ProjectStateTransactionProofs, FiniteSetTheorems

(* The state a request commits on top of a board and its metadata.         *)
CommitOf(board, meta, q, changed) ==
    LET next == meta.revision + 1
    IN [board |-> IF changed
                  THEN board \cup {[rev |-> next, id |-> q.id, content |-> q.content]} ELSE board,
        sessions |-> q.sessions,
        meta |-> [revision |-> next,
                  receipts |-> IF q.kind = "command"
                               THEN NewestReceipts(meta.receipts \cup
                                       {[rev |-> next, id |-> q.id, content |-> q.content,
                                         accepted |-> changed]})
                               ELSE meta.receipts]]

CommitsTo(board, meta, q, T) == \E changed \in BOOLEAN : T = CommitOf(board, meta, q, changed)

MayCommit(meta, q) ==
    \/ q.kind = "projection"
    \/ q.kind = "command" /\ q.expected = meta.revision /\ \A c \in meta.receipts : c.id # q.id

Offers(requests, board, meta, T) ==
    \E q \in requests : MayCommit(meta, q) /\ CommitsTo(board, meta, q, T)

(* The answer a slot is about to give, and when an answer is true.         *)
ReplyOf(r) == [id |-> request[r].id, content |-> request[r].content,
               expected |-> request[r].expected, answer |-> outcome[r].answer,
               revision |-> outcome[r].revision, board |-> outcome[r].board]

TrueOf(p, board, meta) ==
    /\ p.revision = meta.revision /\ p.board = board
    /\ p.answer = "applied" /\ p.id # NoCommand =>
           \E c \in meta.receipts : c.id = p.id /\ c.content = p.content /\ c.accepted = TRUE
    /\ p.answer = "unchanged" =>
           \E c \in meta.receipts : c.id = p.id /\ c.content = p.content /\ c.accepted = FALSE
    /\ p.answer = "conflict" =>
           p.expected # meta.revision /\ \A c \in meta.receipts : c.id # p.id
    /\ p.answer = "identityConflict" =>
           \E c \in meta.receipts : c.id = p.id /\ c.content # p.content

(* The receipts are those of the latest revisions, at most one each, and a *)
(* command without one was applied a whole window of revisions ago.        *)
Windowed(board, meta) ==
    /\ \A c \in meta.receipts : c.rev <= meta.revision
    /\ \A c, d \in meta.receipts : c.rev = d.rev => c = d
    /\ \A m \in board : m.id # NoCommand =>
           \/ \E c \in meta.receipts : c.id = m.id /\ c.rev = m.rev
           \/ m.rev + MaxReceipts <= meta.revision
    /\ \A m, n \in board :
           m.id = n.id /\ m.id # NoCommand /\ m.rev < n.rev => n.rev - m.rev > MaxReceipts

Kept(p, board, meta) ==
    /\ p.revision <= meta.revision
    /\ p.board = {m \in board : m.rev <= p.revision}

JournalHistory ==
    /\ \A e \in disk.journal.old : e.val # Absent /\ e.intact =>
           e.val.board = Committed.board /\ e.val.meta = Committed.meta
    /\ JournalValid /\ ~InstallPending => 
           Offers(submitted, Committed.board, Committed.meta, Visible(disk.journal))
    /\ Visible(disk.journal) # Absent /\ disk.journal.old = {} => disk.journal.cur.flushed

BeforeCommit == {"writeJournal", "syncJournal", "syncJournalDir"}

SlotHistory(r) ==
    /\ pc[r] # "idle" => request[r] \in submitted
    /\ pc[r] = "writeJournal" =>
           Offers(submitted, Committed.board, Committed.meta, transaction[r])
    /\ pc[r] \in BeforeCommit /\ installing[r] = "own" =>
           TrueOf(ReplyOf(r), transaction[r].board, transaction[r].meta)
    /\ \/ pc[r] = "release"
       \/ pc[r] \in InstallingFiles \cup {"syncUnlink"} /\ installing[r] = "own"
       => TrueOf(ReplyOf(r), Committed.board, Committed.meta)

(* The session map follows the transaction as the other two files do.      *)
SlotSessions(r) ==
    /\ pc[r] \in {"syncSessions", "replaceMeta", "syncMeta", "syncFilesDir", "unlinkJournal"} =>
          Visible(disk.sessions) = transaction[r].sessions /\ Readable(disk.sessions)
    /\ pc[r] \in {"replaceMeta", "syncMeta", "syncFilesDir", "unlinkJournal"} =>
          disk.sessions.cur.flushed
    /\ pc[r] = "unlinkJournal" => disk.sessions.old = {}
    /\ pc[r] = "syncUnlink" =>
          /\ Steady(disk.sessions)
          /\ \A e \in disk.journal.old : e.val # Absent /\ e.intact =>
                 e.val.sessions = Visible(disk.sessions)

History ==
    /\ JournalHistory
    /\ \A r \in Slots : SlotHistory(r) /\ SlotSessions(r)
    /\ Windowed(Committed.board, Committed.meta)
    /\ \A p \in replies : Kept(p, Committed.board, Committed.meta)

-----------------------------------------------------------------------------
(* What a commit does to the receipts and to earlier observations.         *)

CommitEffect(board, meta, q, T) ==
    /\ T.meta.revision = meta.revision + 1 /\ T.sessions = q.sessions
    /\ meta.revision \in Nat /\ meta.receipts \in SUBSET Receipts
    /\ \/ T.board = board
       \/ T.board = board \cup {[rev |-> meta.revision + 1, id |-> q.id, content |-> q.content]}
    /\ q.kind # "command" => q.id = NoCommand /\ T.meta.receipts = meta.receipts
    /\ q.kind = "command" => \E receipt \in Receipts :
          /\ receipt.rev = meta.revision + 1 /\ receipt.id = q.id
          /\ receipt.content = q.content
          /\ T.meta.receipts = NewestReceipts(meta.receipts \cup {receipt})

LEMMA CommitHasEffect ==
    ASSUME NEW board \in SUBSET Mutations, NEW meta \in Metas, NEW q \in Requests,
           NEW T, CommitsTo(board, meta, q, T)
    PROVE  CommitEffect(board, meta, q, T)
<1>1. PICK changed \in BOOLEAN : T = CommitOf(board, meta, q, changed)
  BY DEF CommitsTo
<1> DEFINE next == meta.revision + 1
           receipt == [rev |-> next, id |-> q.id, content |-> q.content, accepted |-> changed]
<1>2. meta.revision \in Nat /\ meta.receipts \in SUBSET Receipts
  BY DEF Metas
<1>3. T.meta.revision = next /\ T.sessions = q.sessions
  BY <1>1 DEF CommitOf
<1>4. T.board = IF changed THEN board \cup {[rev |-> next, id |-> q.id, content |-> q.content]}
                ELSE board
  BY <1>1 DEF CommitOf
<1>5. T.meta.receipts =
        IF q.kind = "command" THEN NewestReceipts(meta.receipts \cup {receipt}) ELSE meta.receipts
  BY <1>1 DEF CommitOf
<1>6. q.kind # "command" => q.id = NoCommand
  BY DEF Requests, InternalKinds
<1>7. q.kind = "command" => receipt \in Receipts
  <2>1. next \in Nat
    BY <1>2
  <2> HIDE DEF next
  <2> QED
    BY <2>1 DEF Requests, InternalKinds, Receipts
<1>8. receipt.rev = next /\ receipt.id = q.id /\ receipt.content = q.content
  OBVIOUS
<1> HIDE DEF receipt
<1>9. \/ T.board = board
      \/ T.board = board \cup {[rev |-> next, id |-> q.id, content |-> q.content]}
  BY <1>4
<1>10. q.kind = "command" => \E c \in Receipts :
          /\ c.rev = next /\ c.id = q.id /\ c.content = q.content
          /\ T.meta.receipts = NewestReceipts(meta.receipts \cup {c})
  BY <1>5, <1>7, <1>8
<1> QED
  BY <1>2, <1>3, <1>5, <1>6, <1>9, <1>10 DEF CommitEffect

(* At most one receipt per revision: so many are newer than a given one.   *)
LEMMA NewerReceipts ==
    ASSUME NEW receipts \in SUBSET Receipts, NEW top \in Nat, NEW c \in receipts,
           \A d \in receipts : d.rev <= top,
           \A d, e \in receipts : d.rev = e.rev => d = e
    PROVE  /\ Cardinality({d \in receipts : d.rev > c.rev}) \in Nat
           /\ Cardinality({d \in receipts : d.rev > c.rev}) <= top - c.rev
<1> DEFINE newer == {d \in receipts : d.rev > c.rev}
           revs == (c.rev + 1) .. top
           rev == [d \in newer |-> d.rev]
<1>1. \A d \in receipts : d.rev \in Nat
  BY DEF Receipts
<1>2. rev \in Injection(newer, revs)
  <2>1. rev \in [newer -> revs]
    BY <1>1
  <2>2. \A d, e \in newer : rev[d] = rev[e] => d = e
    OBVIOUS
  <2> QED
    BY <2>1, <2>2 DEF Injection, IsInjective
<1>3. c.rev \in Nat /\ c.rev <= top /\ c.rev + 1 \in Int /\ top \in Int
  BY <1>1
<1>4. IsFiniteSet(revs) /\ Cardinality(revs) = IF c.rev + 1 > top THEN 0 ELSE top - (c.rev + 1) + 1
  <2> HIDE DEF newer, rev
  <2> QED
    BY <1>3, FS_Interval
<1>5. IsFiniteSet(newer) /\ Cardinality(newer) <= Cardinality(revs)
  BY <1>2, <1>4, FS_Injection
<1>6. Cardinality(newer) \in Nat
  BY <1>5, FS_CardinalityType
<1> QED
  BY <1>3, <1>4, <1>5, <1>6

(* A command may be applied again only after its receipt left the window.  *)
LEMMA CommitKeepsWindow ==
    ASSUME NEW board \in SUBSET Mutations, NEW meta \in Metas, NEW q \in Requests,
           NEW T, CommitsTo(board, meta, q, T),
           MayCommit(meta, q), Agree(board, meta), Windowed(board, meta)
    PROVE  Windowed(T.board, T.meta)
<1> DEFINE next == meta.revision + 1
           new == [rev |-> next, id |-> q.id, content |-> q.content]
<1>0. CommitEffect(board, meta, q, T)
  BY CommitHasEffect
<1>1. /\ T.meta.revision = next /\ meta.revision \in Nat
      /\ T.board = board \/ T.board = board \cup {new}
      /\ meta.receipts \in SUBSET Receipts
  BY <1>0 DEF CommitEffect
<1>2. new.rev = next /\ new.id = q.id /\ next = meta.revision + 1 /\ next \in Nat
  BY <1>1
<1>3. PICK all \in SUBSET Receipts, receipt \in Receipts \cup {new} :
        /\ receipt.rev = next /\ receipt.id = q.id
        /\ meta.receipts \subseteq all /\ all \subseteq meta.receipts \cup {receipt}
        /\ q.id # NoCommand => receipt \in all
        /\ T.meta.receipts = all \/ T.meta.receipts = NewestReceipts(all)
  <2>1. CASE q.kind = "command"
    <3>1. PICK c \in Receipts : /\ c.rev = next /\ c.id = q.id
                                /\ T.meta.receipts = NewestReceipts(meta.receipts \cup {c})
      BY <1>0, <2>1 DEF CommitEffect
    <3>2. meta.receipts \cup {c} \in SUBSET Receipts
      BY <1>1
    <3> QED
      BY <3>1, <3>2
  <2>2. CASE q.kind # "command"
    <3>1. T.meta.receipts = meta.receipts /\ q.id = NoCommand
      BY <1>0, <2>2 DEF CommitEffect
    <3> QED
      BY <1>1, <1>2, <3>1
  <2> QED
    BY <2>1, <2>2
<1> HIDE DEF new, next
<1>4. T.meta.receipts \subseteq all
  BY <1>3 DEF NewestReceipts
<1>5. /\ \A c \in all : c.rev \in Nat /\ c.rev <= next
      /\ \A c \in meta.receipts : c.rev # next
  <2>1. \A c \in all : c.rev \in Nat
    BY <1>3 DEF Receipts
  <2>2. \A c \in meta.receipts : c \in all /\ c.rev <= meta.revision
    BY <1>3 DEF Windowed
  <2>3. \A c \in all : c \in meta.receipts \/ c = receipt
    BY <1>3
  <2> QED
    BY <1>1, <1>2, <1>3, <2>1, <2>2, <2>3
<1>6. \A c, d \in all : c.rev = d.rev => c = d
  BY <1>2, <1>3, <1>5 DEF Windowed
<1>7. \A m \in board : m.rev \in Nat /\ m.rev <= meta.revision
  BY DEF Mutations, Agree
<1>8. MaxReceipts \in Nat /\ MaxReceipts > 0
  BY ReceiptAssumption
<1>9. ASSUME NEW c \in all, c \notin T.meta.receipts PROVE c.rev + MaxReceipts <= next
  <2> DEFINE newer == {d \in all : d.rev > c.rev}
  <2>1. ~(Cardinality(newer) < MaxReceipts)
    BY <1>3, <1>9 DEF NewestReceipts
  <2>2. \A d \in all : d.rev <= next
    BY <1>5
  <2>3. Cardinality(newer) \in Nat /\ Cardinality(newer) <= next - c.rev
    BY <1>2, <1>6, <2>2, NewerReceipts
  <2> HIDE DEF newer
  <2> QED
    BY <1>2, <1>5, <1>8, <2>1, <2>3
<1>10. ASSUME NEW m \in T.board, m.id # NoCommand
       PROVE  \/ \E c \in T.meta.receipts : c.id = m.id /\ c.rev = m.rev
              \/ m.rev + MaxReceipts <= T.meta.revision
  <2>1. CASE \E c \in all : c.id = m.id /\ c.rev = m.rev
    BY <1>1, <1>9, <2>1
  <2>2. CASE m \in board /\ m.rev + MaxReceipts <= meta.revision
    BY <1>1, <1>2, <1>7, <1>8, <2>2
  <2>3. CASE m = new
    BY <1>2, <1>3, <1>10, <2>1, <2>3
  <2>4. CASE m \in board
    <3>1. \/ \E c \in meta.receipts : c.id = m.id /\ c.rev = m.rev
          \/ m.rev + MaxReceipts <= meta.revision
      BY <1>10, <2>4 DEF Windowed
    <3> QED
      BY <1>3, <2>1, <2>2, <2>4, <3>1
  <2> QED
    BY <1>1, <2>3, <2>4
<1>11. ASSUME NEW m \in T.board, NEW n \in T.board, m.id = n.id, m.id # NoCommand, m.rev < n.rev
       PROVE  n.rev - m.rev > MaxReceipts
  <2>1. CASE m \in board /\ n \in board
    BY <1>11, <2>1 DEF Windowed
  <2>2. CASE m \in board /\ n = new
    <3>1. q.id = m.id /\ q.kind = "command"
      BY <1>0, <1>2, <1>11, <2>2 DEF CommitEffect
    <3>2. \A c \in meta.receipts : c.id # m.id
      BY <3>1 DEF MayCommit
    <3>3. m.rev + MaxReceipts <= meta.revision
      BY <1>11, <2>2, <3>2 DEF Windowed
    <3> QED
      BY <1>1, <1>2, <1>7, <1>8, <2>2, <3>3
  <2>3. m # new
    BY <1>1, <1>2, <1>7, <1>11
  <2> QED
    BY <1>1, <2>1, <2>2, <2>3
<1>12. \A c \in T.meta.receipts : c.rev <= T.meta.revision
  BY <1>1, <1>4, <1>5
<1> QED
  BY <1>4, <1>6, <1>10, <1>11, <1>12 DEF Windowed

(* What was seen before a commit is seen through it.                       *)
LEMMA CommitKeepsObservations ==
    ASSUME NEW board \in SUBSET Mutations, NEW meta \in Metas, NEW q \in Requests,
           NEW T, CommitsTo(board, meta, q, T), NEW p \in Replies, Kept(p, board, meta)
    PROVE  Kept(p, T.board, T.meta)
<1> DEFINE new == [rev |-> meta.revision + 1, id |-> q.id, content |-> q.content]
<1>0. CommitEffect(board, meta, q, T)
  BY CommitHasEffect
<1>1. /\ T.meta.revision = meta.revision + 1 /\ meta.revision \in Nat
      /\ T.board = board \/ T.board = board \cup {new}
  BY <1>0 DEF CommitEffect
<1>2. p.revision \in Nat /\ p.revision <= meta.revision /\ p.revision <= meta.revision + 1
  <2>1. p.revision \in Nat /\ p.revision <= meta.revision
    BY DEF Replies, Kept
  <2> QED
    BY <1>1, <2>1
<1>3. ~(new.rev <= p.revision)
  BY <1>1, <1>2
<1>4. {m \in T.board : m.rev <= p.revision} = {m \in board : m.rev <= p.revision}
  BY <1>1, <1>3
<1> QED
  BY <1>1, <1>2, <1>4 DEF Kept

(* A board is seen whole at its own revision.                              *)
LEMMA AnswerIsKept ==
    ASSUME NEW board \in SUBSET Mutations, NEW meta \in Metas, Agree(board, meta),
           NEW p, p.revision = meta.revision, p.board = board
    PROVE  Kept(p, board, meta)
<1>1. meta.revision \in Nat
  BY DEF Metas
<1> QED
  BY <1>1 DEF Agree, Kept

(* The newest receipt of all is in the window.                             *)
LEMMA NewestIsKept ==
    ASSUME NEW receipts \in SUBSET Receipts, NEW top \in Nat, NEW receipt \in Receipts,
           \A c \in receipts : c.rev <= top, receipt.rev = top + 1
    PROVE  receipt \in NewestReceipts(receipts \cup {receipt})
<1> DEFINE all == receipts \cup {receipt}
<1>1. \A c \in receipts : c.rev \in Nat
  BY DEF Receipts
<1>2. \A d \in all : ~(d.rev > receipt.rev)
  BY <1>1
<1>3. {d \in all : d.rev > receipt.rev} = {}
  BY <1>2
<1>4. Cardinality({d \in all : d.rev > receipt.rev}) < MaxReceipts
  BY <1>3, FS_EmptySet, ReceiptAssumption
<1> QED
  BY <1>4 DEF NewestReceipts

-----------------------------------------------------------------------------
(* The store a state stands for.                                           *)

StoreSessions == IF InstallPending THEN Committed.sessions ELSE SessionsIn(disk.sessions.cur)

SameStore ==
    /\ Committed'.board = Committed.board /\ Committed'.meta = Committed.meta
    /\ StoreSessions' = StoreSessions
    /\ SessionsAfterPowerLoss' = SessionsAfterPowerLoss

LEMMA CommittedIs ==
    ASSUME Inv
    PROVE  /\ InstallPending => Committed = Visible(disk.journal)
           /\ ~InstallPending => /\ Committed.board = Visible(disk.board)
                                 /\ Committed.meta = Visible(disk.meta)
           /\ Committed.board \in SUBSET Mutations /\ Committed.meta \in Metas
           /\ Agree(Committed.board, Committed.meta)
<1>1. /\ disk.board \in FilesOf(SUBSET Mutations) /\ disk.meta \in FilesOf(Metas)
      /\ disk.journal \in FilesOf(Transactions \cup {Absent})
  BY DEF Inv, Types, Disks
<1>2. CASE InstallPending
  <2>1. Committed = Visible(disk.journal)
    BY <1>2 DEF Committed
  <2>2. Visible(disk.journal) \in Transactions
    BY <1>1, <1>2 DEF InstallPending, JournalValid, Visible, FilesOf, Entries
  <2>3. Committed.board \in SUBSET Mutations /\ Committed.meta \in Metas
    BY <2>1, <2>2 DEF Transactions
  <2>4. Agree(Committed.board, Committed.meta)
    BY <1>2, <2>1 DEF Inv, DiskInv, JournalsAgree, InstallPending, JournalValid, Visible
  <2> QED
    BY <1>2, <2>1, <2>3, <2>4
<1>3. CASE ~InstallPending
  <2>1. Committed.board = Visible(disk.board) /\ Committed.meta = Visible(disk.meta)
    BY <1>3 DEF Committed
  <2>2. Visible(disk.board) \in SUBSET Mutations /\ Visible(disk.meta) \in Metas
    BY <1>1 DEF Visible, FilesOf, Entries
  <2>3. Agree(Visible(disk.board), Visible(disk.meta))
    BY <1>3 DEF Inv, DiskInv, CoveredOrSteady
  <2> QED
    BY <1>3, <2>1, <2>2, <2>3
<1> QED
  BY <1>2, <1>3

LEMMA SameDiskSameStore == ASSUME disk' = disk PROVE SameStore
BY DEF SameStore, StoreSessions, SessionsAfterPowerLoss, Committed, InstallPending, JournalValid,
       Visible, Readable, SessionsIn, AfterPowerLoss, Survivors, Synced

LEMMA Stutters ==
    ASSUME SameStore, UNCHANGED <<submitted, replies>> PROVE UNCHANGED Store!vars
BY DEF SameStore, StoreSessions, Store!vars

(* The steps of the store, told from what they change.                     *)
LEMMA StoreSaves ==
    ASSUME NEW q \in submitted, q.kind \in {"projection", "save"},
           Committed'.board = Committed.board, Committed'.meta = Committed.meta,
           StoreSessions' = q.sessions, q.sessions \in SessionsAfterPowerLoss',
           SessionsAfterPowerLoss' \subseteq SessionsAfterPowerLoss \cup {q.sessions, Torn},
           UNCHANGED <<submitted, replies>>
    PROVE  Store!Next
<1>1. Store!SaveSessions(q)
  BY DEF Store!SaveSessions, StoreSessions
<1> QED
  BY <1>1 DEF Store!Next

LEMMA StoreLosesPower ==
    ASSUME NEW s \in SessionsAfterPowerLoss,
           Committed'.board = Committed.board, Committed'.meta = Committed.meta,
           StoreSessions' = s, SessionsAfterPowerLoss' = {s}, UNCHANGED <<submitted, replies>>
    PROVE  Store!Next
<1>1. Store!LosePower
  BY DEF Store!LosePower, StoreSessions
<1> QED
  BY <1>1 DEF Store!Next

LEMMA StoreAsked ==
    ASSUME SameStore, submitted \subseteq submitted', replies' = replies PROVE Store!Next
<1>1. Store!Request
  BY DEF Store!Request, SameStore, StoreSessions
<1> QED
  BY <1>1 DEF Store!Next

LEMMA StoreReplies ==
    ASSUME SameStore, NEW p, TrueOf(p, Committed.board, Committed.meta),
           replies' = replies \cup {p}, submitted' = submitted
    PROVE  Store!Next
<1>1. Store!Truthful(p)
  BY DEF Store!Truthful, Store!ReceiptsFor, TrueOf
<1>2. Store!Reply
  BY <1>1 DEF Store!Reply, SameStore, StoreSessions
<1> QED
  BY <1>2 DEF Store!Next

LEMMA StoreCommits ==
    ASSUME NEW T, Offers(submitted, Committed.board, Committed.meta, T),
           Committed'.board = T.board, Committed'.meta = T.meta,
           StoreSessions' = T.sessions, SessionsAfterPowerLoss' = {T.sessions},
           UNCHANGED <<submitted, replies>>
    PROVE  Store!Next
<1>1. PICK q \in submitted : /\ MayCommit(Committed.meta, q)
                             /\ CommitsTo(Committed.board, Committed.meta, q, T)
  BY DEF Offers
<1>2. PICK changed \in BOOLEAN : T = CommitOf(Committed.board, Committed.meta, q, changed)
  BY <1>1 DEF CommitsTo
<1> DEFINE next == Committed.meta.revision + 1
           new == [rev |-> next, id |-> q.id, content |-> q.content]
           receipt == [rev |-> next, id |-> q.id, content |-> q.content, accepted |-> changed]
<1>3. /\ T.sessions = q.sessions /\ T.meta.revision = next
      /\ T.board = IF changed THEN Committed.board \cup {new} ELSE Committed.board
      /\ T.meta.receipts = IF q.kind = "command"
                           THEN NewestReceipts(Committed.meta.receipts \cup {receipt})
                           ELSE Committed.meta.receipts
  BY <1>2 DEF CommitOf
<1>4. Store!MayCommit(q)
  BY <1>1 DEF Store!MayCommit, Store!ReceiptsFor, MayCommit
<1>5. Store!Commit(q, changed)
  <2>1. \A set : Store!Newest(set) = NewestReceipts(set)
    BY DEF Store!Newest, NewestReceipts, Store!Cardinality, Cardinality
  <2> HIDE DEF new, receipt
  <2>2. Committed'.meta.receipts = IF q.kind = "command"
                                   THEN Store!Newest(Committed.meta.receipts \cup {receipt})
                                   ELSE Committed.meta.receipts
    BY <1>3, <2>1
  <2>3. Committed'.board = IF changed THEN Committed.board \cup {new} ELSE Committed.board
    BY <1>3
  <2>4. /\ Committed'.meta.revision = next
        /\ StoreSessions' = q.sessions /\ SessionsAfterPowerLoss' = {q.sessions}
    BY <1>3
  <2> HIDE DEF next
  <2>5. /\ new = [rev |-> Committed'.meta.revision, id |-> q.id, content |-> q.content]
        /\ receipt = [rev |-> Committed'.meta.revision, id |-> q.id, content |-> q.content,
                      accepted |-> changed]
    BY <2>4 DEF new, receipt
  <2> QED
    BY <1>4, <2>2, <2>3, <2>4, <2>5 DEF Store!Commit, StoreSessions, next
<1> QED
  BY <1>1, <1>5 DEF Store!Next

-----------------------------------------------------------------------------
(* What a step that leaves the store alone leaves of its history.          *)

LEMMA SameStoreKeeps ==
    ASSUME History, SameStore, replies' = replies
    PROVE  /\ Windowed(Committed.board, Committed.meta)'
           /\ (\A p \in replies : Kept(p, Committed.board, Committed.meta))'
BY DEF History, SameStore

LEMMA OffersMore ==
    ASSUME NEW requests, NEW more, requests \subseteq more, NEW board, NEW meta, NEW T,
           Offers(requests, board, meta, T)
    PROVE  Offers(more, board, meta, T)
BY DEF Offers

LEMMA SameJournalKeeps ==
    ASSUME History, SameStore, disk'.journal = disk.journal, submitted \subseteq submitted'
    PROVE  JournalHistory'
<1>1. JournalHistory
  BY DEF History
<1>2. /\ Visible(disk.journal)' = Visible(disk.journal) /\ JournalValid' = JournalValid
      /\ InstallPending' = InstallPending
  BY DEF Visible, JournalValid, InstallPending, Readable
<1>3. Committed'.board = Committed.board /\ Committed'.meta = Committed.meta
  BY DEF SameStore
<1>4. JournalValid' /\ ~InstallPending' =>
          Offers(submitted', Committed'.board, Committed'.meta, Visible(disk.journal)')
  BY <1>1, <1>2, <1>3, OffersMore DEF JournalHistory
<1> QED
  BY <1>1, <1>2, <1>3, <1>4 DEF JournalHistory

(* Only the lock holder has a history of its own to keep.                  *)
LEMMA NotHolding ==
    ASSUME NEW r \in Slots, pc[r] \notin LockedStages, pc[r] # "idle" => request[r] \in submitted
    PROVE  SlotHistory(r) /\ SlotSessions(r)
BY DEF SlotHistory, SlotSessions, BeforeCommit, LockedStages, InstallingFiles, AfterBoard

LEMMA HolderHistory ==
    ASSUME Inv, History, NEW r \in Slots, NEW stage,
           pc[r] \in LockedStages, pc' = [pc EXCEPT ![r] = stage],
           UNCHANGED <<request, submitted>>,
           JournalHistory', SlotHistory(r)', SlotSessions(r)',
           Windowed(Committed.board, Committed.meta)',
           (\A p \in replies : Kept(p, Committed.board, Committed.meta))'
    PROVE  History'
<1>1. ASSUME NEW q \in Slots, q # r PROVE SlotHistory(q)' /\ SlotSessions(q)'
  <2>1. pc[q] \notin LockedStages
    BY <1>1, OnlyTheHolder DEF Inv
  <2>2. pc'[q] = pc[q]
    BY <1>1 DEF Inv, Types
  <2>3. pc'[q] # "idle" => request'[q] \in submitted'
    BY <2>2 DEF History, SlotHistory
  <2> QED
    BY <2>1, <2>2, <2>3
       DEF SlotHistory, SlotSessions, BeforeCommit, LockedStages, InstallingFiles, AfterBoard
<1> QED
  BY <1>1 DEF History

(* A holder's step that touches neither the store nor the journal.         *)
LEMMA HolderStutters ==
    ASSUME Inv, History, NEW r \in Slots, NEW stage,
           pc[r] \in LockedStages, pc' = [pc EXCEPT ![r] = stage],
           UNCHANGED <<request, submitted, replies>>,
           SameStore, disk'.journal = disk.journal, SlotHistory(r)', SlotSessions(r)'
    PROVE  History' /\ UNCHANGED Store!vars
<1>1. JournalHistory'
  BY SameJournalKeeps
<1>2. History'
  BY <1>1, SameStoreKeeps, HolderHistory
<1> QED
  BY <1>2, Stutters

-----------------------------------------------------------------------------
(* The decision stages                                                     *)

Refines == History' /\ [Store!Next]_Store!vars

LEMMA AcquireLockRefines == ASSUME Inv, History, NEW r \in Slots, AcquireLock(r) PROVE Refines
<1>1. pc[r] = "waiting" /\ pc' = [pc EXCEPT ![r] = "recover"]
      /\ queue # <<>> /\ Head(queue) = r
      /\ UNCHANGED <<disk, queue, request, transaction, installing, outcome, submitted, replies, bounds>>
  BY DEF AcquireLock, Goes
<1>2. SameStore
  BY <1>1, SameDiskSameStore
<1>3. ASSUME NEW q \in Slots PROVE SlotHistory(q)' /\ SlotSessions(q)'
  <2>1. pc'[q] = "recover" \/ pc'[q] \notin LockedStages
    BY <1>1 DEF Inv, Types, LockOrder, LockedStages
  <2>2. (pc[q] # "idle" /\ request'[q] = request[q]) \/ pc'[q] = "idle"
    BY <1>1 DEF Inv, Types
  <2>3. pc'[q] # "idle" => request'[q] \in submitted'
    BY <1>1, <2>2 DEF History, SlotHistory
  <2> QED
    BY <2>1, <2>3
       DEF SlotHistory, SlotSessions, BeforeCommit, LockedStages, InstallingFiles, AfterBoard
<1>4. JournalHistory'
  BY <1>1, <1>2, SameJournalKeeps
<1>5. History'
  BY <1>1, <1>2, <1>3, <1>4, SameStoreKeeps DEF History
<1> QED
  BY <1>1, <1>2, <1>5, Stutters DEF Refines

LEMMA NothingToRecoverRefines ==
    ASSUME Inv, History, NEW r \in Slots, NothingToRecover(r) PROVE Refines
<1>1. pc[r] = "recover" /\ pc' = [pc EXCEPT ![r] = "decide"]
      /\ UNCHANGED <<disk, queue, request, transaction, installing, outcome, submitted, replies, bounds>>
  BY DEF NothingToRecover, Goes
<1>2. pc'[r] = "decide" /\ request'[r] \in submitted'
  BY <1>1 DEF Inv, Types, History, SlotHistory
<1>3. SlotHistory(r)' /\ SlotSessions(r)'
  BY <1>2 DEF SlotHistory, SlotSessions, BeforeCommit, InstallingFiles, AfterBoard
<1> QED
  BY <1>1, <1>3, SameDiskSameStore, HolderStutters DEF LockedStages, Refines

LEMMA RecoverJournalRefines ==
    ASSUME Inv, History, NEW r \in Slots, RecoverJournal(r) PROVE Refines
<1>1. pc[r] = "recover" /\ pc' = [pc EXCEPT ![r] = "syncJournal"]
      /\ installing' = [installing EXCEPT ![r] = "recovered"]
      /\ UNCHANGED <<disk, queue, request, outcome, submitted, replies, bounds>>
  BY DEF RecoverJournal, Goes
<1>2. pc'[r] = "syncJournal" /\ installing'[r] = "recovered" /\ request'[r] \in submitted'
  BY <1>1 DEF Inv, Types, History, SlotHistory
<1>3. SlotHistory(r)' /\ SlotSessions(r)'
  BY <1>2 DEF SlotHistory, SlotSessions, BeforeCommit, InstallingFiles, AfterBoard
<1> QED
  BY <1>1, <1>3, SameDiskSameStore, HolderStutters DEF LockedStages, Refines

(* A decided answer is true of the store.                                  *)
LEMMA DecidedIsTrue ==
    ASSUME Inv, NEW r \in Slots, NEW answer \in Answers, pc[r] = "decide", Decides(r, answer),
           \/ answer = "applied" /\ \E c \in ReceiptsFor(request[r].id) :
                  c.content = request[r].content /\ c.accepted = TRUE
           \/ answer = "unchanged" /\ \E c \in ReceiptsFor(request[r].id) :
                  c.content = request[r].content /\ c.accepted = FALSE
           \/ answer = "conflict" /\ request[r].expected # Revision
                                  /\ ReceiptsFor(request[r].id) = {}
           \/ answer = "identityConflict" /\ \E c \in ReceiptsFor(request[r].id) :
                  c.content # request[r].content
           \/ answer = "observed"
    PROVE  /\ pc'[r] = "release" /\ UNCHANGED <<request, submitted, replies>>
           /\ pc' = [pc EXCEPT ![r] = "release"]
           /\ TrueOf(ReplyOf(r)', Committed.board, Committed.meta)
<1>1. /\ pc' = [pc EXCEPT ![r] = "release"]
      /\ outcome' = [outcome EXCEPT ![r] = Answer(answer, Revision, Visible(disk.board))]
      /\ UNCHANGED <<queue, request, transaction, installing, submitted, replies, bounds>>
  BY DEF Decides
<1>2. pc'[r] = "release" /\ outcome'[r] = Answer(answer, Revision, Visible(disk.board))
  BY <1>1 DEF Inv, Types
<1>3. Committed.board = Visible(disk.board) /\ Committed.meta = Visible(disk.meta)
  <2>1. Visible(disk.journal) = Absent
    BY DEF Inv, StageDisk
  <2> QED
    BY <2>1, CommittedIs DEF InstallPending, JournalValid
<1>4. /\ ReplyOf(r)'.id = request[r].id /\ ReplyOf(r)'.content = request[r].content
      /\ ReplyOf(r)'.expected = request[r].expected /\ ReplyOf(r)'.answer = answer
      /\ ReplyOf(r)'.revision = Revision /\ ReplyOf(r)'.board = Visible(disk.board)
  BY <1>1, <1>2 DEF ReplyOf, Answer
<1>5. TrueOf(ReplyOf(r)', Committed.board, Committed.meta)
  BY <1>3, <1>4 DEF TrueOf, Revision, ReceiptsFor
<1> QED
  BY <1>1, <1>2, <1>5

LEMMA DecidedHistory ==
    ASSUME Inv, History, NEW r \in Slots, pc[r] = "decide",
           pc'[r] = "release", UNCHANGED <<request, submitted, replies>>,
           TrueOf(ReplyOf(r)', Committed.board, Committed.meta),
           Committed'.board = Committed.board, Committed'.meta = Committed.meta
    PROVE  SlotHistory(r)' /\ SlotSessions(r)'
<1>1. request'[r] \in submitted'
  BY DEF History, SlotHistory
<1> QED
  BY <1>1 DEF SlotHistory, SlotSessions, BeforeCommit, InstallingFiles, AfterBoard

LEMMA AnsweredRefines ==
    ASSUME Inv, History, NEW r \in Slots,
           ReplayReceipt(r) \/ RejectIdentity(r) \/ RejectRevision(r) \/ ReadState(r)
    PROVE  Refines
<1>1. pc[r] = "decide" /\ disk' = disk
  BY DEF ReplayReceipt, RejectIdentity, RejectRevision, ReadState, Deciding
<1>2. /\ pc'[r] = "release" /\ UNCHANGED <<request, submitted, replies>>
      /\ pc' = [pc EXCEPT ![r] = "release"]
      /\ TrueOf(ReplyOf(r)', Committed.board, Committed.meta)
  <2>1. CASE ReplayReceipt(r)
    <3>1. PICK c \in ReceiptsFor(request[r].id) :
            /\ c.content = request[r].content
            /\ Decides(r, IF c.accepted THEN "applied" ELSE "unchanged")
      BY <2>1 DEF ReplayReceipt
    <3>2. c.accepted \in BOOLEAN
      BY DEF ReceiptsFor, Inv, Types, Disks, FilesOf, Entries, Metas, Receipts, Visible
    <3>3. CASE c.accepted = TRUE
      BY <1>1, <3>1, <3>3, DecidedIsTrue DEF Answers
    <3>4. CASE c.accepted = FALSE
      BY <1>1, <3>1, <3>4, DecidedIsTrue DEF Answers
    <3> QED
      BY <3>2, <3>3, <3>4
  <2>2. CASE RejectIdentity(r)
    BY <1>1, <2>2, DecidedIsTrue DEF RejectIdentity, Answers
  <2>3. CASE RejectRevision(r)
    BY <1>1, <2>3, DecidedIsTrue DEF RejectRevision, Answers
  <2>4. CASE ReadState(r)
    BY <1>1, <2>4, DecidedIsTrue DEF ReadState, Answers
  <2> QED
    BY <2>1, <2>2, <2>3, <2>4
<1>3. SameStore
  BY <1>1, SameDiskSameStore
<1>4. SlotHistory(r)' /\ SlotSessions(r)'
  BY <1>1, <1>2, <1>3, DecidedHistory DEF SameStore
<1> QED
  BY <1>1, <1>2, <1>3, <1>4, HolderStutters DEF LockedStages, Refines

(* The session maps that a power loss may leave of a file.                 *)
Losable(file) == {SessionsIn(f.cur) : f \in AfterPowerLoss(file)}

LEMMA LosableIs ==
    ASSUME NEW V, NEW file \in FilesOf(V)
    PROVE  /\ \A s \in Losable(file) : \E e \in file.old \cup {file.cur} :
                  s = SessionsIn(e) \/ (~e.flushed /\ s = Torn)
           /\ \A e \in file.old \cup {file.cur} :
                  SessionsIn(e) \in Losable(file) /\ (~e.flushed => Torn \in Losable(file))
<1>1. ASSUME NEW e \in file.old \cup {file.cur}
      PROVE  e \in Entries(V)
  BY DEF FilesOf
<1>2. ASSUME NEW s \in Losable(file)
      PROVE  \E e \in file.old \cup {file.cur} : s = SessionsIn(e) \/ (~e.flushed /\ s = Torn)
  <2>0. PICK e \in file.old \cup {file.cur} : \E x \in Survivors(e) : s = SessionsIn(x)
    BY <1>2 DEF Losable, AfterPowerLoss
  <2>1. PICK x \in Survivors(e) : s = SessionsIn(x)
    BY <2>0
  <2>2. e \in Entries(V)
    BY <1>1
  <2>3. CASE x = Synced(e)
    BY <2>1, <2>2, <2>3 DEF SessionsIn, Synced, Entries
  <2>4. CASE ~e.flushed /\ x = [Synced(e) EXCEPT !.intact = FALSE]
    BY <2>1, <2>2, <2>4 DEF SessionsIn, Synced, Entries
  <2> QED
    BY <2>1, <2>3, <2>4 DEF Survivors
<1>3. ASSUME NEW e \in file.old \cup {file.cur}
      PROVE  SessionsIn(e) \in Losable(file) /\ (~e.flushed => Torn \in Losable(file))
  <2>1. e \in Entries(V)
    BY <1>1
  <2>2. ASSUME NEW x \in Survivors(e) PROVE SessionsIn(x) \in Losable(file)
    <3>1. [cur |-> x, old |-> {}] \in AfterPowerLoss(file)
      BY DEF AfterPowerLoss
    <3> QED
      BY <3>1 DEF Losable
  <2>3. Synced(e) \in Survivors(e) /\ SessionsIn(Synced(e)) = SessionsIn(e)
    BY <2>1 DEF Survivors, SessionsIn, Synced, Entries
  <2>4. ~e.flushed => /\ [Synced(e) EXCEPT !.intact = FALSE] \in Survivors(e)
                      /\ SessionsIn([Synced(e) EXCEPT !.intact = FALSE]) = Torn
    BY <2>1 DEF Survivors, SessionsIn, Synced, Entries
  <2> QED
    BY <2>2, <2>3, <2>4
<1> QED
  BY <1>2, <1>3

LEMMA ReplacedLosable ==
    ASSUME NEW V, NEW file \in FilesOf(V), NEW v \in V
    PROVE  /\ SessionsIn(Replaced(file, v).cur) = v
           /\ v \in Losable(Replaced(file, v))
           /\ Losable(Replaced(file, v)) \subseteq Losable(file) \cup {v, Torn}
<1> DEFINE new == Replaced(file, v)
<1>1. new \in FilesOf(V)
  BY FileTypes
<1>2. SessionsIn(new.cur) = v
  BY FileOperations DEF SessionsIn
<1>3. \A e \in new.old \cup {new.cur} : e \in file.old \cup {file.cur} \/ e = new.cur
  BY DEF Replaced
<1> HIDE DEF new
<1>4. v \in Losable(new)
  BY <1>1, <1>2, LosableIs
<1>5. ASSUME NEW s \in Losable(new) PROVE s \in Losable(file) \cup {v, Torn}
  <2>1. PICK e \in new.old \cup {new.cur} : s = SessionsIn(e) \/ s = Torn
    BY <1>1, LosableIs
  <2> QED
    BY <1>2, <1>3, <2>1, LosableIs
<1> QED
  BY <1>2, <1>4, <1>5 DEF new

LEMMA WriteSessionsOnlyRefines ==
    ASSUME Inv, History, NEW r \in Slots, WriteSessionsOnly(r) PROVE Refines
<1> DEFINE q == request[r]
<1>1. /\ pc[r] = "decide" /\ Decides(r, "observed")
      /\ q.kind \in {"projection", "save"}
      /\ disk' = [disk EXCEPT !.sessions = Replaced(@, q.sessions)]
  BY DEF WriteSessionsOnly, Deciding
<1>2. q \in submitted /\ q.sessions \in Snapshots /\ disk.sessions \in FilesOf(Snapshots)
  BY <1>1 DEF History, SlotHistory, Inv, Types, Requests, Disks
<1>3. /\ disk'.sessions = Replaced(disk.sessions, q.sessions)
      /\ disk'.board = disk.board /\ disk'.meta = disk.meta /\ disk'.journal = disk.journal
  BY <1>1 DEF Inv, Types, Disks
<1>4. ~InstallPending /\ ~InstallPending' /\ Visible(disk.journal) = Absent
  BY <1>1, <1>3 DEF Inv, StageDisk, InstallPending, JournalValid, Visible
<1>5. Committed'.board = Committed.board /\ Committed'.meta = Committed.meta
  BY <1>3, <1>4 DEF Committed, Visible
<1>6. /\ pc'[r] = "release" /\ UNCHANGED <<request, submitted, replies>>
      /\ pc' = [pc EXCEPT ![r] = "release"]
      /\ TrueOf(ReplyOf(r)', Committed.board, Committed.meta)
  BY <1>1, DecidedIsTrue DEF Answers
<1>7. SlotHistory(r)' /\ SlotSessions(r)'
  BY <1>1, <1>5, <1>6, DecidedHistory
<1>8. JournalHistory'
  <2>1. JournalHistory
    BY DEF History
  <2> QED
    BY <1>3, <1>4, <1>5, <2>1 DEF JournalHistory, JournalValid, Visible
<1>9. History'
  <2>1. /\ Windowed(Committed.board, Committed.meta)'
        /\ (\A p \in replies : Kept(p, Committed.board, Committed.meta))'
    BY <1>5, <1>6 DEF History
  <2> QED
    BY <1>1, <1>6, <1>7, <1>8, <2>1, HolderHistory DEF LockedStages
<1>10. /\ StoreSessions' = q.sessions
       /\ q.sessions \in SessionsAfterPowerLoss'
       /\ SessionsAfterPowerLoss' \subseteq SessionsAfterPowerLoss \cup {q.sessions, Torn}
  <2>1. StoreSessions' = SessionsIn(disk'.sessions.cur)
    BY <1>4 DEF StoreSessions, SessionsIn
  <2>2. /\ SessionsAfterPowerLoss = Losable(disk.sessions)
              \cup {e.val.sessions : e \in {x \in disk.journal.old : x.val # Absent /\ x.intact}}
        /\ SessionsAfterPowerLoss' = Losable(disk'.sessions)
              \cup {e.val.sessions : e \in {x \in disk'.journal.old : x.val # Absent /\ x.intact}}
    BY <1>4 DEF SessionsAfterPowerLoss, Losable, SessionsIn, AfterPowerLoss, Survivors, Synced
  <2> QED
    BY <1>2, <1>3, <2>1, <2>2, ReplacedLosable
<1>11. Store!Next
  BY <1>1, <1>2, <1>5, <1>6, <1>10, StoreSaves
<1> QED
  BY <1>9, <1>11 DEF Refines

(* The answer to a commit is true of the state it commits.                 *)
LEMMA CommitIsTold ==
    ASSUME NEW board \in SUBSET Mutations, NEW meta \in Metas, NEW q \in Requests,
           NEW changed \in BOOLEAN, Windowed(board, meta),
           q.kind = "command" \/ changed = TRUE,
           NEW T, T = CommitOf(board, meta, q, changed),
           NEW p, p.id = q.id, p.content = q.content,
           p.answer = IF changed THEN "applied" ELSE "unchanged",
           p.revision = T.meta.revision, p.board = T.board
    PROVE  TrueOf(p, T.board, T.meta)
<1>1. CASE q.kind = "command"
  <2> DEFINE receipt == [rev |-> meta.revision + 1, id |-> q.id, content |-> q.content,
                         accepted |-> changed]
  <2>1. meta.revision \in Nat /\ meta.receipts \in SUBSET Receipts
    BY DEF Metas
  <2>2. T.meta.receipts = NewestReceipts(meta.receipts \cup {receipt})
    BY <1>1 DEF CommitOf
  <2>3. receipt \in Receipts
    <3>1. meta.revision + 1 \in Nat
      BY <2>1
    <3>2. q.id \in CommandIds /\ q.content \in Contents
      BY <1>1 DEF Requests, InternalKinds
    <3> QED
      BY <3>1, <3>2 DEF Receipts
  <2>4. /\ receipt.rev = meta.revision + 1 /\ receipt.id = q.id /\ receipt.content = q.content
        /\ (receipt.accepted = TRUE) <=> changed
        /\ (receipt.accepted = FALSE) <=> ~changed
    OBVIOUS
  <2> HIDE DEF receipt
  <2>5. \A c \in meta.receipts : c.rev <= meta.revision
    BY DEF Windowed
  <2>6. receipt \in T.meta.receipts
    BY <2>1, <2>2, <2>3, <2>4, <2>5, NewestIsKept
  <2>7. changed => receipt.accepted = TRUE
    BY <2>4
  <2>8. ~changed => receipt.accepted = FALSE
    BY <2>4
  <2>9. p.answer = "applied" => changed
    OBVIOUS
  <2>10. p.answer = "unchanged" => ~changed
    OBVIOUS
  <2>11. p.answer \in {"applied", "unchanged"}
    OBVIOUS
  <2> QED
    BY <2>4, <2>6, <2>7, <2>8, <2>9, <2>10, <2>11 DEF TrueOf
<1>2. CASE q.kind # "command"
  <2>1. q.id = NoCommand /\ p.answer = "applied"
    BY <1>2 DEF Requests, InternalKinds
  <2> QED
    BY <2>1 DEF TrueOf
<1> QED
  BY <1>1, <1>2

LEMMA CommitsRefines ==
    ASSUME Inv, History, NEW r \in Slots, NEW changed \in BOOLEAN,
           pc[r] = "decide", Commits(r, changed), MayCommit(Visible(disk.meta), request[r]),
           request[r].kind = "command" \/ changed = TRUE
    PROVE  Refines
<1> DEFINE q == request[r]
           next == NextState(q, changed)
<1>1. pc' = [pc EXCEPT ![r] = "writeJournal"]
      /\ transaction' = [transaction EXCEPT ![r] = next]
      /\ outcome' = [outcome EXCEPT ![r] =
             Answer(IF changed THEN "applied" ELSE "unchanged", next.meta.revision, next.board)]
      /\ UNCHANGED <<disk, queue, request, submitted, replies, bounds>>
  BY DEF Commits
<1>2. Committed.board = Visible(disk.board) /\ Committed.meta = Visible(disk.meta)
  <2>1. Visible(disk.journal) = Absent
    BY DEF Inv, StageDisk
  <2> QED
    BY <2>1, CommittedIs DEF InstallPending, JournalValid
<1>3. next = CommitOf(Committed.board, Committed.meta, q, changed)
  BY <1>2 DEF NextState, CommitOf, Revision
<1> HIDE DEF next
<1>4. /\ pc'[r] = "writeJournal" /\ transaction'[r] = next
      /\ outcome'[r] = Answer(IF changed THEN "applied" ELSE "unchanged", next.meta.revision, next.board)
  BY <1>1 DEF Inv, Types
<1>5. q \in submitted /\ q \in Requests
  BY DEF History, SlotHistory, Inv, Types
<1>6. Offers(submitted, Committed.board, Committed.meta, next)
  BY <1>2, <1>3, <1>5 DEF Offers, CommitsTo
<1>7. TrueOf(ReplyOf(r)', next.board, next.meta)
  <2>1. /\ ReplyOf(r)'.id = q.id /\ ReplyOf(r)'.content = q.content
        /\ ReplyOf(r)'.answer = IF changed THEN "applied" ELSE "unchanged"
        /\ ReplyOf(r)'.revision = next.meta.revision /\ ReplyOf(r)'.board = next.board
    BY <1>1, <1>4 DEF ReplyOf, Answer
  <2>2. Committed.board \in SUBSET Mutations /\ Committed.meta \in Metas
    BY CommittedIs
  <2>3. Windowed(Committed.board, Committed.meta)
    BY DEF History
  <2> QED
    BY <1>3, <1>5, <2>1, <2>2, <2>3, CommitIsTold
<1>8. SameStore
  BY <1>1, SameDiskSameStore
<1>9. SlotHistory(r)' /\ SlotSessions(r)'
  BY <1>1, <1>4, <1>5, <1>6, <1>7, <1>8
     DEF SlotHistory, SlotSessions, InstallingFiles, AfterBoard, SameStore
<1> QED
  BY <1>1, <1>8, <1>9, HolderStutters DEF LockedStages, Refines

LEMMA CommitAnyRefines ==
    ASSUME Inv, History, NEW r \in Slots, CommitCommand(r) \/ CommitProjection(r) PROVE Refines
<1>1. CASE CommitCommand(r)
  <2>1. PICK changed \in BOOLEAN : Commits(r, changed)
    BY <1>1 DEF CommitCommand
  <2>2. MayCommit(Visible(disk.meta), request[r]) /\ request[r].kind = "command"
        /\ pc[r] = "decide"
    BY <1>1 DEF CommitCommand, Deciding, MayCommit, ReceiptsFor, Revision
  <2> QED
    BY <2>1, <2>2, CommitsRefines
<1>2. CASE CommitProjection(r)
  <2>1. PICK changed \in BOOLEAN : Commits(r, changed) /\ changed = TRUE
    BY <1>2 DEF CommitProjection
  <2>2. MayCommit(Visible(disk.meta), request[r]) /\ pc[r] = "decide"
    BY <1>2 DEF CommitProjection, Deciding, MayCommit
  <2> QED
    BY <2>1, <2>2, CommitsRefines
<1> QED
  BY <1>1, <1>2

-----------------------------------------------------------------------------
(* The installation stages                                                 *)

AfterCommit == InstallingFiles \cup {"syncUnlink"}

(* A step within the stages before the commit point, or within those after *)
(* it, keeps the answer that the slot is about to give.                    *)
LEMMA InstallStepRefines ==
    ASSUME Inv, History, NEW r \in Slots, NEW here, NEW there, NEW newDisk,
           InstallStep(r, here, there, newDisk), there # "writeJournal",
           \/ here \in BeforeCommit /\ there \in BeforeCommit
           \/ here \in AfterCommit /\ there \in AfterCommit,
           SameStore, JournalHistory', SlotSessions(r)'
    PROVE  Refines
<1>1. pc[r] = here /\ pc' = [pc EXCEPT ![r] = there]
      /\ UNCHANGED <<queue, request, transaction, installing, outcome, submitted, replies, bounds>>
  BY DEF InstallStep, Goes
<1>2. pc'[r] = there /\ pc[r] \in LockedStages
  BY <1>1 DEF Inv, Types, BeforeCommit, AfterCommit, InstallingFiles, AfterBoard, LockedStages
<1>3. ReplyOf(r)' = ReplyOf(r)
  BY <1>1 DEF ReplyOf
<1>4. SlotHistory(r) /\ pc[r] # "idle"
  BY <1>2 DEF History, LockedStages
<1>5. SlotHistory(r)'
  <2>1. CASE here \in BeforeCommit /\ there \in BeforeCommit
    BY <1>1, <1>2, <1>3, <1>4, <2>1
       DEF SlotHistory, BeforeCommit, InstallingFiles, AfterBoard
  <2>2. CASE here \in AfterCommit /\ there \in AfterCommit
    BY <1>1, <1>2, <1>3, <1>4, <2>2
       DEF SlotHistory, SameStore, BeforeCommit, AfterCommit, InstallingFiles, AfterBoard
  <2> QED
    BY <2>1, <2>2
<1>6. History'
  BY <1>1, <1>2, <1>5, SameStoreKeeps, HolderHistory
<1> QED
  BY <1>1, <1>6, Stutters DEF Refines

LEMMA WriteJournalRefines == ASSUME Inv, History, NEW r \in Slots, WriteJournal(r) PROVE Refines
<1> DEFINE tx == transaction[r]
           journal == Replaced(disk.journal, tx)
           newDisk == [disk EXCEPT !.journal = journal]
<1>1. InstallStep(r, "writeJournal", "syncJournal", newDisk) /\ pc[r] = "writeJournal"
      /\ disk' = newDisk /\ pc' = [pc EXCEPT ![r] = "syncJournal"]
      /\ UNCHANGED <<submitted, replies>>
  BY DEF WriteJournal, InstallStep, Goes
<1>2. Visible(disk.journal) = Absent /\ tx \in Transactions /\ tx # Absent
  BY <1>1, AbsentAssumption DEF Inv, StageDisk, StageData, InstallStages
<1>3. /\ disk'.sessions = disk.sessions /\ disk'.board = disk.board /\ disk'.meta = disk.meta
      /\ disk'.journal = [cur |-> Entry(tx), old |-> disk.journal.old \cup {disk.journal.cur}]
  BY <1>1, <1>2 DEF Inv, Types, Disks, Replaced, Visible
<1>4. /\ disk'.journal.cur = Entry(tx) /\ disk'.journal.old = disk.journal.old \cup {disk.journal.cur}
      /\ ~Entry(tx).flushed /\ Entry(tx).val = tx /\ disk.journal.cur.val = Absent
  BY <1>2, <1>3 DEF Entry, Visible
<1>5. ~InstallPending /\ ~InstallPending'
  BY <1>2, <1>4 DEF InstallPending, JournalValid
<1>6. /\ Committed'.board = Committed.board /\ Committed'.meta = Committed.meta
  BY <1>3, <1>5 DEF Committed, Visible
<1>7. SameStore
  <2>1. StoreSessions' = StoreSessions
    BY <1>3, <1>5 DEF StoreSessions, SessionsIn
  <2>2. {x \in disk'.journal.old : x.val # Absent /\ x.intact} =
           {x \in disk.journal.old : x.val # Absent /\ x.intact}
    BY <1>4
  <2>3. SessionsAfterPowerLoss' = SessionsAfterPowerLoss
    BY <1>3, <1>5, <2>2 DEF SessionsAfterPowerLoss, SessionsIn, AfterPowerLoss, Survivors, Synced
  <2> QED
    BY <1>6, <2>1, <2>3 DEF SameStore
<1>8. JournalHistory'
  <2>1. JournalHistory /\ Offers(submitted, Committed.board, Committed.meta, tx)
    BY <1>1 DEF History, SlotHistory
  <2>2. Visible(disk.journal)' = tx
    BY <1>4 DEF Visible
  <2> QED
    BY <1>1, <1>4, <1>6, <2>1, <2>2 DEF JournalHistory
<1>9. SlotSessions(r)'
  <2>1. pc'[r] = "syncJournal"
    BY <1>1 DEF Inv, Types
  <2> QED
    BY <2>1 DEF SlotSessions
<1> QED
  <2>1. "syncJournal" \in BeforeCommit /\ "writeJournal" \in BeforeCommit
    BY DEF BeforeCommit
  <2> HIDE DEF newDisk
  <2> QED
    BY <1>1, <1>7, <1>8, <1>9, <2>1, InstallStepRefines

LEMMA SyncJournalRefines == ASSUME Inv, History, NEW r \in Slots, SyncJournal(r) PROVE Refines
<1> DEFINE newDisk == [disk EXCEPT !.journal = FileSynced(@)]
<1>1. InstallStep(r, "syncJournal", "syncJournalDir", newDisk) /\ pc[r] = "syncJournal"
      /\ disk' = newDisk /\ pc' = [pc EXCEPT ![r] = "syncJournalDir"]
      /\ UNCHANGED <<submitted, replies>>
  BY DEF SyncJournal, InstallStep, Goes
<1>2. JournalValid
  BY <1>1 DEF Inv, StageDisk
<1>3. disk.journal \in FilesOf(Transactions \cup {Absent})
  BY DEF Inv, Types, Disks
<1>4. /\ disk'.sessions = disk.sessions /\ disk'.board = disk.board /\ disk'.meta = disk.meta
      /\ disk'.journal = FileSynced(disk.journal)
  BY <1>1 DEF Inv, Types, Disks
<1>5. /\ disk'.journal.cur.flushed /\ disk'.journal.cur.val = disk.journal.cur.val
      /\ disk'.journal.cur.intact = disk.journal.cur.intact
      /\ disk'.journal.old = disk.journal.old
  BY <1>3, <1>4, FileOperations
<1>6. JournalHistory
  BY DEF History
<1>7. InstallPending' = InstallPending /\ Visible(disk.journal)' = Visible(disk.journal)
      /\ JournalValid' = JournalValid
  BY <1>2, <1>5, <1>6 DEF InstallPending, JournalValid, JournalHistory, Visible, Readable
<1>8. SameStore
  <2>1. Committed' = Committed
    BY <1>4, <1>7 DEF Committed, Visible
  <2>2. StoreSessions' = StoreSessions
    BY <1>4, <1>7, <2>1 DEF StoreSessions, SessionsIn
  <2>3. SessionsAfterPowerLoss' = SessionsAfterPowerLoss
    BY <1>4, <1>5, <1>7 DEF SessionsAfterPowerLoss, SessionsIn, AfterPowerLoss, Survivors, Synced
  <2> QED
    BY <2>1, <2>2, <2>3 DEF SameStore
<1>9. JournalHistory'
  BY <1>1, <1>5, <1>6, <1>7, <1>8 DEF JournalHistory, SameStore
<1>10. SlotSessions(r)'
  <2>1. pc'[r] = "syncJournalDir"
    BY <1>1 DEF Inv, Types
  <2> QED
    BY <2>1 DEF SlotSessions
<1> QED
  <2>1. "syncJournal" \in BeforeCommit /\ "syncJournalDir" \in BeforeCommit
    BY DEF BeforeCommit
  <2> HIDE DEF newDisk
  <2> QED
    BY <1>1, <1>8, <1>9, <1>10, <2>1, InstallStepRefines

(* A commit keeps the window of receipts and every earlier observation.    *)
LEMMA CommitHistory ==
    ASSUME Inv, History, NEW T, Offers(submitted, Committed.board, Committed.meta, T),
           Committed'.board = T.board, Committed'.meta = T.meta, replies' = replies
    PROVE  /\ Windowed(Committed.board, Committed.meta)'
           /\ (\A p \in replies : Kept(p, Committed.board, Committed.meta))'
<1>1. PICK q \in submitted : /\ MayCommit(Committed.meta, q)
                             /\ CommitsTo(Committed.board, Committed.meta, q, T)
  BY DEF Offers
<1>2. q \in Requests
  BY DEF Inv, Types
<1>3. /\ Committed.board \in SUBSET Mutations /\ Committed.meta \in Metas
      /\ Agree(Committed.board, Committed.meta) /\ Windowed(Committed.board, Committed.meta)
  BY CommittedIs DEF History
<1>4. Windowed(T.board, T.meta)
  BY <1>1, <1>2, <1>3, CommitKeepsWindow
<1>5. ASSUME NEW p \in replies PROVE Kept(p, T.board, T.meta)
  <2>1. p \in Replies /\ Kept(p, Committed.board, Committed.meta)
    BY DEF Inv, Types, History
  <2> QED
    BY <1>1, <1>2, <1>3, <2>1, CommitKeepsObservations
<1> QED
  BY <1>4, <1>5

(* A durable journal is the store, whatever becomes of the files under it. *)
LEMMA PendingStore ==
    ASSUME InstallPending, InstallPending', Visible(disk.journal)' = Visible(disk.journal)
    PROVE  SameStore
BY DEF SameStore, StoreSessions, SessionsAfterPowerLoss, Committed

LEMMA PendingJournal ==
    ASSUME InstallPending' PROVE JournalHistory'
BY DEF JournalHistory, InstallPending

LEMMA SyncJournalDirRefines ==
    ASSUME Inv, History, NEW r \in Slots, SyncJournalDir(r) PROVE Refines
<1> DEFINE T == Visible(disk.journal)
<1>1. pc[r] = "syncJournalDir" /\ pc' = [pc EXCEPT ![r] = "replaceBoard"]
      /\ disk' = DirectorySynced
      /\ UNCHANGED <<queue, request, transaction, installing, outcome, submitted, replies, bounds>>
  BY DEF SyncJournalDir, InstallStep, Goes
<1>2. JournalValid /\ T = transaction[r] /\ disk.journal.cur.flushed
  BY <1>1 DEF Inv, StageDisk
<1>3. disk'.journal.cur = disk.journal.cur /\ disk'.journal.old = {}
  BY <1>1 DEF DirectorySynced, Settled
<1>4. InstallPending' /\ Visible(disk.journal)' = T
  BY <1>2, <1>3 DEF InstallPending, JournalValid, Visible, Readable
<1> HIDE DEF T
<1>5. Committed' = T
  BY <1>4 DEF Committed
<1>6. pc'[r] = "replaceBoard" /\ pc[r] \in LockedStages
  BY <1>1 DEF Inv, Types, LockedStages
<1>7. SlotHistory(r)' /\ SlotSessions(r)'
  <2>1. SlotHistory(r)
    BY DEF History
  <2>2. ReplyOf(r)' = ReplyOf(r)
    BY <1>1 DEF ReplyOf
  <2> QED
    BY <1>1, <1>2, <1>5, <1>6, <2>1, <2>2 DEF SlotHistory, SlotSessions, BeforeCommit
<1>8. JournalHistory'
  BY <1>4, PendingJournal
<1>9. CASE InstallPending
  <2>1. SameStore
    BY <1>4, <1>9, PendingStore DEF T
  <2>2. History'
    BY <1>1, <1>6, <1>7, <1>8, <2>1, SameStoreKeeps, HolderHistory
  <2> QED
    BY <1>1, <2>1, <2>2, Stutters DEF Refines
<1>10. CASE ~InstallPending
  <2>1. Offers(submitted, Committed.board, Committed.meta, T)
    BY <1>2, <1>10 DEF History, JournalHistory, T
  <2>2. StoreSessions' = T.sessions /\ SessionsAfterPowerLoss' = {T.sessions}
    BY <1>4, <1>5 DEF StoreSessions, SessionsAfterPowerLoss
  <2>3. Store!Next
    BY <1>1, <1>5, <2>1, <2>2, StoreCommits
  <2>4. History'
    BY <1>1, <1>5, <1>6, <1>7, <1>8, <2>1, CommitHistory, HolderHistory
  <2> QED
    BY <2>3, <2>4 DEF Refines
<1> QED
  BY <1>9, <1>10

LEMMA InstallFilesRefines == ASSUME Inv, History, NEW r \in Slots, InstallFiles(r) PROVE Refines
<1> DEFINE tx == transaction[r]
<1>1. PICK here, there, newDisk :
         /\ here \in InstallingFiles /\ there \in InstallingFiles
         /\ InstallStep(r, here, there, newDisk)
         /\ \/ /\ here = "replaceBoard" /\ there = "syncBoard"
               /\ newDisk = [disk EXCEPT !.board = Replaced(@, tx.board)]
            \/ /\ here = "syncBoard" /\ there = "replaceSessions"
               /\ newDisk = [disk EXCEPT !.board = FileSynced(@)]
            \/ /\ here = "replaceSessions" /\ there = "syncSessions"
               /\ newDisk = [disk EXCEPT !.sessions = Replaced(@, tx.sessions)]
            \/ /\ here = "syncSessions" /\ there = "replaceMeta"
               /\ newDisk = [disk EXCEPT !.sessions = FileSynced(@)]
            \/ /\ here = "replaceMeta" /\ there = "syncMeta"
               /\ newDisk = [disk EXCEPT !.meta = Replaced(@, tx.meta)]
            \/ /\ here = "syncMeta" /\ there = "syncFilesDir"
               /\ newDisk = [disk EXCEPT !.meta = FileSynced(@)]
  BY DEF InstallFiles, InstallingFiles, AfterBoard
<1>2. pc[r] = here /\ pc'[r] = there /\ disk' = newDisk /\ transaction' = transaction
      /\ UNCHANGED <<submitted, replies>>
  BY <1>1 DEF InstallStep, Goes, Inv, Types
<1>3. InstallPending
  BY <1>1, <1>2 DEF Inv, StageDisk
<1>4. disk'.journal = disk.journal
  BY <1>1, <1>2 DEF Inv, Types, Disks
<1>5. InstallPending' /\ Visible(disk.journal)' = Visible(disk.journal)
  BY <1>3, <1>4 DEF InstallPending, JournalValid, Visible, Readable
<1>6. SameStore /\ JournalHistory'
  BY <1>3, <1>5, PendingStore, PendingJournal
<1>7. SlotSessions(r)
  BY DEF History
<1>8. disk.sessions \in FilesOf(Snapshots)
  BY DEF Inv, Types, Disks
<1>9. SlotSessions(r)'
  <2>1. CASE there \in {"syncBoard", "replaceSessions"}
    BY <1>2, <2>1 DEF SlotSessions
  <2>2. CASE here = "replaceSessions"
    <3>1. disk'.sessions = Replaced(disk.sessions, tx.sessions) /\ there = "syncSessions"
      BY <1>1, <1>2, <2>2 DEF Inv, Types, Disks
    <3>2. Visible(disk.sessions)' = tx.sessions /\ Readable(disk.sessions)'
      BY <1>8, <3>1, FileOperations DEF Visible, Readable
    <3> QED
      BY <1>2, <3>1, <3>2 DEF SlotSessions
  <2>3. CASE here = "syncSessions"
    <3>1. disk'.sessions = FileSynced(disk.sessions) /\ there = "replaceMeta"
      BY <1>1, <1>2, <2>3 DEF Inv, Types, Disks
    <3>2. Visible(disk.sessions) = tx.sessions /\ Readable(disk.sessions)
      BY <1>2, <1>7, <2>3 DEF SlotSessions
    <3>3. Visible(disk.sessions)' = tx.sessions /\ Readable(disk.sessions)'
          /\ disk'.sessions.cur.flushed
      BY <1>8, <3>1, <3>2, FileOperations DEF Visible, Readable
    <3> QED
      BY <1>2, <3>1, <3>3 DEF SlotSessions
  <2>4. CASE here \in {"replaceMeta", "syncMeta"}
    <3>1. disk'.sessions = disk.sessions /\ there \in {"syncMeta", "syncFilesDir"}
      BY <1>1, <1>2, <2>4 DEF Inv, Types, Disks
    <3>2. Visible(disk.sessions) = tx.sessions /\ Readable(disk.sessions)
          /\ disk.sessions.cur.flushed
      BY <1>2, <1>7, <2>4 DEF SlotSessions
    <3> QED
      BY <1>2, <3>1, <3>2 DEF SlotSessions, Visible, Readable
  <2> QED
    BY <1>1, <2>1, <2>2, <2>3, <2>4
<1>10. here \in AfterCommit /\ there \in AfterCommit /\ there # "writeJournal"
  BY <1>1 DEF AfterCommit
<1> QED
  BY <1>1, <1>6, <1>9, <1>10, InstallStepRefines

LEMMA SyncFilesDirRefines == ASSUME Inv, History, NEW r \in Slots, SyncFilesDir(r) PROVE Refines
<1>1. InstallStep(r, "syncFilesDir", "unlinkJournal", DirectorySynced) /\ pc[r] = "syncFilesDir"
      /\ disk' = DirectorySynced /\ pc' = [pc EXCEPT ![r] = "unlinkJournal"]
      /\ transaction' = transaction
  BY DEF SyncFilesDir, InstallStep, Goes
<1>2. InstallPending
  BY <1>1 DEF Inv, StageDisk, InstallingFiles, AfterBoard
<1>3. /\ disk'.journal.cur = disk.journal.cur /\ disk'.journal.old = {}
      /\ disk'.sessions.cur = disk.sessions.cur /\ disk'.sessions.old = {}
  BY <1>1 DEF DirectorySynced, Settled
<1>4. InstallPending' /\ Visible(disk.journal)' = Visible(disk.journal)
  BY <1>2, <1>3 DEF InstallPending, JournalValid, Visible, Readable
<1>5. SameStore /\ JournalHistory'
  BY <1>2, <1>4, PendingStore, PendingJournal
<1>6. Visible(disk.sessions) = transaction[r].sessions /\ Readable(disk.sessions)
      /\ disk.sessions.cur.flushed
  BY <1>1 DEF History, SlotSessions
<1>7. SlotSessions(r)'
  <2>1. pc'[r] = "unlinkJournal"
    BY <1>1 DEF Inv, Types
  <2> QED
    BY <1>1, <1>3, <1>6, <2>1 DEF SlotSessions, Visible, Readable
<1>8. "syncFilesDir" \in AfterCommit /\ "unlinkJournal" \in AfterCommit
  BY DEF AfterCommit, InstallingFiles, AfterBoard
<1> QED
  BY <1>1, <1>5, <1>7, <1>8, InstallStepRefines

(* A file that is durable loses nothing.                                   *)
LEMMA SteadyLosable ==
    ASSUME NEW V, NEW file \in FilesOf(V), Steady(file)
    PROVE  Losable(file) = {file.cur.val}
<1>1. \A s \in Losable(file) : s = SessionsIn(file.cur)
  BY LosableIs DEF Steady
<1>2. SessionsIn(file.cur) \in Losable(file)
  BY LosableIs
<1> QED
  BY <1>1, <1>2 DEF SessionsIn, Steady

Spare(entries) == {e.val.sessions : e \in {x \in entries : x.val # Absent /\ x.intact}}

LEMMA AfterPowerLossIs ==
    SessionsAfterPowerLoss =
        IF InstallPending THEN {Visible(disk.journal).sessions}
        ELSE Losable(disk.sessions) \cup Spare(disk.journal.old)
BY DEF SessionsAfterPowerLoss, Losable, Spare

LEMMA AfterPowerLossIsNext ==
    SessionsAfterPowerLoss' =
        IF InstallPending' THEN {Visible(disk'.journal).sessions}
        ELSE Losable(disk'.sessions) \cup Spare(disk'.journal.old)
BY DEF SessionsAfterPowerLoss, Losable, Spare, Visible, SessionsIn, AfterPowerLoss, Survivors, Synced

(* Without the journal, the three files are the state it held.             *)
LEMMA UnlinkJournalRefines ==
    ASSUME Inv, History, NEW r \in Slots, UnlinkJournal(r) PROVE Refines
<1> DEFINE T == transaction[r]
           newDisk == [disk EXCEPT !.journal = Unlinked(@)]
<1>1. InstallStep(r, "unlinkJournal", "syncUnlink", newDisk) /\ pc[r] = "unlinkJournal"
      /\ disk' = newDisk /\ pc' = [pc EXCEPT ![r] = "syncUnlink"] /\ transaction' = transaction
  BY DEF UnlinkJournal, InstallStep, Goes
<1>2. /\ disk'.sessions = disk.sessions /\ disk'.board = disk.board /\ disk'.meta = disk.meta
      /\ disk'.journal = Unlinked(disk.journal)
  BY <1>1 DEF Inv, Types, Disks
<1> HIDE DEF newDisk
<1>3. /\ InstallPending /\ Visible(disk.journal) = T
      /\ Visible(disk.board) = T.board /\ Visible(disk.meta) = T.meta
  BY <1>1 DEF Inv, StageDisk, InstallingFiles, AfterBoard
<1>4. Visible(disk.sessions) = T.sessions /\ Steady(disk.sessions)
  BY <1>1 DEF History, SlotSessions, Steady, Readable
<1>5. disk.sessions \in FilesOf(Snapshots)
  BY DEF Inv, Types, Disks
<1>6. /\ disk'.journal.cur.val = Absent /\ disk'.journal.old = {disk.journal.cur}
      /\ disk.journal.cur.val = T /\ disk.journal.cur.intact /\ T # Absent
  BY <1>2, <1>3 DEF Unlinked, Synced, Entry, InstallPending, JournalValid, Visible, Readable
<1> HIDE DEF T
<1>7. ~InstallPending' /\ ~JournalValid' /\ Visible(disk'.journal) = Absent
  BY <1>6 DEF InstallPending, JournalValid, Visible
<1>8. /\ Committed = T
      /\ Committed'.board = T.board /\ Committed'.meta = T.meta
  BY <1>2, <1>3, <1>7 DEF Committed, Visible
<1>9. SameStore
  <2>1. StoreSessions = T.sessions /\ SessionsAfterPowerLoss = {T.sessions}
    BY <1>3, <1>8 DEF StoreSessions, SessionsAfterPowerLoss
  <2>2. StoreSessions' = T.sessions
    BY <1>2, <1>4, <1>7 DEF StoreSessions, SessionsIn, Visible, Steady
  <2>3. Losable(disk'.sessions) = {T.sessions}
    BY <1>2, <1>4, <1>5, SteadyLosable DEF Visible
  <2>4. Spare(disk'.journal.old) = {T.sessions}
    BY <1>6 DEF Spare
  <2>5. SessionsAfterPowerLoss' = {T.sessions}
    BY <1>7, <2>3, <2>4, AfterPowerLossIsNext
  <2> QED
    BY <1>8, <2>1, <2>2, <2>5 DEF SameStore
<1>10. JournalHistory'
  BY <1>6, <1>7, <1>8 DEF JournalHistory, Visible
<1>11. SlotSessions(r)'
  <2>1. pc'[r] = "syncUnlink"
    BY <1>1 DEF Inv, Types
  <2> QED
    BY <1>2, <1>4, <1>6, <2>1 DEF SlotSessions, Steady, Visible
<1>12. "unlinkJournal" \in AfterCommit /\ "syncUnlink" \in AfterCommit
  BY DEF AfterCommit, InstallingFiles, AfterBoard
<1> QED
  BY <1>1, <1>9, <1>10, <1>11, <1>12, InstallStepRefines

LEMMA SyncUnlinkRefines == ASSUME Inv, History, NEW r \in Slots, SyncUnlink(r) PROVE Refines
<1> DEFINE stage == IF installing[r] = "own" THEN "release" ELSE "decide"
<1>1. pc[r] = "syncUnlink" /\ pc' = [pc EXCEPT ![r] = stage] /\ disk' = DirectorySynced
      /\ UNCHANGED <<queue, request, outcome, submitted, replies, bounds>>
  BY DEF SyncUnlink, Goes
<1>2. Visible(disk.journal) = Absent
  BY <1>1 DEF Inv, StageDisk
<1>3. /\ disk'.journal.cur = disk.journal.cur /\ disk'.journal.old = {}
      /\ disk'.board.cur = disk.board.cur /\ disk'.meta.cur = disk.meta.cur
      /\ disk'.sessions = [cur |-> disk.sessions.cur, old |-> {}]
  BY <1>1 DEF DirectorySynced, Settled
<1>4. ~InstallPending /\ ~InstallPending' /\ ~JournalValid' /\ Visible(disk.journal)' = Absent
  BY <1>2, <1>3 DEF InstallPending, JournalValid, Visible
<1>5. /\ Steady(disk.sessions) /\ disk.sessions \in FilesOf(Snapshots)
      /\ \A e \in disk.journal.old : e.val # Absent /\ e.intact =>
             e.val.sessions = Visible(disk.sessions)
  BY <1>1 DEF History, SlotSessions, Inv, Types, Disks
<1>6. disk'.sessions = disk.sessions
  BY <1>3, <1>5 DEF Steady, FilesOf
<1>7. Committed'.board = Committed.board /\ Committed'.meta = Committed.meta
  BY <1>3, <1>4 DEF Committed, Visible
<1>8. SameStore
  <2>1. StoreSessions' = StoreSessions
    BY <1>3, <1>4 DEF StoreSessions, SessionsIn
  <2>2. Losable(disk.sessions) = {Visible(disk.sessions)}
    BY <1>5, SteadyLosable DEF Visible
  <2>3. Spare(disk.journal.old) \subseteq {Visible(disk.sessions)} /\ Spare(disk'.journal.old) = {}
    BY <1>3, <1>5 DEF Spare
  <2>4. SessionsAfterPowerLoss' = SessionsAfterPowerLoss
    BY <1>4, <1>6, <2>2, <2>3, AfterPowerLossIs, AfterPowerLossIsNext
  <2> QED
    BY <1>7, <2>1, <2>4 DEF SameStore
<1>9. JournalHistory'
  BY <1>3, <1>4 DEF JournalHistory
<1>10. pc'[r] = stage /\ pc[r] \in LockedStages
  BY <1>1 DEF Inv, Types, LockedStages
<1>11. SlotHistory(r)' /\ SlotSessions(r)'
  <2>1. SlotHistory(r)
    BY DEF History
  <2>2. ReplyOf(r)' = ReplyOf(r)
    BY <1>1 DEF ReplyOf
  <2>3. request'[r] \in submitted'
    BY <1>1, <2>1 DEF SlotHistory
  <2>4. pc'[r] = "release" => TrueOf(ReplyOf(r), Committed.board, Committed.meta)
    BY <1>1, <1>10, <2>1 DEF SlotHistory
  <2>5. pc'[r] \in {"release", "decide"}
    BY <1>10
  <2> QED
    BY <1>7, <2>2, <2>3, <2>4, <2>5
       DEF SlotHistory, SlotSessions, BeforeCommit, InstallingFiles, AfterBoard
<1>12. History'
  BY <1>1, <1>8, <1>9, <1>10, <1>11, SameStoreKeeps, HolderHistory
<1> QED
  BY <1>1, <1>8, <1>12, Stutters DEF Refines

-----------------------------------------------------------------------------
(* Arrivals and ends                                                       *)

(* A step outside the lock leaves the disk and its history alone.          *)
LEMMA OutsideRefines ==
    ASSUME Inv, History, NEW r \in Slots, NEW stage \in {"captured", "waiting"},
           pc[r] \notin LockedStages, pc' = [pc EXCEPT ![r] = stage],
           \A q \in Slots \ {r} : request'[q] = request[q],
           request'[r] \in submitted', submitted \subseteq submitted',
           UNCHANGED <<disk, transaction, installing, outcome, replies>>
    PROVE  Refines
<1>1. SameStore /\ Visible(disk.sessions)' = Visible(disk.sessions)
      /\ Readable(disk.sessions)' = Readable(disk.sessions)
  BY SameDiskSameStore DEF Visible, Readable
<1>2. JournalHistory'
  BY <1>1, SameJournalKeeps
<1>3. ASSUME NEW q \in Slots, q # r PROVE SlotHistory(q)' /\ SlotSessions(q)'
  <2>1. SlotHistory(q) /\ SlotSessions(q) /\ pc'[q] = pc[q]
    BY <1>3 DEF History, Inv, Types
  <2>2. request'[q] = request[q] /\ ReplyOf(q)' = ReplyOf(q)
    BY <1>3 DEF ReplyOf
  <2>3. pc'[q] = "writeJournal" =>
            Offers(submitted', Committed'.board, Committed'.meta, transaction'[q])
    BY <1>1, <2>1, OffersMore DEF SlotHistory, SameStore
  <2>4. SlotHistory(q)'
    BY <1>1, <2>1, <2>2, <2>3 DEF SlotHistory, SameStore
  <2>5. SlotSessions(q)'
    BY <1>1, <2>1 DEF SlotSessions
  <2> QED
    BY <2>4, <2>5
<1>4. SlotHistory(r)' /\ SlotSessions(r)'
  <2>1. pc'[r] = stage
    BY DEF Inv, Types
  <2> QED
    BY <2>1 DEF SlotHistory, SlotSessions, BeforeCommit, InstallingFiles, AfterBoard
<1>5. History'
  BY <1>1, <1>2, <1>3, <1>4, SameStoreKeeps DEF History
<1> QED
  BY <1>1, <1>5, StoreAsked DEF Refines

LEMMA SubmitRefines ==
    ASSUME Inv, History, NEW r \in Slots, SubmitCommand(r) \/ SubmitInternal(r) PROVE Refines
<1>1. PICK q : Submit(r, q)
  BY DEF SubmitCommand, SubmitInternal
<1>2. /\ pc[r] = "idle" /\ pc' = [pc EXCEPT ![r] = "captured"]
      /\ request' = [request EXCEPT ![r] = q] /\ submitted' = submitted \cup {q}
      /\ UNCHANGED <<disk, queue, transaction, installing, outcome, replies, crashes, powerLosses>>
  BY <1>1 DEF Submit, Goes
<1>3. request'[r] = q /\ \A s \in Slots \ {r} : request'[s] = request[s]
  BY <1>2 DEF Inv, Types
<1>4. pc[r] \notin LockedStages
  BY <1>2 DEF LockedStages
<1>5. request'[r] \in submitted' /\ submitted \subseteq submitted'
  BY <1>2, <1>3
<1>6. UNCHANGED <<disk, transaction, installing, outcome, replies>>
  BY <1>2
<1> QED
  BY <1>2, <1>3, <1>4, <1>5, <1>6, OutsideRefines

LEMMA EnqueueRefines == ASSUME Inv, History, NEW r \in Slots, Enqueue(r) PROVE Refines
<1>1. /\ pc[r] = "captured" /\ pc' = [pc EXCEPT ![r] = "waiting"]
      /\ UNCHANGED <<disk, request, transaction, installing, outcome, submitted, replies, bounds>>
  BY DEF Enqueue, Goes
<1>2. request'[r] \in submitted' /\ pc[r] \notin LockedStages
  BY <1>1 DEF History, SlotHistory, LockedStages
<1> QED
  BY <1>1, <1>2, OutsideRefines

(* The holder leaves; nobody else is past the wait.                        *)
LEMMA EndsHistory ==
    ASSUME Inv, History, NEW r \in Slots, pc[r] \in LockedStages, Ends(r),
           \A p \in replies' : Kept(p, Committed.board, Committed.meta)
    PROVE  History' /\ SameStore
<1>1. /\ pc' = [pc EXCEPT ![r] = "idle"]
      /\ request' = [request EXCEPT ![r] = IdleRequest]
      /\ UNCHANGED <<disk, submitted, bounds>>
  BY DEF Ends
<1>2. SameStore
  BY <1>1, SameDiskSameStore
<1>3. JournalHistory'
  BY <1>1, <1>2, SameJournalKeeps
<1>4. ASSUME NEW q \in Slots PROVE SlotHistory(q)' /\ SlotSessions(q)'
  <2>1. pc'[q] \notin LockedStages
    BY <1>1, OnlyTheHolder DEF Inv, Types, LockedStages
  <2>2. pc'[q] # "idle" => request'[q] \in submitted'
    BY <1>1 DEF History, SlotHistory, Inv, Types
  <2> QED
    BY <2>1, <2>2
       DEF SlotHistory, SlotSessions, BeforeCommit, LockedStages, InstallingFiles, AfterBoard
<1>5. /\ Windowed(Committed.board, Committed.meta)'
      /\ (\A p \in replies : Kept(p, Committed.board, Committed.meta))'
  BY <1>2 DEF History, SameStore
<1> QED
  BY <1>2, <1>3, <1>4, <1>5 DEF History

(* The answer that is given is true of the store, and stays so.            *)
LEMMA ReleaseRefines == ASSUME Inv, History, NEW r \in Slots, Release(r) PROVE Refines
<1>1. pc[r] = "release" /\ Ends(r) /\ replies' = replies \cup {ReplyOf(r)}
  BY DEF Release, ReplyOf
<1>2. TrueOf(ReplyOf(r), Committed.board, Committed.meta)
  BY <1>1 DEF History, SlotHistory
<1>3. Kept(ReplyOf(r), Committed.board, Committed.meta)
  BY <1>2, CommittedIs, AnswerIsKept DEF TrueOf
<1>4. History' /\ SameStore
  <2>1. \A p \in replies' : Kept(p, Committed.board, Committed.meta)
    BY <1>1, <1>3 DEF History
  <2> QED
    BY <1>1, <2>1, EndsHistory DEF LockedStages
<1>5. submitted' = submitted
  BY <1>1 DEF Ends
<1>6. Store!Next
  BY <1>1, <1>2, <1>4, <1>5, StoreReplies
<1> QED
  BY <1>4, <1>6 DEF Refines

LEMMA FailRefines == ASSUME Inv, History, NEW r \in Slots, Fail(r) PROVE Refines
<1>1. pc[r] \in LockedStages /\ Ends(r) /\ replies' = replies /\ submitted' = submitted
  BY DEF Fail, Ends
<1>2. History' /\ SameStore
  BY <1>1, EndsHistory DEF History
<1> QED
  BY <1>1, <1>2, Stutters DEF Refines

-----------------------------------------------------------------------------
(* Crashes and power losses                                                *)

LEMMA StopsHistory ==
    ASSUME Stops, JournalHistory', Windowed(Committed.board, Committed.meta)',
           (\A p \in replies : Kept(p, Committed.board, Committed.meta))'
    PROVE  History'
<1>1. ASSUME NEW q \in Slots PROVE SlotHistory(q)' /\ SlotSessions(q)'
  <2>1. pc'[q] = "idle"
    BY DEF Stops
  <2> QED
    BY <2>1 DEF SlotHistory, SlotSessions, BeforeCommit, InstallingFiles, AfterBoard
<1> QED
  BY <1>1 DEF History

LEMMA CrashRefines == ASSUME Inv, History, Crash PROVE Refines
<1>1. Stops /\ disk' = disk /\ UNCHANGED <<submitted, replies>>
  BY DEF Crash, Stops
<1>2. SameStore
  BY <1>1, SameDiskSameStore
<1>3. History'
  BY <1>1, <1>2, SameJournalKeeps, SameStoreKeeps, StopsHistory
<1> QED
  BY <1>1, <1>2, <1>3, Stutters DEF Refines

(* What a power loss leaves of a file.                                     *)
LEMMA LostFile ==
    ASSUME NEW V, NEW file \in FilesOf(V), NEW lost \in AfterPowerLoss(file)
    PROVE  /\ lost \in FilesOf(V) /\ lost.old = {} /\ lost.cur.flushed
           /\ \E e \in file.old \cup {file.cur} :
                 lost.cur.val = e.val /\ (lost.cur.intact => e.intact)
           /\ SessionsIn(lost.cur) \in Losable(file)
           /\ Losable(lost) = {SessionsIn(lost.cur)}
           /\ file.cur.flushed /\ file.old = {} => lost.cur = file.cur
<1>1. PICK e \in file.old \cup {file.cur} :
        lost.cur \in Survivors(e) /\ lost = [cur |-> lost.cur, old |-> {}]
  BY DEF AfterPowerLoss
<1>2. e \in Entries(V)
  BY DEF FilesOf
<1>3. /\ lost.cur \in Entries(V) /\ lost.cur.val = e.val /\ lost.cur.flushed
      /\ (lost.cur.intact => e.intact) /\ (e.flushed => lost.cur = e)
  BY <1>1, <1>2 DEF Survivors, Synced, Entries
<1>4. lost \in FilesOf(V) /\ lost.old = {}
  BY <1>1, <1>3 DEF FilesOf
<1>5. SessionsIn(lost.cur) \in Losable(file)
  BY DEF Losable
<1>6. Losable(lost) = {SessionsIn(lost.cur)}
  <2>1. \A s \in Losable(lost) : s = SessionsIn(lost.cur)
    BY <1>3, <1>4, LosableIs
  <2>2. SessionsIn(lost.cur) \in Losable(lost)
    BY <1>4, LosableIs
  <2> QED
    BY <2>1, <2>2
<1> QED
  BY <1>1, <1>3, <1>4, <1>5, <1>6

(* Losing power keeps a durable journal; it may commit one that was not    *)
(* durable yet, or keep a journal of the commit before; otherwise it only  *)
(* chooses among the session maps that were not durable.                   *)
LEMMA PowerLossRefines == ASSUME Inv, History, PowerLoss PROVE Refines
<1>1. PICK board \in AfterPowerLoss(disk.board), sessions \in AfterPowerLoss(disk.sessions),
           meta \in AfterPowerLoss(disk.meta), journal \in AfterPowerLoss(disk.journal) :
         disk' = [board |-> board, sessions |-> sessions, meta |-> meta, journal |-> journal]
  BY DEF PowerLoss
<1>2. /\ disk.board \in FilesOf(SUBSET Mutations) /\ disk.sessions \in FilesOf(Snapshots)
      /\ disk.meta \in FilesOf(Metas) /\ disk.journal \in FilesOf(Transactions \cup {Absent})
  BY DEF Inv, Types, Disks
<1>3. /\ disk'.board = board /\ disk'.sessions = sessions
      /\ disk'.meta = meta /\ disk'.journal = journal
  BY <1>1
<1>4. Stops /\ UNCHANGED <<submitted, replies>>
  BY DEF PowerLoss, Stops
<1>5. journal.old = {} /\ journal.cur.flushed
  BY <1>2, LostFile
<1>6. PICK e \in disk.journal.old \cup {disk.journal.cur} :
        journal.cur.val = e.val /\ (journal.cur.intact => e.intact)
  BY <1>2, LostFile
<1>7. InstallPending' <=> JournalValid'
  BY <1>3, <1>5 DEF InstallPending
<1>8. JournalHistory'
  BY <1>3, <1>5, <1>7 DEF JournalHistory
<1>9. CASE InstallPending
  <2>1. journal.cur = disk.journal.cur
    BY <1>2, <1>9, LostFile DEF InstallPending
  <2>2. InstallPending' /\ Visible(disk.journal)' = Visible(disk.journal)
    BY <1>3, <1>7, <1>9, <2>1 DEF InstallPending, JournalValid, Visible, Readable
  <2>3. SameStore
    BY <1>9, <2>2, PendingStore
  <2>4. History'
    BY <1>4, <1>8, <2>3, SameStoreKeeps, StopsHistory
  <2> QED
    BY <1>4, <2>3, <2>4, Stutters DEF Refines
<1>10. CASE ~InstallPending /\ InstallPending'
  <2> DEFINE T == journal.cur.val
  <2>1. T = e.val /\ T # Absent /\ e.intact
    BY <1>3, <1>6, <1>10 DEF InstallPending, JournalValid, Visible, Readable
  <2>2. Committed' = T
    BY <1>3, <1>10 DEF Committed, Visible
  <2>3. StoreSessions' = T.sessions /\ SessionsAfterPowerLoss' = {T.sessions}
    BY <1>3, <1>10, <2>2 DEF StoreSessions, SessionsAfterPowerLoss, Visible
  <2> HIDE DEF T
  <2>4. CASE e \in disk.journal.old
    <3>1. T.board = Committed.board /\ T.meta = Committed.meta
      BY <2>1, <2>4 DEF History, JournalHistory
    <3>2. T.sessions \in SessionsAfterPowerLoss
      BY <1>10, <2>1, <2>4, AfterPowerLossIs DEF Spare
    <3>3. Store!Next
      BY <1>4, <2>2, <2>3, <3>1, <3>2, StoreLosesPower
    <3>4. /\ Windowed(Committed.board, Committed.meta)'
          /\ (\A p \in replies : Kept(p, Committed.board, Committed.meta))'
      BY <1>4, <2>2, <3>1 DEF History
    <3> QED
      BY <1>4, <1>8, <3>3, <3>4, StopsHistory DEF Refines
  <2>5. CASE e = disk.journal.cur
    <3>1. Offers(submitted, Committed.board, Committed.meta, T)
      BY <1>10, <2>1, <2>5 DEF History, JournalHistory, JournalValid, Visible, Readable
    <3>2. Store!Next
      BY <1>4, <2>2, <2>3, <3>1, StoreCommits
    <3>3. History'
      BY <1>4, <1>8, <2>2, <3>1, CommitHistory, StopsHistory
    <3> QED
      BY <3>2, <3>3 DEF Refines
  <2> QED
    BY <2>4, <2>5
<1>11. CASE ~InstallPending /\ ~InstallPending'
  <2>1. Steady(disk.board) /\ Steady(disk.meta)
    BY <1>11 DEF Inv, DiskInv, CoveredOrSteady
  <2>2. board.cur = disk.board.cur /\ meta.cur = disk.meta.cur
    BY <1>2, <2>1, LostFile DEF Steady
  <2>3. Committed'.board = Committed.board /\ Committed'.meta = Committed.meta
    BY <1>3, <1>11, <2>2 DEF Committed, Visible
  <2> DEFINE s == SessionsIn(sessions.cur)
  <2>4. StoreSessions' = s
    BY <1>3, <1>11 DEF StoreSessions, SessionsIn
  <2> HIDE DEF s
  <2>5. s \in Losable(disk.sessions) /\ Losable(sessions) = {s}
    BY <1>2, LostFile DEF s
  <2>6. Spare(disk'.journal.old) = {}
    BY <1>3, <1>5 DEF Spare
  <2>7. s \in SessionsAfterPowerLoss /\ SessionsAfterPowerLoss' = {s}
    BY <1>3, <1>11, <2>5, <2>6, AfterPowerLossIs, AfterPowerLossIsNext
  <2>8. Store!Next
    BY <1>4, <2>3, <2>4, <2>7, StoreLosesPower
  <2>9. /\ Windowed(Committed.board, Committed.meta)'
        /\ (\A p \in replies : Kept(p, Committed.board, Committed.meta))'
    BY <1>4, <2>3 DEF History
  <2> QED
    BY <1>4, <1>8, <2>8, <2>9, StopsHistory DEF Refines
<1> QED
  BY <1>9, <1>10, <1>11

-----------------------------------------------------------------------------
(* The whole system                                                        *)

LEMMA InitRefines == Init => History /\ Store!Init
<1> SUFFICES ASSUME Init PROVE History /\ Store!Init
  OBVIOUS
<1>1. /\ disk.board = Stored({}) /\ disk.sessions = Stored(InitialSnapshot)
      /\ disk.meta = Stored(EmptyMeta) /\ disk.journal = Stored(Absent)
      /\ submitted = {} /\ replies = {} /\ \A r \in Slots : pc[r] = "idle"
  BY DEF Init
<1>2. \A v : Stored(v).cur.val = v /\ Stored(v).cur.flushed /\ Stored(v).cur.intact
             /\ Stored(v).old = {}
  BY DEF Stored, Synced, Entry
<1>3. ~InstallPending /\ ~JournalValid /\ Visible(disk.journal) = Absent
  BY <1>1, <1>2 DEF InstallPending, JournalValid, Visible
<1>4. /\ Committed.board = {} /\ Committed.sessions = InitialSnapshot
      /\ Committed.meta = EmptyMeta
  BY <1>1, <1>2, <1>3 DEF Committed, Visible
<1>5. EmptyMeta.revision = 0 /\ EmptyMeta.receipts = {}
  BY DEF EmptyMeta
<1>6. \A r \in Slots : SlotHistory(r) /\ SlotSessions(r)
  BY <1>1 DEF SlotHistory, SlotSessions, BeforeCommit, InstallingFiles, AfterBoard
<1>7. History
  BY <1>1, <1>2, <1>3, <1>4, <1>5, <1>6 DEF History, JournalHistory, Windowed
<1>8. SessionsAfterPowerLoss = {InitialSnapshot}
  <2>1. disk.sessions \in FilesOf(Snapshots) /\ Steady(disk.sessions)
    BY <1>1, <1>2, InitInv DEF Inv, Types, Disks, Steady
  <2>2. Losable(disk.sessions) = {InitialSnapshot}
    BY <1>1, <1>2, <2>1, SteadyLosable
  <2>3. Spare(disk.journal.old) = {}
    BY <1>1, <1>2 DEF Spare
  <2> QED
    BY <1>3, <2>2, <2>3, AfterPowerLossIs
<1>9. SessionsIn(disk.sessions.cur) = InitialSnapshot
  BY <1>1, <1>2 DEF SessionsIn
<1>10. Store!Init
  BY <1>1, <1>3, <1>4, <1>5, <1>8, <1>9 DEF Store!Init
<1> QED
  BY <1>7, <1>10

LEMMA NextRefines == Inv /\ History /\ [Next]_vars => Refines
<1> SUFFICES ASSUME Inv, History, [Next]_vars PROVE Refines
  OBVIOUS
<1>1. ASSUME NEW r \in Slots, Decide(r) PROVE Refines
  BY <1>1, AnsweredRefines, CommitAnyRefines, WriteSessionsOnlyRefines DEF Decide
<1>2. ASSUME NEW r \in Slots, Install(r) PROVE Refines
  BY <1>2, WriteJournalRefines, SyncJournalRefines, SyncJournalDirRefines, InstallFilesRefines,
     SyncFilesDirRefines, UnlinkJournalRefines, SyncUnlinkRefines DEF Install
<1>3. ASSUME NEW r \in Slots, Step(r) PROVE Refines
  BY <1>1, <1>2, <1>3, EnqueueRefines, AcquireLockRefines, NothingToRecoverRefines,
     RecoverJournalRefines, ReleaseRefines, FailRefines DEF Step
<1>4. CASE UNCHANGED vars
  <2>1. /\ disk' = disk /\ UNCHANGED <<pc, request, transaction, installing, outcome>>
        /\ UNCHANGED <<submitted, replies>>
    BY <1>4 DEF vars
  <2>2. SameStore /\ Visible(disk.sessions)' = Visible(disk.sessions)
        /\ Readable(disk.sessions)' = Readable(disk.sessions)
    BY <2>1, SameDiskSameStore DEF Visible, Readable
  <2>3. \A r \in Slots : ReplyOf(r)' = ReplyOf(r)
    BY <2>1 DEF ReplyOf
  <2>4. ASSUME NEW r \in Slots PROVE SlotHistory(r)' /\ SlotSessions(r)'
    <3>1. SlotHistory(r) /\ SlotSessions(r)
      BY DEF History
    <3>2. SlotHistory(r)'
      BY <2>1, <2>2, <2>3, <3>1 DEF SlotHistory, SameStore
    <3>3. SlotSessions(r)'
      BY <2>1, <2>2, <3>1 DEF SlotSessions
    <3> QED
      BY <3>2, <3>3
  <2>5. History'
    BY <2>1, <2>2, <2>4, SameJournalKeeps, SameStoreKeeps DEF History
  <2> QED
    BY <2>1, <2>2, <2>5, Stutters DEF Refines
<1> QED
  BY <1>3, <1>4, SubmitRefines, CrashRefines, PowerLossRefines DEF Next

LEMMA HistoryHolds == Spec => [](Inv /\ History)
<1>1. Init => Inv /\ History
  BY InitInv, InitRefines
<1>2. Inv /\ History /\ [Next]_vars => Inv' /\ History'
  BY NextInv, NextRefines DEF Refines
<1> QED
  BY <1>1, <1>2, PTL DEF Spec

(* loadProjectState, applyProjectBoardMutation, saveProjectSessions and      *)
(* recoverProjectStateTransaction together implement one atomic store: a     *)
(* commit takes effect at once, when the journal's directory entry becomes   *)
(* durable, whatever crashes, I/O errors and power losses follow, and every  *)
(* answer is true when it is given.                                          *)
THEOREM StoreImplemented == Spec => ImplementsProjectStore
<1>1. Init => Store!Init
  BY InitRefines
<1>2. Inv /\ History /\ [Next]_vars => [Store!Next]_Store!vars
  BY NextRefines DEF Refines
<1> QED
  BY <1>1, <1>2, HistoryHolds, PTL DEF Spec, ImplementsProjectStore, Store!Spec

(* Every board and revision that the runtime ever answered with is the       *)
(* committed history up to that revision, through every later crash and      *)
(* power loss: nobody was shown half a commit or one that was then lost.     *)
THEOREM ObservationsHold == Spec => []ObservationsSurvive
<1>1. History => ObservationsSurvive
  BY DEF History, Kept, ObservationsSurvive
<1> QED
  BY <1>1, HistoryHolds, PTL

(* appendBoardCommandReceipt: a command identity takes effect a second time only  *)
(* after as many later commits as the window of receipts holds.              *)
THEOREM RetriesHold == Spec => []RetriesApplyOnce
<1>1. History => RetriesApplyOnce
  BY DEF History, Windowed, RetriesApplyOnce
<1> QED
  BY <1>1, HistoryHolds, PTL

=============================================================================
