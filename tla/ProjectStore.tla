---------------------------- MODULE ProjectStore ----------------------------
(***************************************************************************)
(* What a project's storage promises its callers, without files, locks or  *)
(* journals: one board, one session map, one revision and a window of      *)
(* command receipts, changed by atomic steps, and answers that are true of *)
(* that state when they are given.                                         *)
(*                                                                         *)
(* A commit is durable.  A session map saved on its own is not: it reaches *)
(* the disk when the operating system decides, so losing power may bring   *)
(* an older map back, or leave none that can be read.                      *)
(***************************************************************************)
EXTENDS Integers, FiniteSets

CONSTANTS CommandIds, Contents, Snapshots, InitialSnapshot, NoCommand, Torn, MaxReceipts

VARIABLES
    board,        \* the mutations applied, each with its revision
    sessions,     \* the session map a reader finds
    revision,
    receipts,     \* receipts of the latest identified commands
    mayRevertTo,  \* session maps a power loss may leave, the current one included
    submitted,    \* the requests callers made
    replies       \* the answers callers received

vars == <<board, sessions, revision, receipts, mayRevertTo, submitted, replies>>

Newest(set) == {r \in set : Cardinality({s \in set : s.rev > r.rev}) < MaxReceipts}
ReceiptsFor(id) == {c \in receipts : c.id = id}

Init ==
    /\ board = {} /\ revision = 0 /\ receipts = {}
    /\ sessions = InitialSnapshot /\ mayRevertTo = {InitialSnapshot}
    /\ submitted = {} /\ replies = {}

Request ==
    /\ submitted \subseteq submitted'
    /\ UNCHANGED <<board, sessions, revision, receipts, mayRevertTo, replies>>

(* A submitted request takes effect at most as often as it may: a command   *)
(* only at the revision it expects and without a receipt of its identity.   *)
MayCommit(q) ==
    \/ q.kind = "projection"
    \/ q.kind = "command" /\ q.expected = revision /\ ReceiptsFor(q.id) = {}

Commit(q, changed) ==
    /\ MayCommit(q)
    /\ revision' = revision + 1
    /\ board' = IF changed
                THEN board \cup {[rev |-> revision', id |-> q.id, content |-> q.content]}
                ELSE board
    /\ receipts' = IF q.kind = "command"
                   THEN Newest(receipts \cup {[rev |-> revision', id |-> q.id,
                                               content |-> q.content, accepted |-> changed]})
                   ELSE receipts
    /\ sessions' = q.sessions
    /\ mayRevertTo' = {q.sessions}
    /\ UNCHANGED <<submitted, replies>>

SaveSessions(q) ==
    /\ q.kind \in {"projection", "save"}
    /\ sessions' = q.sessions
    /\ mayRevertTo' \in SUBSET (mayRevertTo \cup {q.sessions, Torn})
    /\ q.sessions \in mayRevertTo'
    /\ UNCHANGED <<board, revision, receipts, submitted, replies>>

LosePower ==
    /\ \E s \in mayRevertTo : sessions' = s /\ mayRevertTo' = {s}
    /\ UNCHANGED <<board, revision, receipts, submitted, replies>>

(* What an answer asserts of the state in which it is given.                *)
Truthful(p) ==
    /\ p.revision = revision /\ p.board = board
    /\ p.answer = "applied" /\ p.id # NoCommand =>
           [id |-> p.id, content |-> p.content, accepted |-> TRUE] \in
               {[id |-> c.id, content |-> c.content, accepted |-> c.accepted] : c \in receipts}
    /\ p.answer = "unchanged" =>
           \E c \in receipts : c.id = p.id /\ c.content = p.content /\ ~c.accepted
    /\ p.answer = "conflict" => ReceiptsFor(p.id) = {} /\ p.expected # revision
    /\ p.answer = "identityConflict" => \E c \in ReceiptsFor(p.id) : c.content # p.content

Reply ==
    /\ \E p \in replies' :
           /\ replies' = replies \cup {p}
           /\ Truthful(p)
    /\ UNCHANGED <<board, sessions, revision, receipts, mayRevertTo, submitted>>

Next ==
    \/ Request \/ LosePower \/ Reply
    \/ \E q \in submitted : SaveSessions(q) \/ \E changed \in BOOLEAN : Commit(q, changed)

Spec == Init /\ [][Next]_vars
=============================================================================
