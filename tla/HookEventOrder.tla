--------------------------- MODULE HookEventOrder ---------------------------
(***************************************************************************)
(* The ordering guard for the hooks of one Claude launch                   *)
(* (src/terminal/hook-event-order.ts).  Claude reports what it does through *)
(* hooks that arrive late, twice and out of order; the guard decides, from *)
(* the capture times and the identities they carry, which of them may still *)
(* say something about the task.  The module is a value, the guard, and the *)
(* operators that judge a hook, admit it, record what the user did, and     *)
(* rebuild the guard from the receipts that survive a restart.              *)
(*                                                                         *)
(* A hook is a record: its capture time `at`, which also names the          *)
(* delivery, its event, the prompt and the tool it names (None when it      *)
(* names none), the class of its tool, and for a Stop whether background    *)
(* work may wake the prompt again.  Times start at 1 and a time of 0 means  *)
(* that there is none.  Subagent lanes, elicitations, the other providers   *)
(* and the eviction of receipts after thirty minutes or beyond 512 are left *)
(* out.                                                                     *)
(***************************************************************************)
EXTENDS Integers, Sequences, FiniteSets, TLC, FiniteSetsExt, Functions, SequencesExt

None == 0

\* PostToolUse stands for PostToolUseFailure too: no rule tells them apart.
ToolEnds == {"PostToolUse"}
Completions == {"PostToolUse", "PermissionDenied"}
ToolEvents == {"PreToolUse", "PostToolUse"}

\* A prompt that a question or a permission dialog opens for the user.
OpensInteraction(h) ==
    h.event = "PermissionRequest" \/ (h.event = "PreToolUse" /\ h.class = "question")

\* createHookEventOrderState: nothing seen yet.
NewGuard ==
    [active |-> None, activeAt |-> 0, foreground |-> FALSE, completedAt |-> 0,
     retired |-> {}, pending |-> <<>>, completed |-> <<>>, submittedAt |-> 0,
     key |-> <<>>, awaiting |-> FALSE, background |-> {}, anonymous |-> FALSE,
     delivered |-> {}, fence |-> <<>>]

\* matchesClaudeToolObservation: the prompt and the tool's name do not conflict.
MatchesTool(seen, h) ==
    /\ h.prompt = None \/ seen.prompt = None \/ h.prompt = seen.prompt
    /\ seen.class \in {"", h.class}

\* correlateClaudePermissionToolUseId: the one open tool that a permission
\* request, which names no tool, can be about; ambiguity gives none.
Correlated(g, h) ==
    LET candidates == {t \in DOMAIN g.pending :
                          g.pending[t].at <= h.at /\ MatchesTool(g.pending[t], h)}
    IN  IF h.event = "PermissionRequest" /\ Cardinality(candidates) = 1
        THEN CHOOSE t \in candidates : TRUE
        ELSE None

\* Map.set, and what one map adds to another.
Put(map, key, value) == [k \in DOMAIN map \cup {key} |-> IF k = key THEN value ELSE map[k]]
Over(map, other) ==
    [k \in DOMAIN map \cup DOMAIN other |-> IF k \in DOMAIN map THEN map[k] ELSE other[k]]

-----------------------------------------------------------------------------
\* Whether background work of this prompt, or of an unnamed one, may wake it.
WakeExpected(g, prompt) ==
    IF prompt = None THEN g.anonymous ELSE prompt \in g.background

\* evaluateForegroundInterruptOrder: what a Ctrl-C still lets through.  The
\* fence is a sequence of at most one record.
FenceAdmits(g, h) ==
    g.fence = <<>> \/
    LET fence == g.fence[1]
        expected == WakeExpected(g, h.prompt)
    IN  /\ h.at > fence.at
        /\ IF h.event = "Stop"
           THEN ~ (/\ ~fence.awaiting /\ ~expected
                   /\ h.prompt # None /\ h.prompt = fence.scope /\ g.active # fence.scope)
           ELSE /\ h.tool \notin fence.tools
                /\ expected \/ h.prompt = None \/ h.prompt # fence.scope
                /\ expected \/ h.prompt # None \/ ~fence.awaiting \/ h.event = "UserPromptSubmit"

\* The identity of a retired prompt is forgotten.
MutantSuperseded(g, h) ==
    \/ h.prompt # None /\ h.prompt \in g.background /\ g.foreground /\ h.prompt # g.active
    \/ h.event = "Stop" /\ h.prompt = None /\ h.at <= g.activeAt
    \/ h.prompt # None /\ g.active # None /\ h.prompt # g.active /\ h.at <= g.activeAt

\* A wake of an older prompt, or an event of a prompt that another one has
\* replaced, has no say over the newer foreground.
Superseded(g, h) ==
    \/ h.prompt # None /\ h.prompt \in g.background /\ g.foreground /\ h.prompt # g.active
    \/ h.event = "Stop" /\ h.prompt = None /\ h.at <= g.activeAt
    \/ h.prompt \in g.retired
    \/ h.prompt # None /\ g.active # None /\ h.prompt # g.active /\ h.at <= g.activeAt

\* A permission request is refused whenever some tool of its prompt is done.
MutantToolIsDone(g, h) ==
    \/ h.tool \in DOMAIN g.completed
    \/ /\ h.event = "PermissionRequest"
       /\ \E t \in DOMAIN g.completed : MatchesTool(g.completed[t], h)

\* A tool that is done, or a completion whose tool was never seen to start.
ToolIsDone(g, h) ==
    \/ h.tool \in DOMAIN g.completed
    \/ /\ h.prompt = None /\ g.completedAt # 0 /\ ~g.anonymous
       /\ h.event \in ToolEnds /\ h.tool \notin DOMAIN g.pending
    \/ /\ h.event = "PermissionRequest"
       /\ \E t \in DOMAIN g.completed :
             g.completed[t].at >= h.at /\ MatchesTool(g.completed[t], h)

\* evaluateHookEventOrder, the part for Claude's foreground.
Accepts(g, h) ==
    /\ h.at \notin g.delivered
    /\ FenceAdmits(g, h)
    /\ h.at > g.completedAt
    /\ ~Superseded(g, h)
    /\ ~(OpensInteraction(h) /\ h.at < g.submittedAt)
    /\ ~(g.awaiting /\ h.prompt = None /\ h.event \notin {"UserPromptSubmit", "Stop"})
    /\ ~ToolIsDone(g, h)

-----------------------------------------------------------------------------
\* advanceLocalForegroundInterrupt: newer native work ends the wait for it.
FenceAfter(fence, h) ==
    IF /\ fence # <<>> /\ fence[1].awaiting
       /\ \/ h.event = "UserPromptSubmit"
          \/ h.prompt # None /\ h.prompt # fence[1].scope /\ h.event # "Stop"
    THEN << [fence[1] EXCEPT !.awaiting = FALSE] >>
    ELSE fence

\* closeClaudePendingTools: the open tools of a prompt, and those of no known
\* prompt, count as done.
ClosePending(g, prompt, at) ==
    LET closed == {t \in DOMAIN g.pending : g.pending[t].prompt \in {None, prompt}}
    IN  [g EXCEPT !.pending = Restrict(g.pending, DOMAIN g.pending \ closed),
                  !.completed = Over([t \in closed |-> [g.pending[t] EXCEPT !.at = Max({@, at})]], @)]

RetireActive(g) ==
    IF g.active = None \/ g.active \in g.background THEN g.retired ELSE g.retired \cup {g.active}

\* A submitted prompt supersedes a pending Escape and an interrupted turn.
AfterSubmit(g, h) ==
    IF h.event # "UserPromptSubmit" THEN g
    ELSE LET started == [g EXCEPT !.key = <<>>, !.awaiting = FALSE, !.anonymous = FALSE,
                                  !.foreground = TRUE]
         IN  IF h.prompt # None THEN started
             ELSE [started EXCEPT !.retired = RetireActive(g), !.active = None, !.activeAt = h.at]

\* A named prompt becomes the active one when it is newer.
AfterPrompt(g, h) ==
    CASE h.prompt = None -> g
      [] h.prompt # None /\ h.prompt = g.active ->
            [g EXCEPT !.activeAt = Max({g.activeAt, h.at})]
      [] h.prompt # None /\ h.prompt # g.active /\ h.at > g.activeAt ->
            [g EXCEPT !.retired = RetireActive(g), !.active = h.prompt, !.activeAt = h.at,
                      !.foreground = TRUE, !.awaiting = FALSE]
      [] OTHER -> g

AfterTool(g, h) ==
    CASE h.event = "PreToolUse" ->
            [g EXCEPT !.pending =
                Put(@, h.tool, [prompt |-> h.prompt, class |-> h.class, at |-> h.at])]
      [] h.event \in Completions ->
            LET open == h.tool \in DOMAIN g.pending
                prompt == IF open /\ g.pending[h.tool].prompt # None
                          THEN g.pending[h.tool].prompt ELSE h.prompt
                done == [prompt |-> prompt, class |-> h.class, at |-> h.at]
            IN  [g EXCEPT !.pending = Restrict(@, DOMAIN @ \ {h.tool}),
                          !.completed = Put(@, h.tool, done)]
      [] OTHER -> g

\* A Stop that leaves background work does not fence what it followed.
MutantAfterStop(g, h) ==
    IF h.event # "Stop" THEN g
    ELSE LET ended == IF h.prompt # None THEN h.prompt ELSE g.active
             known == {ended} \ {None}
             freed == [g EXCEPT !.active = None, !.activeAt = 0, !.foreground = FALSE]
         IN  IF h.wake THEN [freed EXCEPT !.background = @ \cup known]
             ELSE ClosePending([freed EXCEPT !.completedAt = h.at, !.retired = @ \cup known],
                               ended, h.at)

AfterStop(g, h) ==
    IF h.event # "Stop" THEN g
    ELSE LET ended == IF h.prompt # None THEN h.prompt ELSE g.active
             known == {ended} \ {None}
             fenced == [g EXCEPT
                 !.completedAt = Max({@, h.at}),
                 !.background = IF h.wake THEN @ \cup known ELSE @,
                 !.anonymous = @ \/ (h.wake /\ known = {}),
                 !.retired = IF h.wake THEN @ ELSE @ \cup known]
             freed == IF h.prompt \in {None, g.active}
                      THEN [fenced EXCEPT !.active = None, !.activeAt = 0, !.foreground = FALSE]
                      ELSE fenced
         IN  IF h.wake THEN freed
             ELSE [ClosePending(freed, ended, h.at) EXCEPT
                      !.anonymous = FALSE, !.background = @ \ known]

\* commitHookEventOrder: a delivery is remembered, and one that said something
\* of the task (`advance`) moves the guard.
Committed(g, h, advance) ==
    LET heard == [g EXCEPT !.delivered = @ \cup {h.at}]
    IN  IF ~advance THEN heard
        ELSE AfterStop(AfterTool(AfterPrompt(AfterSubmit(
                [heard EXCEPT !.fence = FenceAfter(@, h)], h), h), h), h)

-----------------------------------------------------------------------------
\* recordHookUserSubmission: an answer typed at `at` to a wait for `tool`.
Submitted(g, at, tool) ==
    [g EXCEPT !.submittedAt = Max({@, at}),
              !.pending = Restrict(@, DOMAIN @ \ {tool})]

\* recordClaudeInterruptKey: the prompt that an Escape was aimed at.
EscapePressed(g) == [g EXCEPT !.key = <<g.active>>]

\* canApplyClaudeRenderedInterruption: no newer prompt since that Escape.
EscapeIsCurrent(g) == g.key # <<>> /\ g.key[1] = g.active

\* retireInterruptedClaudePrompt: Claude has shown that the Escape ended the turn.
Interrupted(g, at) ==
    LET prompt == IF g.key # <<>> /\ g.key[1] # None THEN g.key[1] ELSE g.active
        closed == ClosePending([g EXCEPT !.key = <<>>], prompt, at)
        retired == [closed EXCEPT !.retired = @ \cup ({prompt} \ {None}), !.awaiting = TRUE]
    IN  IF WakeExpected(g, prompt) THEN closed
        ELSE IF prompt = None \/ g.active = prompt
             THEN [retired EXCEPT !.active = None, !.activeAt = 0, !.foreground = FALSE]
             ELSE retired

\* recordForegroundInterrupt: Ctrl-C closes the foreground that is known.
CtrlCPressed(g, at) ==
    LET tools == {t \in DOMAIN g.pending : g.pending[t].prompt \in {None, g.active}}
    IN  ClosePending(
            [g EXCEPT !.fence = << [scope |-> g.active, at |-> at, tools |-> tools, awaiting |-> TRUE] >>],
            g.active, at)

-----------------------------------------------------------------------------
(* What survives a restart: receipts, compacted one by one.                *)

\* The number of Stops before an index tells the activations of a prompt apart.
ActivationOf(receipts, i) ==
    <<Cardinality({j \in 1 .. i - 1 : receipts[j].event = "Stop"}), receipts[i].prompt>>

\* Behind a definitive Stop, a tool's receipts are dropped except the latest one
\* of each tool and one for each activation of a prompt that nothing else records.
IsKept(receipts, i) ==
    LET Indices == DOMAIN receipts
        Tool(j) == receipts[j].event \in ToolEvents
        fence == Max({0} \cup {receipts[j].at : j \in
                    {k \in Indices : receipts[k].event = "Stop" /\ ~receipts[k].wake}})
        Latest(j) == \A k \in Indices : Tool(k) /\ receipts[k].tool = receipts[j].tool => k <= j
        Droppable(j) == Tool(j) /\ receipts[j].at <= fence /\ ~Latest(j)
        recorded == \E j \in Indices :
                        /\ ActivationOf(receipts, j) = ActivationOf(receipts, i)
                        /\ ~Tool(j) \/ Latest(j) \/ (Droppable(j) /\ j < i)
    IN  Droppable(i) => receipts[i].prompt # None /\ ~recorded

\* compactProviderHookOrderObservations.
Compacted(receipts) ==
    FoldLeftDomain(LAMBDA kept, i : IF IsKept(receipts, i) THEN Append(kept, receipts[i]) ELSE kept,
                   <<>>, receipts)

\* recordProviderHookReceipt.
WithReceipt(receipts, h) ==
    IF \E i \in DOMAIN receipts : receipts[i].at = h.at THEN receipts
    ELSE Compacted(Append(receipts, h))

\* Receipts are replayed through the guard that admitted them.
Replayed(receipts) ==
    FoldLeft(LAMBDA g, h : IF Accepts(g, h) THEN Committed(g, h, TRUE) ELSE g, NewGuard, receipts)

\* restoreHookEventOrderState: the replayed receipts, the saved Ctrl-C fence with
\* the tools it closed, the deliveries known, and the answer a saved wait got.
Restored(receipts, delivered, fence, answeredAt, answeredTool) ==
    LET replayed == [Replayed(receipts) EXCEPT !.delivered = @ \cup delivered]
        Closed(f, t) ==
            IF t \in DOMAIN replayed.pending
            THEN [replayed.pending[t] EXCEPT !.at = Max({@, f.at})]
            ELSE [prompt |-> f.scope, class |-> "", at |-> f.at]
        fenced == IF fence = <<>> THEN replayed
                  ELSE [replayed EXCEPT
                      !.fence = fence,
                      !.pending = Restrict(@, DOMAIN @ \ fence[1].tools),
                      !.completed = Over(@, [t \in fence[1].tools |-> Closed(fence[1], t)])]
    IN  IF answeredAt = 0 THEN fenced ELSE Submitted(fenced, answeredAt, answeredTool)
=============================================================================
