------------------------- MODULE SessionStateMachine -------------------------
(***************************************************************************)
(* What the hooks of a Claude launch make of the session that the board     *)
(* shows (src/terminal/session-state-machine.ts): a pure reducer from a     *)
(* session and an event to the next session.                                *)
(*                                                                         *)
(* A session is Running or in Review for a reason, may hold one wait for    *)
(* the user (a sequence of at most one), knows whether native work was seen *)
(* since it was last told to run, whether its process lives, and whether    *)
(* recovery is owed or an answer was lost with the process.  Subagents,     *)
(* elicitations, plan approvals, the other providers, structured owners and *)
(* the migration of older session files are left out.                       *)
(***************************************************************************)
EXTENDS HookEventOrder

Launched ==
    [state |-> "running", reason |-> "", wait |-> <<>>, evidence |-> FALSE,
     live |-> TRUE, recovery |-> FALSE, lost |-> FALSE, clean |-> FALSE]

\* getInteractionKind: the wait that an event opens, "" for none.
InteractionKind(h) ==
    IF ~OpensInteraction(h) THEN ""
    ELSE IF h.class = "question" THEN "question" ELSE "permission"

\* deriveTaskIndicatorState: the user is being asked.
NeedsInput(s) == s.wait # <<>> /\ s.wait[1].status = "waiting"

\* buildOutstandingInteraction, with the tool that the guard correlated.
Opened(h, tool) ==
    [kind |-> InteractionKind(h), status |-> "waiting", prompt |-> h.prompt,
     tool |-> IF tool # None THEN tool ELSE h.tool,
     openedAt |-> h.at, updatedAt |-> h.at, submittedAt |-> 0]

Conflicts(a, b) == a # None /\ b # None /\ a # b

-----------------------------------------------------------------------------
\* isSameInteraction: a request that repeats the wait already shown.
SameInteraction(w, next) ==
    /\ w.kind = next.kind
    /\ ~Conflicts(w.prompt, next.prompt) /\ ~Conflicts(w.tool, next.tool)
    /\ (w.status = "response_submitted" /\ next.openedAt > w.submittedAt)
          => (w.tool # None /\ w.tool = next.tool)
    /\ \/ {w.prompt, next.prompt, w.tool, next.tool} # {None}
       \/ w.openedAt = next.openedAt

Refreshed(w, next) ==
    [w EXCEPT !.updatedAt = Max({@, next.updatedAt}),
              !.tool = IF @ # None THEN @ ELSE next.tool,
              !.prompt = IF @ # None THEN @ ELSE next.prompt]

\* interactionEventIsCurrent: the event can be about this wait.
IsCurrent(w, h) ==
    /\ h.at >= w.openedAt
    /\ w.status = "response_submitted" => h.at >= w.submittedAt
    /\ ~Conflicts(w.prompt, h.prompt)

\* providerEventFollowsInteractionInSameSession.
Follows(w, h) == h.at > w.updatedAt

\* The end of any tool of the prompt ends the wait.
MutantResolves(w, h) ==
    /\ IsCurrent(w, h)
    /\ h.event = "UserPromptSubmit" \/ h.event \in ToolEnds

\* matchesInteractionResolution: the prompt moved on, or the tool that was
\* waited for, known by its identity, is done.
Resolves(w, h) ==
    /\ IsCurrent(w, h)
    /\ \/ h.event = "UserPromptSubmit"
       \/ h.event \in ToolEnds /\ w.tool # None /\ h.tool = w.tool

\* matchesPermissionDenied.
Denies(w, h) ==
    h.event = "PermissionDenied" /\ IsCurrent(w, h) /\ h.tool # None /\ h.tool = w.tool

\* providerWorkResumedAfterPendingInteraction: only the start of another tool
\* shows that Claude got past an answered wait.
WorkResumed(w, h) ==
    /\ w.status = "response_submitted" /\ IsCurrent(w, h) /\ Follows(w, h)
    /\ h.event = "PreToolUse" /\ h.tool # w.tool

\* providerLifecycleSupersedesInteraction: a later prompt took the foreground.
LaterPrompt(w, h) ==
    /\ Follows(w, h)
    /\ \/ h.event = "UserPromptSubmit"
       \/ h.event \in ToolEvents /\ Conflicts(w.prompt, h.prompt)

\* A Stop ends a wait of its own scope, or one that it certainly follows.
CompletesWait(w, h) ==
    /\ h.event = "Stop"
    /\ \/ /\ IsCurrent(w, h)
          /\ w.prompt # None => h.prompt = w.prompt
          /\ w.prompt # None \/ w.status = "response_submitted"
       \/ Follows(w, h)

\* getDelayedClaudePermissionToolUseId: the tool start that a permission
\* request was about, delivered after it.
NamesTool(w, h) ==
    /\ h.event = "PreToolUse" /\ w.kind = "permission" /\ w.tool = None
    /\ h.at <= w.openedAt /\ ~Conflicts(w.prompt, h.prompt) /\ h.class = "tool"

-----------------------------------------------------------------------------
(* Results: the next session, and whether the event may move the guard.    *)
Result(s, observed) == [session |-> s, observed |-> observed]

\* asExitedUnknownInteractionResult: nobody can answer a dead process.
Unknowable(s) ==
    [s EXCEPT !.state = "review", !.reason = "error", !.live = FALSE, !.evidence = FALSE,
              !.wait = [i \in DOMAIN @ |-> [@[i] EXCEPT !.status = "resolution_unknown"]],
              !.recovery = FALSE, !.lost = TRUE]

\* A wait that a delivery shows for a process that may be gone.
ShownWait(s, w, context) ==
    LET waiting == [s EXCEPT !.wait = <<w>>]
    IN  CASE context = "exited" -> Unknowable(waiting)
          [] context = "startup" -> [waiting EXCEPT !.live = FALSE, !.recovery = TRUE]
          [] context = "live" -> waiting

\* Running keeps the wait that it ended.
MutantWorking(s, context) ==
    IF context = "live" THEN [s EXCEPT !.state = "running", !.reason = "", !.evidence = TRUE]
    ELSE [s EXCEPT !.state = "review", !.reason = "error", !.wait = <<>>, !.evidence = FALSE, !.live = FALSE]

\* asConfirmedProviderWorkResult, and the to_in_progress branch: work was seen.
Working(s, context) ==
    LET ended == [s EXCEPT !.state = "review", !.wait = <<>>, !.evidence = FALSE, !.live = FALSE]
    IN  CASE context = "live" ->
                [s EXCEPT !.state = "running", !.reason = "", !.wait = <<>>, !.evidence = TRUE]
          [] context = "startup" -> [ended EXCEPT !.reason = "interrupted", !.recovery = TRUE]
          [] context = "exited" ->
                [ended EXCEPT !.reason = IF s.clean THEN "exit" ELSE "error",
                              !.recovery = FALSE, !.lost = FALSE]

\* A root completion: ordinary Review, whatever became of the process.
Reviewed(s, context, settlesLoss) ==
    LET done == [s EXCEPT !.state = "review", !.reason = "hook", !.wait = <<>>, !.evidence = FALSE]
    IN  IF context = "live" THEN done
        ELSE [done EXCEPT !.live = FALSE, !.recovery = FALSE, !.lost = @ /\ ~settlesLoss]

\* canReturnReviewToRunning, for the reasons that hooks of a launch can leave.
CanReturn(s, context) ==
    s.state = "review" /\ (s.reason = "interrupted" => context = "live")

\* reduceProviderHook while a wait is outstanding: identity decides what may
\* end it; parallel activity only advances the guard.
ReduceDuringWait(s, h, context) ==
    LET w == s.wait[1]
    IN  CASE NamesTool(w, h) -> Result([s EXCEPT !.wait[1].tool = h.tool], TRUE)
          [] ~NamesTool(w, h) /\ (Resolves(w, h) \/ WorkResumed(w, h) \/ LaterPrompt(w, h)) ->
                Result(Working(s, context), TRUE)
          [] Denies(w, h) ->
                Result(ShownWait(s, [w EXCEPT !.status = "response_submitted", !.updatedAt = h.at,
                                              !.submittedAt = IF @ # 0 THEN @ ELSE h.at], context), TRUE)
          [] CompletesWait(w, h) -> Result(Reviewed(s, context, TRUE), TRUE)
          [] OTHER -> Result(s, h.event \in ToolEvents \cup Completions)

\* reduceProviderHook with nothing to wait for.
ReduceWithoutWait(s, h, context) ==
    CASE h.event = "PreToolUse" ->
            Result(IF s.state = "running" \/ CanReturn(s, context) THEN Working(s, context) ELSE s, TRUE)
      [] h.event = "Stop" ->
            Result(IF s.state = "running" \/ s.reason \in {"interrupted", "unconfirmed"}
                   THEN Reviewed(s, context, FALSE) ELSE s, TRUE)
      [] h.event \in {"UserPromptSubmit", "PostToolUse"} -> Result(Working(s, context), TRUE)
      [] OTHER -> Result(s, TRUE)

\* reduceProviderHook.  `context` is the standing of the process: live, gone
\* with this runtime's knowledge, found at a startup, or not to be trusted.
Reduce(s, h, tool, context) ==
    IF context = "unconfirmed" THEN Result(s, FALSE)
    ELSE IF InteractionKind(h) # ""
    THEN LET next == Opened(h, tool)
             w == IF s.wait # <<>> /\ SameInteraction(s.wait[1], next)
                  THEN Refreshed(s.wait[1], next) ELSE next
             asked == [s EXCEPT !.state = "review", !.evidence = FALSE,
                                !.reason = IF next.kind = "permission" THEN "hook" ELSE "attention"]
         IN  Result(ShownWait(asked, w, context), TRUE)
    ELSE IF s.wait # <<>> THEN ReduceDuringWait(s, h, context)
    ELSE ReduceWithoutWait(s, h, context)

-----------------------------------------------------------------------------
\* interaction.response_submitted.
Answered(s, at) ==
    IF s.state = "review" /\ NeedsInput(s)
    THEN [s EXCEPT !.wait[1] = [@ EXCEPT !.status = "response_submitted", !.updatedAt = at, !.submittedAt = at]]
    ELSE s

\* The review that agent.rendered-turn-interrupted and interrupt.recovery leave.
Cut(s) ==
    [s EXCEPT !.state = "review", !.reason = "interrupted", !.wait = <<>>, !.evidence = FALSE]

\* canApplyClaudeRenderedTurnInterruption.
MayRenderInterruption(s) ==
    \/ s.state = "running"
    \/ /\ s.state = "review" /\ s.wait # <<>> /\ s.wait[1].kind = "permission"
       /\ s.wait[1].status \in {"waiting", "response_submitted"}

\* launch.confirmation_timeout: the launch never showed that it works.
MayTimeOut(s) == s.state = "running" /\ ~s.evidence /\ s.wait = <<>> /\ s.live

\* process.exit; `interrupted` when a Ctrl-C was pending, `worked` when the
\* launch had shown native work.
Exited(s, clean, interrupted, worked) ==
    LET gone == [s EXCEPT !.live = FALSE, !.evidence = FALSE, !.clean = clean]
        ended == IF interrupted THEN "interrupted" ELSE IF clean /\ worked THEN "exit" ELSE "error"
    IN  CASE s.state = "running" -> [gone EXCEPT !.state = "review", !.reason = ended, !.wait = <<>>]
          [] s.state = "review" /\ s.wait # <<>> /\ interrupted /\ s.recovery -> gone
          [] s.state = "review" /\ s.wait # <<>> /\ interrupted /\ ~s.recovery ->
                [gone EXCEPT !.reason = "interrupted", !.wait = <<>>]
          [] s.state = "review" /\ s.wait # <<>> /\ ~interrupted ->
                [gone EXCEPT !.reason = "error", !.lost = TRUE,
                             !.wait[1].status = "resolution_unknown"]
          [] s.state = "review" /\ s.wait = <<>> /\ s.reason = "unconfirmed" ->
                [gone EXCEPT !.reason = ended]
          [] OTHER -> gone

\* deriveStartupRecoveryPolicy for a review: a wait that can still be answered,
\* or a completed turn whose process was alive, is restored.
RecoveryRequired(s) ==
    LET answerable == s.wait # <<>> /\ s.wait[1].status \in {"waiting", "response_submitted"}
    IN  IF s.reason = "attention" THEN answerable
        ELSE s.recovery \/ (s.reason = "hook" /\ (s.live \/ answerable))

\* hydrateSessionEntries: a running session lost its process with the runtime;
\* Review keeps its meaning.  Work evidence is never carried over.
Hydrated(s) ==
    LET found == [s EXCEPT !.live = FALSE, !.evidence = FALSE]
    IN  IF s.state = "running" \/ s.reason = "unconfirmed"
        THEN [found EXCEPT !.state = "review", !.reason = "interrupted", !.wait = <<>>, !.recovery = TRUE]
        ELSE [found EXCEPT !.recovery = RecoveryRequired(s)]
=============================================================================
