--------------------------- MODULE AgentAdapters ---------------------------
(***************************************************************************)
(* What the four adapters of internal/core/agents make of a dispatch:      *)
(* whether a clean exit is work done (ValidateResult), whether a failure   *)
(* lets the next agent try (ClassifyError), and how long claude is then    *)
(* left alone (Cooldown).                                                  *)
(*                                                                         *)
(* A transcript is what the adapters can tell apart in it:                 *)
(*   work    the best thing a tool did: nothing, it was called, a result   *)
(*           without error whose call is not in the transcript, a result   *)
(*           without error of a call that is                               *)
(*   finish  the stream's own terminal success event                       *)
(*   over    that event reports more turns than the cap                    *)
(*   signal  a structured rate-limit or API error event on stdout, and the *)
(*           hours until the reset it names                                *)
(*   chat    the model's own text speaks of limits or errors               *)
(*   stderr  quiet, a line the needle lists know, or a FATAL line          *)
(*   until   the hours until the reset a line about a limit names, in the  *)
(*           agent's diagnostics or in what its tools printed              *)
(* Hours are counted from the end of the dispatch; 0 is a time gone by.    *)
(***************************************************************************)
EXTENDS Integers

CONSTANTS DefaultCooldown,   \* hours, where a failure names no reset
          MaxCooldown        \* hours, the cap on a reset a failure names

ASSUME CooldownAssumption ==
  /\ DefaultCooldown \in Nat \ {0} /\ MaxCooldown \in Nat
  /\ DefaultCooldown <= MaxCooldown

Absent == -2           \* no such line
NoTime == -1           \* a line that names no reset
Far    == MaxCooldown + 1

Nothing == [work |-> "none", finish |-> FALSE, over |-> FALSE, signal |-> Absent,
            chat |-> FALSE, stderr |-> "quiet", until |-> NoTime]

\* An epoch may have gone by or lie days ahead; a clock time such as "resets 3pm"
\* is its next occurrence, a dated one its next year's.
EpochReset == {0, 1, Far}
ClockReset == 1 .. MaxCooldown
DatedReset == {1, Far}
TextReset  == EpochReset \cup ClockReset \cup DatedReset

\* What each agent's stream can carry.
Transcripts(a) ==
  {t \in [work   : {"none", "called", "stray", "done"},
          finish : BOOLEAN,
          over   : IF a = "claude" THEN BOOLEAN ELSE {FALSE},
          signal : CASE a = "claude" -> {Absent, NoTime} \cup EpochReset
                     [] a = "opencode" -> {Absent, NoTime}
                     [] OTHER -> {Absent},
          chat   : IF a = "gemini" THEN BOOLEAN ELSE {FALSE},
          stderr : {"quiet", "trouble"} \cup IF a = "codex" THEN {"fatal"} ELSE {},
          until  : IF a = "claude" THEN {NoTime} \cup TextReset ELSE {NoTime}] :
     t.over => t.finish}

\* What exec.Run returns beside the events.
Exits == {[exit |-> 0, err |-> "none"], [exit |-> 0, err |-> "deadline"],
          [exit |-> 1, err |-> "exit"], [exit |-> 1, err |-> "deadline"],
          [exit |-> -1, err |-> "exit"], [exit |-> -1, err |-> "deadline"]}
NotStarted == {[exit |-> -1, err |-> e] : e \in {"missing", "start"}}

Outcomes(a) == [end : Exits, said : Transcripts(a)]
               \cup [end : NotStarted, said : {Nothing}]

Clean(o) == o.end = [exit |-> 0, err |-> "none"]

-----------------------------------------------------------------------------
(* ValidateResult of a dispatch that exited with code 0.  A reviewer need  *)
(* not use a tool.                                                         *)

\* A result counts when its call is in the transcript.
ClaudeValid(t, reviewer) == t.work = "done" \/ (reviewer /\ t.finish)

\* Only completed items are read, and a FATAL line overrides them.
CodexValid(t, reviewer) ==
  /\ t.stderr # "fatal"
  /\ t.work \in {"stray", "done"} \/ reviewer

GeminiValid(t, reviewer) == t.work = "done" \/ reviewer

\* A call and its result are one event.
OpenCodeValid(t, reviewer) == t.work \in {"stray", "done"} \/ reviewer

Valid(a, t, reviewer) ==
  CASE a = "claude"   -> ClaudeValid(t, reviewer)
    [] a = "codex"    -> CodexValid(t, reviewer)
    [] a = "gemini"   -> GeminiValid(t, reviewer)
    [] a = "opencode" -> OpenCodeValid(t, reviewer)

-----------------------------------------------------------------------------
(* ClassifyError, where fault is the error of the run: the process's, or   *)
(* "turncap" or "invalid" from the runner's own checks.                    *)

\* claude's structured events are looked for on stdout, its needles on stderr;
\* a clean exit is fatal only when neither is found.
ClaudeRetryable(t, exit, fault) ==
  \/ fault \in {"missing", "turncap"}
  \/ t.signal # Absent
  \/ t.stderr = "trouble"

CodexRetryable(t, exit, fault) ==
  /\ exit # 0
  /\ fault = "missing" \/ t.stderr = "trouble"

\* gemini's message events are searched too, whoever the words are about.
GeminiRetryable(t, exit, fault) ==
  /\ exit # 0
  /\ fault = "missing" \/ t.stderr = "trouble" \/ t.chat

\* opencode reports its failures as error events on stdout.
OpenCodeRetryable(t, exit, fault) ==
  /\ exit # 0
  /\ fault = "missing" \/ t.stderr = "trouble" \/ t.signal # Absent

Retryable(a, t, exit, fault) ==
  CASE a = "claude"   -> ClaudeRetryable(t, exit, fault)
    [] a = "codex"    -> CodexRetryable(t, exit, fault)
    [] a = "gemini"   -> GeminiRetryable(t, exit, fault)
    [] a = "opencode" -> OpenCodeRetryable(t, exit, fault)

-----------------------------------------------------------------------------
(* Cooldown: claude alone.                                                 *)

Cooldowner == {"claude"}

\* A reset gone by counts as none; one too far ahead is capped.
CapReset(hours) == IF hours > MaxCooldown THEN MaxCooldown ELSE hours

\* The structured event is believed first, even where the time it names is past.
ParseCooldown(t) ==
  IF t.signal >= 0 THEN CapReset(t.signal)
  ELSE IF t.until >= 0 THEN CapReset(t.until)
  ELSE 0

CooldownAfter(t) == IF ParseCooldown(t) = 0 THEN DefaultCooldown ELSE ParseCooldown(t)
=============================================================================
