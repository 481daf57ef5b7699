----------------------------- MODULE AgentChain -----------------------------
(***************************************************************************)
(* core/runtime.Runner.Run: a request names a chain of agents; they are    *)
(* dispatched in turn until one succeeds or fails for good.  An agent that *)
(* is cooling down is passed over.  Around it, what a plan's execution     *)
(* makes of its Runner: story iterations with a turn cap, then review and  *)
(* fix iterations without one; a failed call ends the plan's execution,    *)
(* unless all its work was done before the agent crashed, and every        *)
(* execution gets a Runner of its own.                                     *)
(***************************************************************************)
EXTENDS AgentAdapters, Sequences, FiniteSets

CONSTANTS Lists,    \* the agent lists a request may carry, as configured
          Stories   \* how many stories a plan has

Registered == {"claude", "codex", "gemini", "opencode"}

ASSUME ListsAssumption ==
  /\ Lists \subseteq Seq(STRING) /\ Stories \in Nat \ {0}

VARIABLES
  cool,    \* Runner.cooldowns: the hours an agent is still left alone
  plan,    \* the plan: stories to pass, whether its worktree has moved past its
           \* base and holds a .springfield directory, whether its run is over
  call,    \* the request at work: its kind, its chain, whose turn it is, and
           \* whether its agents have committed anything
  last,    \* the last dispatch of the call, as the runner and the plan judge it
  answer   \* what the last call returned

chainVars == <<cool, plan, call, last, answer>>

Kinds    == {"story", "fix", "review"}
Idle     == [kind |-> "idle", chain |-> <<>>, at |-> 1, commits |-> FALSE]
Nobody   == [agent |-> "", class |-> "none", work |-> "none", passes |-> FALSE,
             completes |-> FALSE, thrash |-> FALSE, empty |-> FALSE]
NoAnswer == [status |-> "none", agent |-> "", kind |-> "idle", chain |-> <<>>]
NewPlan  == [left |-> Stories, advanced |-> FALSE, dir |-> FALSE, over |-> FALSE]

ChainInit ==
  /\ cool = [a \in Registered |-> 0]
  /\ plan = NewPlan
  /\ call = Idle /\ last = Nobody /\ answer = NoAnswer

\* The first mention of every agent, in order.
FirstMentions(ids) ==
  {i \in DOMAIN ids : ids[i] # "" /\ \A j \in 1 .. i - 1 : ids[j] # ids[i]}
NormalizeAgentIDs(ids) ==
  [n \in 1 .. Cardinality(FirstMentions(ids)) |->
     ids[CHOOSE i \in FirstMentions(ids) :
           Cardinality({j \in FirstMentions(ids) : j <= i}) = n]]

Working == call.at <= Len(call.chain)
Turn    == call.chain[call.at]
Cooling(a) == a \in Registered /\ cool[a] > 0

Returns(status, agent) ==
  /\ answer' = [status |-> status, agent |-> agent, kind |-> call.kind, chain |-> call.chain]
  /\ call' = Idle

-----------------------------------------------------------------------------
(* The steps of one call.                                                  *)

\* Stories are dispatched while any is left; the gates follow.
Call == /\ call = Idle /\ ~plan.over
        /\ \E kind \in Kinds, ids \in Lists :
             /\ kind = "story" <=> plan.left > 0
             /\ call' = [Idle EXCEPT !.kind = kind, !.chain = NormalizeAgentIDs(ids)]
        /\ last' = Nobody /\ answer' = NoAnswer
        /\ UNCHANGED <<cool, plan>>

Skip == /\ Working /\ Cooling(Turn)
        /\ call' = [call EXCEPT !.at = @ + 1]
        /\ UNCHANGED <<cool, plan, last, answer>>

\* An agent no adapter is registered for, or whose guard files cannot be written,
\* ends the call; so does gemini in a worktree without the directory of its own.
Refuse == /\ Working /\ ~Cooling(Turn)
          /\ Turn \notin Registered \/ Turn \in {"gemini", "opencode"}
          /\ Returns("failed", Turn)
          /\ plan' = [plan EXCEPT !.over = TRUE]
          /\ UNCHANGED <<cool, last>>

CanCommand(a) == a \in Registered /\ (a = "gemini" => plan.dir)

\* The plan's own check of a run: the last story passes with COMPLETE, or the target
\* story passes and the worktree's head is not the plan's base.
Completes(markers) == markers = {"story-pass", "COMPLETE"} /\ plan.left = 1
WorkComplete(markers, advanced) ==
  Completes(markers) \/ ("story-pass" \in markers /\ advanced)

\* Mutant: the transcript is validated before the turns are counted.
Fault_ValidFirst(a, o, kind, honored) ==
  CASE ~Clean(o) -> o.end.err
    [] Clean(o) /\ ~Valid(a, o.said, kind = "review") -> "invalid"
    [] OTHER -> IF kind = "story" /\ o.said.over /\ ~honored THEN "turncap" ELSE "none"

\* Mutant: work the plan calls complete is not validated.
Fault_HonoredIsValid(a, o, kind, honored) ==
  CASE ~Clean(o) -> o.end.err
    [] Clean(o) /\ kind = "story" /\ o.said.over /\ ~honored -> "turncap"
    [] OTHER -> IF Valid(a, o.said, kind = "review" \/ honored) THEN "none" ELSE "invalid"

\* The error of a dispatch: the process's, then the turn cap's, then the adapter's.
Fault(a, o, kind, honored) ==
  CASE ~Clean(o) -> o.end.err
    [] Clean(o) /\ kind = "story" /\ o.said.over /\ ~honored -> "turncap"
    [] OTHER -> IF Valid(a, o.said, kind = "review") THEN "none" ELSE "invalid"

Class(a, o, fault) ==
  IF fault = "none" THEN "passed"
  ELSE IF Retryable(a, o.said, o.end.exit, fault) THEN "retryable" ELSE "fatal"

\* How a dispatch of a can end, as the runner judges it: its class, the cooldown that
\* its words ask for, and what the properties tell apart.
Fates == [a \in Registered |-> [kind \in Kinds |-> [honored \in BOOLEAN |->
            {LET class == Class(a, o, Fault(a, o, kind, honored)) IN
             [class |-> class, started |-> o.end \in Exits,
              hours |-> IF class = "retryable" /\ a \in Cooldowner
                        THEN CooldownAfter(o.said) ELSE 0,
              work |-> o.said.work, over |-> kind = "story" /\ Clean(o) /\ o.said.over]
             : o \in Outcomes(a)}]]]

\* Mutant: a success forgives every agent.
Cooled_ClearsAll(a, fate) ==
  CASE fate.class = "passed" -> [b \in Registered |-> 0]
    [] fate.class = "retryable" /\ a \in Cooldowner -> [cool EXCEPT ![a] = fate.hours]
    [] OTHER -> cool

\* A success forgives the agent; a retryable failure cools an agent that knows how.
Cooled(a, fate) ==
  CASE fate.class = "passed" -> [cool EXCEPT ![a] = 0]
    [] fate.class = "retryable" /\ a \in Cooldowner -> [cool EXCEPT ![a] = fate.hours]
    [] OTHER -> cool

\* opencode creates the directory its guard files go to.
Dispatch ==
  /\ Working /\ ~Cooling(Turn) /\ CanCommand(Turn)
  /\ \E commits \in BOOLEAN, markers \in SUBSET {"story-pass", "COMPLETE"} :
       LET advanced == plan.advanced \/ commits
           honored  == WorkComplete(markers, advanced)
       IN \E fate \in Fates[Turn][call.kind][honored] :
           /\ markers # {} \/ commits => fate.started /\ call.kind = "story"
           /\ cool' = Cooled(Turn, fate)
           /\ plan' = [plan EXCEPT !.advanced = advanced, !.dir = @ \/ Turn = "opencode"]
           /\ call' = [call EXCEPT
                         !.at = IF fate.class = "retryable" THEN @ + 1
                                ELSE Len(call.chain) + 1,
                         !.commits = @ \/ commits]
           /\ last' = [agent  |-> Turn, class |-> fate.class, work |-> fate.work,
                       passes |-> "story-pass" \in markers,
                       completes |-> Completes(markers),
                       thrash |-> fate.over /\ ~honored,
                       empty  |-> fate.over /\ ~Completes(markers) /\ ~call'.commits]
  /\ UNCHANGED answer

\* The chain is used up: the last dispatch is the answer, and without one the call
\* has failed.  Either way a story the transcript passes is marked.  A failure ends the
\* run of the plan, unless it only crashed after the work: COMPLETE on the last story,
\* in a worktree that has moved.
Return == /\ call # Idle /\ ~Working
          /\ Returns(IF last.class = "passed" THEN "passed" ELSE "failed", last.agent)
          /\ plan' = [plan EXCEPT !.left = IF last.passes THEN @ - 1 ELSE @,
                                  !.over = /\ last.class # "passed"
                                          /\ ~(last.completes /\ plan.advanced)]
          /\ UNCHANGED <<cool, last>>

-----------------------------------------------------------------------------
(* Around the calls.                                                       *)

Hour(cs) == [a \in Registered |-> IF cs[a] = 0 THEN 0 ELSE cs[a] - 1]

HourPasses ==
  /\ \E a \in Registered : Cooling(a)
  /\ cool' = Hour(cool)
  /\ UNCHANGED <<plan, call, last, answer>>

\* The gates are through.
Finish == /\ call = Idle /\ plan.left = 0 /\ ~plan.over
          /\ plan' = [plan EXCEPT !.over = TRUE]
          /\ UNCHANGED <<cool, call, last, answer>>

\* The next start runs the plan again, or another, with a Runner that has forgotten
\* every cooldown.
NextStart ==
  /\ call = Idle /\ plan.over
  /\ plan' \in {NewPlan, [plan EXCEPT !.over = FALSE]}
  /\ cool' = [a \in Registered |-> 0]
  /\ last' = Nobody /\ answer' = NoAnswer
  /\ UNCHANGED call

InCall    == Skip \/ Refuse \/ Dispatch \/ Return
ChainNext == Call \/ InCall \/ HourPasses \/ Finish \/ NextStart

ChainSpec     == ChainInit /\ [][ChainNext]_chainVars
\* An agent's process ends in the end, whatever its outcome.
FairChainSpec == ChainSpec /\ WF_chainVars(InCall)

-----------------------------------------------------------------------------
\* The state has its type, and no reset an agent names cools it beyond the cap.
ChainTypeOK ==
  /\ cool \in [Registered -> 0 .. MaxCooldown]
  /\ plan \in [left : 0 .. Stories, advanced : BOOLEAN, dir : BOOLEAN, over : BOOLEAN]
  /\ call.kind \in Kinds \cup {"idle"} /\ call.at \in 1 .. Len(call.chain) + 1
  /\ answer.status \in {"none", "passed", "failed"}

\* A call that succeeds has seen the tool result it rests on: an implementer's claude
\* or gemini a result paired with its call, codex and opencode a completed item; a
\* cooldown, an empty chain, a marker or a COMPLETE alone is never a success.
SuccessIsWork ==
  answer.status = "passed" =>
    /\ answer.agent = last.agent /\ last.class = "passed"
    /\ answer.kind # "review" =>
         last.work \in IF answer.agent \in {"claude", "gemini"} THEN {"done"}
                       ELSE {"stray", "done"}

\* A run that only burned turns never ends a chain that has another agent to offer:
\* when the call fails on it, it was the last of the chain.
ThrashFallsThrough ==
  answer.status = "failed" /\ last.thrash /\ answer.agent = last.agent =>
    answer.agent = answer.chain[Len(answer.chain)]

\* Within one run of a plan only the clock shortens a cooldown: no dispatch of another
\* agent and no result does.
CooldownIsServed ==
  [][(\E a \in Registered : cool'[a] < cool[a]) => plan.over \/ cool' = Hour(cool)]_chainVars

\* What runner.go:1369-1371 says of the turn cap: a marker without a commit cannot
\* defuse it.  An over-cap run that passes has finished the plan, or its call has
\* committed something.
MarkerNeedsCommit == last.class = "passed" => ~last.empty
=============================================================================
