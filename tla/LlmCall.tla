------------------------------- MODULE LlmCall -------------------------------
(***************************************************************************)
(* One llm_call of citra-llm: the token arithmetic of the request, the     *)
(* attempts, the rounds of tool calls inside an attempt, the second try of *)
(* a truncated answer, and the usage that is tracked for billing.          *)
(*                                                                         *)
(* Token counts are small numbers; every answer that carries usage uses    *)
(* one unit, and every round of tools makes the prompt one token longer.   *)
(***************************************************************************)
EXTENDS Integers

CONSTANTS
  Context,      \* MODEL_CONTEXT_WINDOW
  Buffer,       \* the safety buffer under it
  Ceiling,      \* 128_000, the largest max_tokens of a retry
  OutputCaps,   \* the values of _TIER_OUTPUT_CAPS
  InputCap,     \* _TIER_INPUT_CAPS of the tier
  Systems,      \* lengths of system prompts
  Prompts,      \* lengths of user prompts
  Wanted,       \* values of the parameter max_tokens
  Attempts,     \* 3
  ToolRounds    \* max_tool_rounds

VARIABLES
  pc,           \* "request", "answered", "returned" or "raised"
  args,         \* [tools, cap, input, wanted]
  budget,       \* kwargs["max_tokens"]
  grown,        \* tokens that rounds of tools added to the messages
  attempt, round,
  usage,        \* total_..._tokens
  answers,      \* history: answers received
  tracked       \* what _track_usage was given, -1 before

vars == <<pc, args, budget, grown, attempt, round, usage, answers, tracked>>

-----------------------------------------------------------------------------
Smaller(a, b) == IF a < b THEN a ELSE b
Larger(a, b)  == IF a < b THEN b ELSE a

\* The tokens of the input: the system prompt is never cut.  With token_utils
\* (external) the user prompt is cut to what the tier's cap leaves; without it
\* truncate_to_token_limit returns the text as it is.
InputTokens(system, prompt) ==
  {system + prompt, system + Smaller(prompt, Larger(InputCap - system, 0))}

MaxAllowedOutput(input) == Context - input - Buffer

\* _lift_to_ceiling
LiftToCeiling(max, cap, allowed) ==
  LET ceiling == IF allowed > 0 THEN Smaller(cap, allowed) ELSE cap
  IN  IF ceiling > 0 THEN Larger(max, ceiling) ELSE max

\* The max_tokens of the first request.
FirstBudget(wanted, cap, input) ==
  LET allowed == MaxAllowedOutput(input)
      capped  == Smaller(wanted, cap)
      fitted  == IF allowed > 0 THEN Smaller(capped, allowed) ELSE capped
  IN  LiftToCeiling(fitted, cap, allowed)

RetryCeiling(input) ==
  IF MaxAllowedOutput(input) > 0 THEN Smaller(Ceiling, MaxAllowedOutput(input)) ELSE Ceiling

\* The call's own max_tokens: a retry raises only the one in kwargs.
MaxTokens == FirstBudget(args.wanted, args.cap, args.input)

-----------------------------------------------------------------------------
\* Every variable ranges over its declared type.
TypeOK ==
  /\ pc \in {"request", "answered", "returned", "raised"}
  /\ args \in [tools : BOOLEAN, cap : OutputCaps, input : Nat, wanted : Wanted]
  /\ {budget, grown, usage, answers} \subseteq Nat
  /\ attempt \in 1..Attempts /\ round \in 0..ToolRounds
  /\ tracked \in Nat \cup {-1}

Init ==
  /\ pc = "request"
  /\ \E s \in Systems, p \in Prompts :
       args \in [tools : BOOLEAN, cap : OutputCaps, input : InputTokens(s, p), wanted : Wanted]
  /\ budget = MaxTokens
  /\ grown = 0 /\ attempt = 1 /\ round = 0 /\ usage = 0 /\ answers = 0 /\ tracked = -1

\* chat.completions.create returns; the answer is looked at next.
Answered ==
  /\ pc = "request"
  /\ pc' = "answered" /\ answers' = answers + 1
  /\ UNCHANGED <<args, budget, grown, attempt, round, usage, tracked>>

\* It raises a rate limit or a 5xx: the next attempt, with the messages and
\* the totals of this one.
Retry ==
  /\ pc = "request" /\ attempt < Attempts
  /\ attempt' = attempt + 1 /\ round' = 0
  /\ UNCHANGED <<pc, args, budget, grown, usage, answers, tracked>>

\* It raises one of those in the last attempt, or anything else.
GiveUp ==
  /\ pc = "request"
  /\ pc' = "raised"
  /\ UNCHANGED <<args, budget, grown, attempt, round, usage, answers, tracked>>

\* finish_reason "tool_calls": the tools run, and the model is asked again.
ToolRound ==
  /\ pc = "answered" /\ args.tools /\ round < ToolRounds
  /\ usage' = usage + 1
  /\ grown' = grown + 1 /\ round' = round + 1
  /\ pc' = "request"
  /\ UNCHANGED <<args, budget, attempt, answers, tracked>>

\* Mutant: the tokens of the truncated answer are not added up.
TruncatedUnbilled ==
  /\ pc = "answered" /\ attempt < Attempts /\ MaxTokens < RetryCeiling(args.input)
  /\ budget' = Smaller(MaxTokens * 2, RetryCeiling(args.input))
  /\ attempt' = attempt + 1 /\ round' = 0
  /\ pc' = "request"
  /\ UNCHANGED <<args, grown, usage, answers, tracked>>

\* finish_reason "length" with little to show: asked again with a doubled
\* max_tokens.
Truncated ==
  /\ pc = "answered" /\ attempt < Attempts /\ MaxTokens < RetryCeiling(args.input)
  /\ budget' = Smaller(MaxTokens * 2, RetryCeiling(args.input))
  /\ usage' = usage + 1
  /\ attempt' = attempt + 1 /\ round' = 0
  /\ pc' = "request"
  /\ UNCHANGED <<args, grown, answers, tracked>>

\* Any other answer is returned, also the truncated one that is not retried
\* and the one that still asks for tools after the last round.
Return ==
  /\ pc = "answered"
  /\ usage' = usage + 1 /\ tracked' = usage + 1
  /\ pc' = "returned"
  /\ UNCHANGED <<args, budget, grown, attempt, round, answers>>

Next == Answered \/ Retry \/ GiveUp \/ ToolRound \/ Truncated \/ Return

Spec == Init /\ [][Next]_vars

-----------------------------------------------------------------------------
\* A call that returns has tracked every answer that any of its attempts and
\* rounds received, the discarded ones too (llm_call, _track_usage).  Nothing
\* is said of a call that raises, see RaisedIsBilled.
TrackedInFull == pc = "returned" => tracked = answers

\* Where the prompt leaves room at all, every request of a call without
\* tools, a retry of a truncated answer too, fits the context window
\* (llm_call, _lift_to_ceiling).
RequestFits ==
  MaxAllowedOutput(args.input) > 0 /\ ~args.tools =>
    args.input + budget + Buffer <= Context

\* What an llm_call promises.
LlmSound == TypeOK /\ TrackedInFull /\ RequestFits

-----------------------------------------------------------------------------
\* oss.py: "Centralized module [...] Handles authentication, token usage
\* tracking (billing), function calling": the answers of a call that raises
\* after a round of tools or a truncated answer are tracked too.
RaisedIsBilled == pc = "raised" => answers = 0 \/ tracked = answers

\* oss.py: "Some providers / subscription tiers reject any request whose
\* max_tokens exceeds the model's allowed output.  These caps are applied
\* AFTER the global MAX_OUTPUT_TOKENS".
TierCapHolds == budget <= args.cap

\* oss.py: "Cap max_tokens so prompt + output fits within model context
\* window", with what the rounds of tools add to the prompt.
GrownRequestFits ==
  MaxAllowedOutput(args.input) > 0 => args.input + grown + budget <= Context
=============================================================================
