------------------------------- MODULE TokenBudget -------------------------------
(***************************************************************************)
(* converters/request.py, _compute_upstream_max_tokens: how many tokens a  *)
(* converted request asks the upstream for.  Visible text and reasoning    *)
(* share them, and with the input they share the upstream's context.       *)
(***************************************************************************)
EXTENDS Integers

CONSTANT Profiles       \* the ModelProfiles

NoCap == -1         \* max_tokens_param_cap is None

ASSUME ProfilesAssumption == Profiles \subseteq
    [context : Nat, buffer : Nat, floor : Nat, margin : Nat, cap : Nat \union {NoCap}]

Least(m, n) == IF m <= n THEN m ELSE n
Greatest(m, n) == IF m >= n THEN m ELSE n

(* About three characters to a token. *)
InputTokens(chars) == chars \div 3

Desired(p, asked) == asked + p.buffer

(* Mistakes: no floor; the context is ignored; no room for reasoning; the  *)
(* cap is applied before the floor.                                        *)
WithoutFloor(p, chars, asked) ==
    Least(Desired(p, asked), p.context - InputTokens(chars) - p.margin)
WithoutContext(p, chars, asked) ==
    LET wanted == Greatest(p.floor, Desired(p, asked))
    IN  IF p.cap = NoCap THEN wanted ELSE Least(wanted, p.cap)
WithoutBuffer(p, chars, asked) ==
    LET budget == p.context - InputTokens(chars) - p.margin
        wanted == Greatest(p.floor, Least(asked, budget))
    IN  IF p.cap = NoCap THEN wanted ELSE Least(wanted, p.cap)
CapBeforeFloor(p, chars, asked) ==
    LET budget == p.context - InputTokens(chars) - p.margin
        capped == IF p.cap = NoCap THEN Desired(p, asked) ELSE Least(Desired(p, asked), p.cap)
    IN  Greatest(p.floor, Least(capped, budget))

UpstreamMaxTokens(p, chars, asked) ==
    LET budget == p.context - InputTokens(chars) - p.margin
        wanted == Greatest(p.floor, Least(Desired(p, asked), budget))
    IN  IF p.cap = NoCap THEN wanted ELSE Least(wanted, p.cap)
-----------------------------------------------------------------------------
VARIABLES
    profile,        \* that of the request's model
    asked,          \* the client's max_tokens, 0 for none
    chars,          \* the size of what goes upstream with the request
    granted         \* the max_tokens that goes with it

budget == <<profile, asked, chars, granted>>
Pending == -1

BudgetInit ==
    /\ profile \in Profiles /\ asked \in Nat
    /\ chars = Pending /\ granted = Pending

Compute ==
    /\ granted = Pending
    /\ chars' \in Nat
    /\ granted' = UpstreamMaxTokens(profile, chars', asked)
    /\ UNCHANGED <<profile, asked>>

BudgetSpec == BudgetInit /\ [][Compute]_budget
-----------------------------------------------------------------------------
(* Properties *)

TypeOK ==
    /\ profile \in Profiles /\ asked \in Nat
    /\ chars \in Nat \union {Pending} /\ granted \in Nat \union {Pending}
    /\ granted # Pending => chars # Pending

Uncapped(n) == profile.cap = NoCap \/ n <= profile.cap
Fits(n) == InputTokens(chars) + n + profile.margin <= profile.context

(* Input and output share the context (request.py:159-160): the tokens     *)
(* granted fit beside the input whenever the model's floor does.           *)
FitsWhenFloorFits == granted # Pending /\ Fits(profile.floor) => Fits(granted)

(* Reasoning and text share the output (request.py:157-158): nothing is    *)
(* held back.  Less than the client's max_tokens and the room to think is  *)
(* granted only if one token more would not fit or would be refused, and   *)
(* less than the floor only if the floor would be refused.                 *)
NothingWithheld == granted # Pending =>
    /\ granted < Desired(profile, asked) => ~Fits(granted + 1) \/ ~Uncapped(granted + 1)
    /\ granted < profile.floor => ~Uncapped(profile.floor)

(* The upstream refuses a max_tokens above its cap (request.py:56-57).     *)
CapRespected == granted # Pending => Uncapped(granted)

=============================================================================
