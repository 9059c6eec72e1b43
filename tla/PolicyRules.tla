---------------------------- MODULE PolicyRules ----------------------------
(***************************************************************************)
(* PolicyRules and their merge (acer-policy/src/rules.rs).  Lists that are *)
(* only asked for membership are sets; block_patterns is a sequence, since *)
(* prepare_request stops at the first match.  An empty list, a missing     *)
(* option and the default cost all mean "not set" to merge.                *)
(***************************************************************************)
EXTENDS Integers, Sequences

CONSTANTS
    Costs,          \* values of max_cost_usd
    DefaultCost,    \* default_max_cost(), 0.10
    Tools, Patterns, Models, Limits, Keys, Values,
    None            \* a missing option

ASSUME RulesAssumption ==
    /\ DefaultCost \in Costs
    /\ None \notin Models /\ None \notin Limits
    /\ Limits \subseteq Nat

Metadata == UNION {[D -> Values] : D \in SUBSET Keys}

Rules ==
    [max_cost_usd         : Costs,
     allow_remote         : BOOLEAN,
     redact_pii           : BOOLEAN,
     allow_tools          : SUBSET Tools,
     block_patterns       : Seq(Patterns),
     require_confirmation : BOOLEAN,
     allowed_models       : SUBSET Models,
     blocked_models       : SUBSET Models,
     max_tokens           : Limits \cup {None},
     default_model        : Models \cup {None},
     audit_logging        : BOOLEAN,
     metadata             : Metadata]

\* What serde fills in for the fields a file leaves out.
DefaultRules ==
    [max_cost_usd         |-> DefaultCost,
     allow_remote         |-> TRUE,
     redact_pii           |-> TRUE,
     allow_tools          |-> {},
     block_patterns       |-> <<>>,
     require_confirmation |-> FALSE,
     allowed_models       |-> {},
     blocked_models       |-> {},
     max_tokens           |-> None,
     default_model        |-> None,
     audit_logging        |-> TRUE,
     metadata             |-> << >>]

\* HashMap::extend.
Extend(first, second) ==
    [k \in DOMAIN first \cup DOMAIN second |->
        IF k \in DOMAIN second THEN second[k] ELSE first[k]]

\* The value of the second rules unless it means "not set".
OrElse(other, self, unset) == IF other # unset THEN other ELSE self

\* self.merge(other).
Merge(self, other) ==
    [max_cost_usd         |-> OrElse(other.max_cost_usd, self.max_cost_usd, DefaultCost),
     allow_remote         |-> other.allow_remote,
     redact_pii           |-> other.redact_pii,
     allow_tools          |-> OrElse(other.allow_tools, self.allow_tools, {}),
     block_patterns       |-> OrElse(other.block_patterns, self.block_patterns, <<>>),
     require_confirmation |-> other.require_confirmation,
     allowed_models       |-> OrElse(other.allowed_models, self.allowed_models, {}),
     blocked_models       |-> OrElse(other.blocked_models, self.blocked_models, {}),
     max_tokens           |-> OrElse(other.max_tokens, self.max_tokens, None),
     default_model        |-> OrElse(other.default_model, self.default_model, None),
     audit_logging        |-> other.audit_logging,
     metadata             |-> Extend(self.metadata, other.metadata)]

=============================================================================
