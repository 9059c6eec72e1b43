------------------------------ MODULE Redaction ------------------------------
(***************************************************************************)
(* RedactionEngine (acer-policy/src/redaction.rs): scan() collects the     *)
(* matches of all patterns in the original text, sorted by position, and   *)
(* redact() replaces them from the last to the first, at the positions     *)
(* they had in the original.  Matches of one pattern never overlap         *)
(* (Regex::find_iter); matches of two patterns may: an address inside a    *)
(* "password: ..." is both an e-mail and a secret.                         *)
(*                                                                         *)
(* A text is the sequence 1..length of its own bytes; some of them lie     *)
(* inside a character that takes several.  A replacement is a run of Mark. *)
(* Which text the patterns match is left open: a pattern is the set of its *)
(* matches, whole characters and at least one.                             *)
(***************************************************************************)
EXTENDS Integers, Sequences, SequencesExt

CONSTANTS
    PatternCount,   \* of the patterns in the engine's list
    MaxLength,      \* bound: bytes of the text
    Sizes,          \* lengths of replacements
    Mark            \* a character of a replacement

ASSUME RedactionAssumption ==
    /\ PatternCount \in Nat
    /\ MaxLength \in Nat
    /\ Sizes \subseteq Nat
    /\ Mark \notin 1..MaxLength

VARIABLES
    length,     \* of the original text
    inside,     \* its bytes that do not begin a character
    matches,    \* external: what each pattern matches, [start, end)
    size,       \* the length of each pattern's replacement
    rewritten,  \* the text as it is being rewritten: redact's result
    pending,    \* the redactions still to be applied
    phase       \* "scan", "replace", "done", "panicked"

input == <<length, inside, matches, size>>
redactionVars == <<input, rewritten, pending, phase>>

RedactionPatterns == 1..PatternCount

Intervals(n) == {i \in [start : 1..n, end : 2..(n + 1)] : i.start < i.end}

Overlap(a, b) == a.start < b.end /\ b.start < a.end

DisjointSets(n) ==
    {S \in SUBSET Intervals(n) : \A a, b \in S : a # b => ~Overlap(a, b)}

\* A match begins and ends between characters.
Whole(S) == \A m \in S : m.start \notin inside /\ m.end \notin inside

Text(n) == [i \in 1..n |-> i]

RedactionInit ==
    /\ length \in 0..MaxLength
    /\ inside \in SUBSET (2..length)
    /\ matches \in [RedactionPatterns -> {S \in DisjointSets(length) : Whole(S)}]
    /\ size \in [RedactionPatterns -> Sizes]
    /\ rewritten = Text(length)
    /\ pending = {}
    /\ phase = "scan"

-----------------------------------------------------------------------------
Redactions == UNION {{[pattern |-> p, start |-> m.start, end |-> m.end] :
                          m \in matches[p]} : p \in RedactionPatterns}

\* sort_by_key is stable: at one position the patterns keep their order.
Before(a, b) ==
    a.start < b.start \/ (a.start = b.start /\ a.pattern < b.pattern)

Scan ==
    /\ phase = "scan"
    /\ pending' = Redactions
    /\ phase' = "replace"
    /\ UNCHANGED <<input, rewritten>>

\* Mutant of Chosen: the loop runs forwards.
ChosenFirst == CHOOSE r \in pending : \A x \in pending \ {r} : Before(r, x)

\* .iter().rev(): the last of the sorted list.
Chosen == CHOOSE r \in pending : \A x \in pending \ {r} : Before(x, r)

\* A range that the text has become too short for is passed over.
Fits(r) == r.end - 1 <= Len(rewritten)

\* Mutant of Replaced: the range is inclusive.
ReplacedInclusive(r) ==
    SubSeq(rewritten, 1, r.start - 1)
        \o [i \in 1..size[r.pattern] |-> Mark]
        \o SubSeq(rewritten, r.end + 1, Len(rewritten))

\* String::replace_range.
Replaced(r) ==
    SubSeq(rewritten, 1, r.start - 1)
        \o [i \in 1..size[r.pattern] |-> Mark]
        \o SubSeq(rewritten, r.end, Len(rewritten))

\* A place in the middle of a character of the text as it is now, and what
\* replace_range does when the range begins or ends in one.
Splits(k) == k <= Len(rewritten) /\ rewritten[k] \in inside

Panics(r) == Fits(r) /\ (Splits(r.start) \/ Splits(r.end))

Replace ==
    /\ phase = "replace"
    /\ pending # {}
    /\ ~Panics(Chosen)
    /\ rewritten' = IF Fits(Chosen) THEN Replaced(Chosen) ELSE rewritten
    /\ pending' = pending \ {Chosen}
    /\ UNCHANGED <<input, phase>>

Panic ==
    /\ phase = "replace"
    /\ pending # {}
    /\ Panics(Chosen)
    /\ phase' = "panicked"
    /\ pending' = {}
    /\ UNCHANGED <<input, rewritten>>

Finish ==
    /\ phase = "replace"
    /\ pending = {}
    /\ phase' = "done"
    /\ UNCHANGED <<input, rewritten, pending>>

RedactionNext == Scan \/ Replace \/ Panic \/ Finish

RedactionSpec == RedactionInit /\ [][RedactionNext]_redactionVars

-----------------------------------------------------------------------------
\* Going backwards keeps the start of every redaction that is still to come
\* where it was in the original, even if matches overlap: the text before
\* it has not been touched, so no range can start in the wrong place.
StartsStayTrue ==
    \A r \in pending, k \in 1..length :
        k < r.start => k <= Len(rewritten) /\ rewritten[k] = k

\* The positions of the original text that are in some match.
Matched == {k \in 1..length : \E r \in Redactions : r.start <= k /\ k < r.end}

\* The reference: what is not matched, and each match replaced where it
\* stands.
Piece(k) ==
    IF k \notin Matched THEN <<k>>
    ELSE LET r == CHOOSE x \in Redactions : x.start <= k /\ k < x.end
         IN  IF r.start = k THEN [i \in 1..size[r.pattern] |-> Mark] ELSE <<>>

Reference == FlattenSeq([k \in 1..length |-> Piece(k)])

\* When no two matches overlap, redact() returns, and the result is the text
\* with every match replaced by its replacement and nothing else changed,
\* whatever the lengths of the replacements and of the characters.
DisjointIsExact ==
    (\A a, b \in Redactions : a # b => ~Overlap(a, b)) =>
        phase # "panicked" /\ (phase = "done" => rewritten = Reference)

Isolated(r) == \A x \in Redactions : x # r => ~Overlap(x, r)

Span(r) == r.start..(r.end - 1)

\* What overlapping matches do not spoil: nothing of a match that overlaps
\* no other is left in the result, however the others overlap and whatever
\* they do to the length of the text, if there is a result at all.
IsolatedAreGone ==
    phase = "done" => \A r \in Redactions : Isolated(r) =>
        \A i \in 1..Len(rewritten) : rewritten[i] \notin Span(r)

\* "Automatic detection and redaction of sensitive data" (README.md:12):
\* nothing of a match is left in the result.  Something is when a match that
\* lies within another has changed the length of the text before the outer
\* one is replaced at its old positions, or passed over because they are no
\* longer there (redaction.rs:218-219).
NothingMatchedIsLeft ==
    phase = "done" => \A i \in 1..Len(rewritten) : rewritten[i] \notin Matched

=============================================================================
