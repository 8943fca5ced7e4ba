----------------------------- MODULE MatchState -----------------------------
(***************************************************************************)
(* The captures of one match, runtime/router/match.go: a fixed array that  *)
(* the search fills and cuts back, and a slice for what does not fit.      *)
(***************************************************************************)
EXTENDS Integers, Sequences

CONSTANT MaxStackParams  \* captures kept in the fixed array of a match

ASSUME StackAssumption == MaxStackParams \in Nat

\* matchState: a fixed array of captures and a slice for the overflow.
NoCaptures == [caps |-> [i \in 1..MaxStackParams |-> <<>>], n |-> 0, over |-> <<>>]

push(st, c) ==
    IF st.n < MaxStackParams
    THEN [st EXCEPT !.caps[st.n + 1] = c, !.n = @ + 1]
    ELSE [st EXCEPT !.over = Append(@, c), !.n = @ + 1]

\* A fault: truncate resets the count but keeps the overflow of the failed branch.
truncateKeepsOverflow(st, to) == [st EXCEPT !.n = to]

truncate(st, to) ==
    LET over == IF to < MaxStackParams THEN 0 ELSE to - MaxStackParams
    IN  [st EXCEPT !.n = to,
                   !.over = IF over < Len(@) THEN SubSeq(@, 1, over) ELSE @]

at(st, i) == IF i <= MaxStackParams THEN st.caps[i] ELSE st.over[i - MaxStackParams]

\* The state holds the captures s, drawn from C: reading it back gives them in
\* order, and the overflow is as long as truncate's comment says (match.go:38).
Overflow(n) == IF n > MaxStackParams THEN n - MaxStackParams ELSE 0

Captures(C, st, s) ==
    /\ st \in [caps : [1..MaxStackParams -> C \cup {<<>>}], n : Nat, over : Seq(C)]
    /\ st.n = Len(s) /\ Len(st.over) = Overflow(Len(s))
    /\ \A i \in 1..Len(s) : at(st, i) = s[i]

=============================================================================
