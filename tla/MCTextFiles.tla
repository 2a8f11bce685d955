----------------------------- MODULE MCTextFiles -----------------------------
(* Short texts for TextFiles, with what may follow them in memory: ends of *)
(* lines that make one of two, digits and a prefix that make another       *)
(* number, and the NUL that a string of the tests ends with.               *)
EXTENDS TextFiles, TLC

LowerF == 102
Nine == 57
Caret == 94

UpTo(n, S) == UNION {[1 .. k -> S] : k \in 0 .. n}

(* Lines, loops and their marks. *)
LineTexts == UpTo(5, {CR, LF, Caret, Nine}) \cup UpTo(3, {CR, LF, NUL, Caret, Nine})

(* Fields and numbers, on one line or two. *)
FieldTexts ==
    UpTo(4, {LF, Comma, Zero, Nine, LowerX, LowerF})
        \cup UpTo(3, {70, LowerF, Comma})
        \cup {<<Zero, LowerX>> \o t : t \in UpTo(3, {Zero, Nine, LowerF})}

MCTexts == LineTexts \cup FieldTexts

MCBehind == {<<NUL, NUL, NUL>>, <<CR, LF, Nine>>, <<LF, CR, LF>>,
             <<LowerX, Nine, Nine>>, <<Zero, LowerX, Nine>>}

MCMark == <<Caret>>

MCKeywords == {<<LowerF>>, <<LowerF, LowerF>>, <<LowerX, Nine>>}
=============================================================================
