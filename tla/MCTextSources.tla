--------------------------- MODULE MCTextSources ---------------------------
(* Short files for TextSources: a main file that includes a, which may     *)
(* include b.                                                              *)
EXTENDS TextSources

CONSTANTS main, a, b, m, x, y, parameter

Op(op) == [Blank EXCEPT !.op = op]
Put(f, skip) == [Op("put") EXCEPT !.file = f, !.skip = skip]
Lup(count) == [Op("lup") EXCEPT !.count = count]
Mac(name) == [Op("mac") EXCEPT !.macro = name]
Call(name) == [Op("call") EXCEPT !.macro = name]
Bad(line) == [line EXCEPT !.bad = TRUE]
Equ(label) == [Op("equ") EXCEPT !.label = label]
Labelled(label, line) == [line EXCEPT !.label = label]
Uses(s, early, line) == [line EXCEPT !.uses = s, !.early = early]

UpTo(n, lines) == UNION {[1 .. k -> lines] : k \in 0 .. n}

(* The texts of main, a and b. *)
Sources(mains, as, bs) == mains \X as \X bs

LoopLines == {Op("code"), Lup(2), Op("lupend")}

(* Loops and files nested in each other. *)
NestedTexts ==
    Sources(UpTo(4, LoopLines \cup {Put(a, 0)}),
            UpTo(2, LoopLines \cup {Put(b, 0)})
                \cup {<<Lup(2), line, Op("lupend")>> : line \in {Op("code"), Put(b, 0)}},
            {<<Op("code")>>, <<Lup(2), Op("code"), Op("lupend")>>})

(* Macros, loops and errors in one file, and one to include. *)
MacroTexts ==
    Sources(UpTo(4, {Op("code"), Mac(m), Op("macend"), Call(m), Lup(3),
                     Op("lupend"), Put(a, 1)}),
            {<<Op("code"), Call(m), Lup(2)>>,
             <<Op("code"), Mac(m), Op("code"), Op("macend")>>,
             <<Mac(NoName), Bad(Call(m)), Bad(Lup(1))>>},
            {<<>>})

(* Loops that are refused, and files that are not found. *)
LoopTexts ==
    Sources(UpTo(3, {Op("code"), Lup(0), Lup(3), Op("lupend"), Put(a, 0),
                     Bad(Put(a, 0))}),
            UpTo(2, {Op("code"), Lup(0), Op("lupend"), Put(b, 0)}),
            {<<Op("code")>>})

(* A file that includes the rest of itself. *)
OwnTexts ==
    Sources({<<Put(main, skip), Op("code"), last>> :
                 skip \in {1, 2}, last \in {Op("code"), Put(a, 0)}},
            UpTo(1, {Op("code"), Put(b, 0)}),
            {<<Op("code")>>})

(* Lines that wait for a symbol, and those that define it, by an EQU that  *)
(* may wait itself, by a label or by a call of a macro.                    *)
WaitingLines ==
    {Uses(x, 0, Op("code")), Uses(x, 1, Lup(2)), Op("lupend"), Uses(x, 0, Call(m)),
     Uses(y, 1, Put(a, 0)), Put(a, 0), Equ(x)}

EquatedLines ==
    {Uses(x, 0, Equ(y)), Bad(Equ(x)), Equ(x), Uses(y, 0, Bad(Put(a, 0))),
     Uses(y, 0, Call(m)), Labelled(x, Put(a, 0)), Uses(parameter, 1, Lup(2))}

WaitingTexts ==
    Sources({<<Mac(m), Op("code"), Op("macend")>> \o lines :
                 lines \in UpTo(4, WaitingLines) \cup UpTo(3, EquatedLines)},
            {<<Equ(x)>>,
             <<Uses(parameter, 2, Put(b, 0)), Labelled(y, Op("code"))>>},
            {<<Op("code")>>})

AllTexts ==
    {[f \in Files |-> CASE f = main -> t[1] [] f = a -> t[2] [] f = b -> t[3]] :
        t \in NestedTexts \cup MacroTexts \cup LoopTexts \cup OwnTexts \cup WaitingTexts}
=============================================================================
