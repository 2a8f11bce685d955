----------------------------- MODULE LineReader -----------------------------
(***************************************************************************)
(* What PUT, LUP and macros promise: the assembler reads one sequence of   *)
(* lines.  PUT puts a file's lines, LUP the repetitions of its body and a  *)
(* macro call the macro's lines in front of the lines still to be read.    *)
(* There are no files, positions or loop counters here.                    *)
(*                                                                         *)
(* A line may wait for the symbol it uses.  It is then carried out once    *)
(* more when the symbol has its value, before the next line is read, and   *)
(* does all that it did the first time.                                    *)
(***************************************************************************)
EXTENDS Integers, SequencesExt

CONSTANTS Files, Main, Macros, NoMacro, Symbols, Parameter, Lines, Blank

VARIABLES
    texts,   \* the lines of each file
    pending, \* the lines still to be read
    current, \* the lines under way: one that was read, and those carried out again within it
    macros,  \* the macros defined so far, and their lines
    symbols, \* whether each symbol has its value
    waiting, \* the lines that wait for each symbol, the last first
    failed   \* an error was reported

vars == <<texts, pending, current, macros, symbols, waiting, failed>>

From(lines, n) == SubSeq(lines, n, Len(lines))

(* The lines of a loop; one without a body yields a blank line for each    *)
(* iteration but the first.                                                *)
Loop(body, count) ==
    IF body = <<>>
    THEN [i \in 1 .. count - 1 |-> Blank]
    ELSE FlattenSeq([i \in 1 .. count |-> body])

Read ==
    /\ current = <<>>
    /\ \A s \in Symbols : symbols[s] = "final" => waiting[s] = <<>>
    /\ pending # <<>>
    /\ current' = <<Head(pending)>>
    /\ pending' = Tail(pending)
    /\ UNCHANGED <<texts, macros, symbols, waiting, failed>>

Now == Last(current)

HasValue == Now.uses \notin Symbols \/ symbols[Now.uses] = "final"

Operand(value) == IF HasValue THEN value ELSE Now.early

(* The line may wait for its symbol; it may have defined its label then.   *)
MayWait ==
    \/ UNCHANGED waiting
    \/ /\ Now.uses \in Symbols
       /\ symbols[Now.uses] = "undefined"
       /\ \E own \in BOOLEAN :
              waiting' = [waiting EXCEPT ![Now.uses] = <<[Now EXCEPT !.own = own]>> \o @]

(* A line that waits comes up again. *)
Again(s) ==
    /\ symbols[s] = "final"
    /\ waiting[s] # <<>>
    /\ current' = Append(current, Head(waiting[s]))
    /\ waiting' = [waiting EXCEPT ![s] = Tail(@)]
    /\ UNCHANGED <<texts, pending, macros, symbols, failed>>

(* A symbol is defined once, but for variables, and by an EQU that is      *)
(* carried out again.                                                      *)
CanDefine(s) == s = Parameter \/ symbols[s] = "undefined"

(* A line that was carried out defines its label, or may not.              *)
Label ==
    /\ current = <<>>
    /\ \/ /\ \E s \in Symbols : CanDefine(s) /\ symbols' = [symbols EXCEPT ![s] = "final"]
          /\ UNCHANGED failed
       \/ failed' = TRUE /\ UNCHANGED symbols
    /\ UNCHANGED <<texts, pending, current, macros, waiting>>

(* At the end, a line that still waits is an error.                        *)
Undefined ==
    /\ \E s \in Symbols : waiting[s] # <<>>
    /\ failed' = TRUE
    /\ UNCHANGED <<texts, pending, current, macros, symbols, waiting>>

Done(op) ==
    /\ current # <<>>
    /\ Now.op = op
    /\ current' = Front(current)
    /\ MayWait
    /\ UNCHANGED texts

(* A line that only may be in error. *)
Pass ==
    /\ \E op \in {"code", "blank", "lupend", "macend"} : Done(op)
    /\ failed' \in {failed, TRUE}
    /\ UNCHANGED <<pending, macros, symbols>>

Equ ==
    /\ Done("equ")
    /\ CanDefine(Now.label) \/ Now.own
    /\ symbols' = [symbols EXCEPT ![Now.label] = IF HasValue THEN "final" ELSE "forward"]
    /\ UNCHANGED <<pending, macros, failed>>

(* Any other line in error: what comes next does not change, save that a   *)
(* MAC in error may have taken lines.                                      *)
Fail ==
    /\ \E op \in {"equ", "put", "lup", "mac", "call"} : Done(op)
    /\ failed' = TRUE
    /\ \E n \in 1 .. Len(pending) + 1 :
           /\ n > 1 => Now.op = "mac"
           /\ pending' = From(pending, n)
    /\ UNCHANGED <<macros, symbols>>

Put ==
    /\ Done("put")
    /\ pending' = From(texts[Now.file], Operand(Now.skip) + 1) \o pending
    /\ UNCHANGED <<macros, symbols, failed>>

IsFirst(op, e) ==
    pending[e].op = op /\ \A i \in 1 .. e - 1 : pending[i].op # op

Lup ==
    /\ Done("lup")
    /\ Operand(Now.count) > 0
    /\ \E e \in DOMAIN pending :
           /\ IsFirst("lupend", e)
           /\ pending' = Loop(SubSeq(pending, 1, e - 1), Operand(Now.count))
                             \o From(pending, e)
    /\ UNCHANGED <<macros, symbols, failed>>

(* A count out of range is passed over, and so is the LUP. *)
PassLup ==
    /\ Done("lup")
    /\ Operand(Now.count) = 0
    /\ UNCHANGED <<pending, macros, symbols, failed>>

(* A macro takes the lines to the next end of a macro and that, or fewer   *)
(* when its file or loop body ends before.                                 *)
Mac ==
    /\ Done("mac")
    /\ macros[Now.macro] = NoMacro
    /\ \E n \in 0 .. Len(pending) :
           /\ \A i \in 1 .. n : pending[i].op \notin {"mac", "macend"}
           /\ macros' = [macros EXCEPT ![Now.macro] =
                              SubSeq(pending, 1, n)]
           /\ \/ pending' = From(pending, n + 1)
              \/ /\ n < Len(pending)
                 /\ pending[n + 1].op = "macend"
                 /\ pending' = From(pending, n + 2)
    /\ UNCHANGED <<symbols, failed>>

(* A call assigns its operands first: lines that wait for those come up    *)
(* before the lines of the macro.                                          *)
Assign ==
    /\ current # <<>>
    /\ Now.op = "call"
    /\ symbols' = [symbols EXCEPT ![Parameter] = IF HasValue THEN "final" ELSE "forward"]
    /\ MayWait
    /\ UNCHANGED <<texts, pending, current, macros, failed>>

Call ==
    /\ Done("call")
    /\ macros[Now.macro] # NoMacro
    /\ pending' = macros[Now.macro] \o pending
    /\ UNCHANGED <<macros, symbols, failed>>

Init ==
    /\ texts \in [Files -> Seq(Lines)]
    /\ pending = texts[Main]
    /\ current = <<>>
    /\ macros = [m \in Macros |-> NoMacro]
    /\ symbols = [s \in Symbols |-> "undefined"]
    /\ waiting = [s \in Symbols |-> <<>>]
    /\ failed = FALSE

Next ==
    \/ Read \/ Label \/ Undefined \/ Pass \/ Equ \/ Fail
    \/ Put \/ Lup \/ PassLup \/ Mac \/ Assign \/ Call
    \/ \E s \in Symbols : Again(s)

Spec == Init /\ [][Next]_vars
=============================================================================
