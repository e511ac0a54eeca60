----------------------------- MODULE MCIndexPass -----------------------------
(* Small instances of IndexPass for TLC. *)
EXTENDS IndexPass

CONSTANTS a, b

Text(l, d, cs) == [lang |-> l, def |-> d, calls |-> cs]
Function  == Text(TRUE, TRUE, {})     \* a file with one function
Comment   == Text(TRUE, FALSE, {})    \* a file without symbols
Unknown   == Text(FALSE, FALSE, {})   \* no shebang line any more

\* a calls b; b has its function or not.
CallerAndCallee == [f \in {a, b} |-> IF f = a THEN {Text(TRUE, FALSE, {b}), Text(TRUE, TRUE, {b})}
                                              ELSE {Function, Comment}]
\* a and b may call each other; b has two contents with its function, a may
\* lose its language.
Mutual == [f \in {a, b} |-> IF f = a THEN {Text(TRUE, TRUE, {b}), Unknown}
                                     ELSE {Function, Text(TRUE, TRUE, {a})}]
=============================================================================
