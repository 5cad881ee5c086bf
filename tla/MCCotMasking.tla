---------------------------- MODULE MCCotMasking ----------------------------
(* Model-checking instance of DpActor.  "a b" are the tokens of "</think>", *)
(* "a c" its variant with the newline merged into the last token; in        *)
(* special token mode "b" is the token of "</think>".  PEP is off, random,  *)
(* or worst_case in one or two steps, with and without the auxiliary loss.  *)
EXTENDS DpActor

CONSTANTS a, b, c
MCDelimiters == << <<a, b>>, <<a, c>> >>

Setting(on, dual, steps) == [on |-> on, dual |-> dual, steps |-> steps]
MCPerturbations == {Setting(FALSE, FALSE, 0), Setting(TRUE, FALSE, 0), Setting(TRUE, FALSE, 2),
                    Setting(TRUE, TRUE, 1)}
=============================================================================
