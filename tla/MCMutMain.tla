----------------------------- MODULE MCMutMain -----------------------------
(* Command lines of up to two options of up to two letters each and the      *)
(* program, or nothing.                                                      *)
EXTENDS MutMain

UpTo(S, k) == UNION {[1..j -> S] : j \in 0..k}

\* Two flags that matter to main, a value, and a letter that is no option.
Options == {[option |-> TRUE, letters |-> l] : l \in UpTo({"b", "s", "o", "q"}, 2)}
Prog == [option |-> FALSE, letters |-> <<>>]
CommandLines == {opts \o rest : opts \in UpTo(Options, 2), rest \in {<<>>, <<Prog>>}}

\* The command lines that matter behind mut_ui_process_args.
Short == {<<[option |-> TRUE, letters |-> <<"o", "f">>], Prog>>}
=============================================================================
