---------------------------- MODULE MCSourceServer ----------------------------
(* Instances of SourceServer for TLC. *)
EXTENDS SourceServer

TwoBuilders == {<<0, 1>>}

\* Two builders, and the configurations that are wrong: a number left out, no
\* builder.
AnyLayout == {<<1, 0>>, <<0, 2>>, <<>>}

\* Two builders with the same number.
Twins == {<<0, 0>>}
=============================================================================
