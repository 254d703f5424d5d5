------------------------------- MODULE Buffer -------------------------------
(***************************************************************************)
(* The buffer of a fragment (include/zmBuffer.hh), as far as compression   *)
(* goes: bit 16 of its first word, which says that the payload is          *)
(* compressed, and how many times it has been.                             *)
(***************************************************************************)
EXTENDS Integers

Buffers == [bit : BOOLEAN, wraps : Int]

Empty == [bit |-> FALSE, wraps |-> 0]

\* A new payload is copied in: the bit stays as it is.
Fill(b) == [bit |-> b.bit, wraps |-> 0]

\* (variant) a buffer whose bit is set is left alone, as the first line of
\* compress() means to
CompressOnce(b) == IF b.bit THEN b ELSE [bit |-> TRUE, wraps |-> b.wraps + 1]

\* compress() compares bit 16 with 1, and so never comes back early.
Compress(b) == [bit |-> TRUE, wraps |-> b.wraps + 1]

\* uncompress(); a payload that was not compressed is destroyed (-1).
Uncompress(b) == IF b.bit THEN [bit |-> FALSE, wraps |-> b.wraps - 1] ELSE b

\* What a reader of the buffer gets is what its source has filled in.
Readable(b) == Uncompress(b).wraps = 0
=============================================================================
