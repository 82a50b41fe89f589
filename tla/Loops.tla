--------------------------------- MODULE Loops ---------------------------------
(***************************************************************************)
(* The loops of the readers and writers of bytes.  A loop has a state and  *)
(* a body, a function on states; it ends when a pass changes nothing, or   *)
(* after n passes.                                                         *)
(***************************************************************************)
EXTENDS Integers, Sequences

Loop(body, s, n) ==
  LET from[k \in 0 .. n] ==
        [x \in DOMAIN body |-> IF k = 0 \/ body[x] = x THEN x ELSE from[k - 1][body[x]]]
  IN  from[n][s]

\* What a loop writes that appends the sequences ss to a buffer.
Joined(ss) ==
  LET buf[i \in 0 .. Len(ss)] == IF i = 0 THEN <<>> ELSE buf[i - 1] \o ss[i]
  IN  buf[Len(ss)]
=============================================================================
