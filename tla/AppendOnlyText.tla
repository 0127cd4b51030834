---------------------------- MODULE AppendOnlyText ----------------------------
(***************************************************************************)
(* What a stream promises of its committed text: it only ever grows, and   *)
(* once the stream is finished it is final.                                *)
(***************************************************************************)
EXTENDS Sequences, SequencesExt

CONSTANT Symbols

VARIABLES text, done

Init == text = <<>> /\ done = FALSE

\* More text may be committed, never less and nothing revised.
Extend ==
  /\ ~done
  /\ text' \in Seq(Symbols) /\ IsPrefix(text, text')
  /\ done' \in BOOLEAN

Next == Extend

Spec == Init /\ [][Next]_<<text, done>>

=============================================================================
