---------------------------- MODULE PacketStream ----------------------------
(***************************************************************************)
(* What a bitstream file promises to the tools that hand configuration     *)
(* packets to each other through it: the reader gets the packets that were *)
(* written, unchanged and in their order; it gets them all unless the file *)
(* was cut off, and it always comes to an end.                             *)
(***************************************************************************)
EXTENDS Naturals, Sequences

CONSTANT Streams  \* the sequences of packets that may be written

VARIABLES sent,   \* the packets of the writer
          cut,    \* the file does not hold them all
          got,    \* the packets the reader has been given
          ended   \* it has been told that there are no more

vars == <<sent, cut, got, ended>>

Init == sent \in Streams /\ cut = FALSE /\ got = <<>> /\ ended = FALSE

Cut == ~ ended /\ got = <<>> /\ cut' = TRUE /\ UNCHANGED <<sent, got, ended>>

Deliver ==
  /\ ~ ended
  /\ Len(got) < Len(sent)
  /\ got' = Append(got, sent[Len(got) + 1])
  /\ UNCHANGED <<sent, cut, ended>>

End ==
  /\ ~ ended
  /\ cut \/ got = sent
  /\ ended' = TRUE
  /\ UNCHANGED <<sent, cut, got>>

Next == Cut \/ Deliver \/ End

\* What never goes wrong, and with it that the reader comes to an end.
Safety == Init /\ [][Next]_vars

Spec == Safety /\ <>ended
=============================================================================
