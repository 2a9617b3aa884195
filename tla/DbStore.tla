------------------------------ MODULE DbStore -------------------------------
(***************************************************************************)
(* What the segbits database promises to the fuzzers that push into it: a  *)
(* set of entries that only grows.  An accepted push adds all its entries  *)
(* at once and is refused when they contradict what is there: one tag with *)
(* two bit sets, or one bit set with two tags.  Only a push that is killed *)
(* while it rewrites the file takes entries away.                          *)
(***************************************************************************)
CONSTANTS Mergers,   \* one push each
          New,       \* New[m]: the entries of m's push
          InitialDb  \* the entries before the first push

VARIABLES store,     \* the entries of the database
          merged     \* the pushes that were accepted

\* Two different entries <<tag, bits>> that share a tag or the bits.
Conflict(S) == \E x, y \in S : x # y /\ (x[1] = y[1] \/ x[2] = y[2])

Init == store = InitialDb /\ merged = {}

Merge(m) ==
  /\ m \notin merged
  /\ ~ Conflict(store \cup New[m])
  /\ store' = store \cup New[m]
  /\ merged' = merged \cup {m}

\* A push that is cut off while it takes effect is not there, and what the
\* database had can be lost with it.
Crash(m) ==
  /\ m \in merged
  /\ \E left \in SUBSET store : store' = left
  /\ merged' = merged \ {m}

Next == \E m \in Mergers : Merge(m) \/ Crash(m)

Spec == Init /\ [][Next]_<<store, merged>>
=============================================================================
