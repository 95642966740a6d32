----------------------------- MODULE PrefixMirror -----------------------------
(***************************************************************************)
(* What the scalar streams of a Run promise: the coordinator's copy of a   *)
(* channel is at any time a prefix of what the worker wrote, it never      *)
(* shrinks, and it is called complete only when the worker has finished    *)
(* and nothing is missing.  ScalarStream implements this specification.    *)
(***************************************************************************)
EXTENDS Naturals, Sequences

CONSTANTS Channels, Records

VARIABLES source,    \* records the worker wrote, per channel
          ended,     \* will the worker write no more?
          mirror,    \* records the coordinator holds for good
          complete   \* channels declared complete

vars == <<source, ended, mirror, complete>>

Prefix(p, s) == Len(p) <= Len(s) /\ p = SubSeq(s, 1, Len(p))

Init ==
  /\ source = [c \in Channels |-> <<>>]
  /\ ended = FALSE
  /\ mirror = [c \in Channels |-> <<>>]
  /\ complete = [c \in Channels |-> FALSE]

Write(c, r) ==
  /\ ~ended
  /\ source' = [source EXCEPT ![c] = Append(@, r)]
  /\ UNCHANGED <<ended, mirror, complete>>

End ==
  /\ ended' = TRUE
  /\ UNCHANGED <<source, mirror, complete>>

Advance ==
  /\ mirror' \in [Channels -> Seq(Records)]
  /\ complete' \in [Channels -> BOOLEAN]
  /\ \A c \in Channels :
       /\ Prefix(mirror[c], mirror'[c]) /\ Prefix(mirror'[c], source[c])
       /\ complete[c] => complete'[c]
       /\ complete'[c] => ended /\ mirror'[c] = source[c]
  /\ UNCHANGED <<source, ended>>

Next == (\E c \in Channels, r \in Records : Write(c, r)) \/ End \/ Advance

Spec == Init /\ [][Next]_vars
===============================================================================
