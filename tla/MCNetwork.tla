------------------------------ MODULE MCNetwork ------------------------------
(* End nodes n1 and n2 send to n3 through switch s.  n1 sends two         *)
(* one-fragment messages a and c, more than the switch's input buffer      *)
(* holds, over a link; n2 sends the two-fragment message b.  n2, s and n3  *)
(* share a bus of one lane: n2's output buffer o2 and the switch's output  *)
(* buffer so compete for it.  Links move one byte per cycle, the switch   *)
(* and the bus two.                                                        *)
EXTENDS Network, TLC

MCBufNode == [o1 |-> "n1", o2 |-> "n2", i1 |-> "s", i2 |-> "s", so |-> "s", i3 |-> "n3"]

\* o1 is linked to i1; the bus delivers from o2 to i2 and from so to i3.
MCLinkDst == [o1 |-> "i1", o2 |-> "i2", so |-> "i3"]

MCRoute == (<<"n1", "n3">> :> "o1") @@ (<<"n2", "n3">> :> "o2") @@ (<<"s", "n3">> :> "so")

MCMsgSrc == [a |-> "n1", b |-> "n2", c |-> "n1"]
MCMsgDst == [m \in {"a", "b", "c"} |-> "n3"]
MCMsgSize == [a |-> 2, b |-> 3, c |-> 2]

\* n1's switch input buffer holds one message, n3's input buffer all.
MCBufSize == [o1 |-> 4, o2 |-> 4, i1 |-> 3, i2 |-> 4, so |-> 4, i3 |-> 4]

=============================================================================
