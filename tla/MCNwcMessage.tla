---------------------------- MODULE MCNwcMessage ----------------------------
(* The curve over the field of 43 elements; keys whose public points have an *)
(* even and an odd y, among them 1 and N - 1.  Lengths around every power of *)
(* two that the padding knows, the short ones, the longest and one more.     *)
EXTENDS NwcMessage

MCLength == 1..140 \cup {2^k + i : k \in 8..15, i \in {0, 1, 2}} \cup {2^k - 1 : k \in 8..16}
                   \cup {40000, 65000, 65534, 65536}
=============================================================================
