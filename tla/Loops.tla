------------------------------- MODULE Loops -------------------------------
(***************************************************************************)
(* Loops over an array, as functions of the number of elements seen.       *)
(***************************************************************************)
EXTENDS Naturals, Sequences

\* A counter to which every element is added: its value after i of them.
Totals(f) ==
    LET sum[i \in 0 .. Len(f)] == IF i = 0 THEN 0 ELSE sum[i - 1] + f[i]
    IN  sum

Total(f) == Totals(f)[Len(f)]

\* An array to which the elements at the positions of I are copied in order.
Selected(s, I) ==
    LET kept[i \in 0 .. Len(s)] ==
            CASE i = 0 -> <<>>
              [] i \in I -> Append(kept[i - 1], s[i])
              [] OTHER -> kept[i - 1]
    IN  kept[Len(s)]
=============================================================================
