------------------------------ MODULE Packets ------------------------------
(***************************************************************************)
(* The list of received packets of the client library (myutils/sclient.py) *)
(* as its users see it: the packets of one abo, oldest first.              *)
(***************************************************************************)
EXTENDS Naturals, Sequences

\* clearPackets pops from the list it iterates over, so each packet that
\* follows a removed one stays.
Cleared(q) == [i \in 1..(Len(q) \div 2) |-> q[2 * i]]

\* The agentes share one list.  A packet of another abo right before a packet
\* hides it from being skipped: what may stay never begins with the first one,
\* and no two that stay were neighbours.  So the i-th of n that stay is the
\* packet 2 * i or one later[i] places behind it.
ClearedAmongOthers(q) ==
  UNION {{[i \in 1..n |-> q[2 * i + later[i]]] :
            later \in {f \in [1..n -> 0..(Len(q) - 2 * n)] :
                         \A i \in 2..n : f[i - 1] <= f[i]}} :
         n \in 0..(Len(q) \div 2)}
=============================================================================
