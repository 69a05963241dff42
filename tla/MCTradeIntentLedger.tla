------------------------ MODULE MCTradeIntentLedger -------------------------
(* Small instances of TradeIntentLedger for TLC. *)
EXTENDS TradeIntentLedger, TLC

CONSTANTS s1, s2, a1, a2, a3

MCAsync  == {[async |-> TRUE, block |-> TRUE, tagged |-> TRUE]}
MCTagged == {[async |-> FALSE, block |-> FALSE, tagged |-> TRUE]}
MCLive   == MCAsync \union {[async |-> FALSE, block |-> TRUE, tagged |-> FALSE]}

\* Bound: the market stands still for an attempt whose slot has been given up, the
\* events it raised before that still arrive.
Quiet == \A a \in Attempts :
            Made(a) /\ (\A s \in Slots : a \notin {gv[s].id, gv[s].legacy})
            => order'[a] = order[a] /\ cord'[a] = cord[a]

AttemptSymmetry == Permutations(Attempts)

=============================================================================
