----------------------------- MODULE MCSession -----------------------------
(***************************************************************************)
(* Session with two servers, one of them observed, and three files.        *)
(***************************************************************************)
EXTENDS Session

Pay(from, to, amount) == [sender |-> from, receiver |-> to, amount |-> amount]
MCPayload == {Pay("A", "B", 30), Pay("B", "B", 2)}

Header(k, tx, live, byz) ==
  [set |-> k, tx |-> tx, live |-> live, byz |-> byz, bad |-> FALSE]
Further(tx) == Header(NoCell, tx, {}, {})

Sets == <<Header(1, Pay("A", "B", 30), {1, 2}, {2}),
          Header(2, Pay("B", "B", 2), {1}, {1})>>
\* A transaction before the first set, which counts as a set; set 1 after set
\* 2 and continued; set 2 without a transaction, which the client stops at.
Odd == <<Further(Pay("A", "B", 30)),
         Header(2, NoCell, {1}, {1}),
         Header(1, Pay("B", "B", 2), {1, 2}, {}), Header(2, NoCell, {}, {2}),
         Header(1, NoCell, {2}, {})>>
Broken == <<Further(Pay("A", "B", 30)),
            [Header(1, NoCell, {1}, {}) EXCEPT !.bad = TRUE]>>
MCFiles == {Sets, Odd, Broken}
=============================================================================
