------------------------- MODULE TransactionReader -------------------------
(***************************************************************************)
(* ReadTransactions of the client: the rows of a file become numbered sets *)
(* of transactions, each with the servers that are to be alive and those   *)
(* that are to be malicious while the set is sent.  A row with a set number *)
(* begins that set; rows before the first one belong to set 0.             *)
(***************************************************************************)
EXTENDS Integers, Sequences, FiniteSets, SequencesExt

CONSTANTS
  Node,      \* the servers
  Payload,   \* contents of a transaction: sender, receiver, amount
  NoCell,    \* an empty or missing cell
  MaxSet     \* bound: the largest set number in a file

ASSUME MaxSetAssumption == MaxSet \in Nat

SetNums == 0 .. MaxSet

ASSUME NoCellAssumption == NoCell \notin SetNums

\* live = {}: the cell is empty or missing ("[]" does not parse).  byz = {}:
\* it is empty, missing or "[]".  bad: some cell does not parse, or the row
\* has another number of cells than the first.
Row == [set : SetNums \cup {NoCell}, tx : Payload \cup {NoCell},
        live : SUBSET Node, byz : SUBSET Node, bad : BOOLEAN]

Request == [id : Nat, set : SetNums, tx : Payload]

\* transactionSets, liveServersMap and byzantineServersMap; a set number that
\* is in none of them has no transactions and no servers.
Reading == [ok : BOOLEAN, current : SetNums, sets : [SetNums -> Seq(Request)],
            live : [SetNums -> SUBSET Node], byz : [SetNums -> SUBSET Node],
            nextId : Nat]

NothingRead(id) ==
  [ok |-> TRUE, current |-> 0, sets |-> [k \in SetNums |-> <<>>],
   live |-> [k \in SetNums |-> {}], byz |-> [k \in SetNums |-> {}],
   nextId |-> id]

\* A list replaces the one the set had; an empty cell leaves it.
Listed(old, cell) == IF cell = {} THEN old ELSE cell

\* A mutant: the lists belong to the set before.
WithHeaderLate(r, row) ==
  IF row.set = NoCell THEN r
  ELSE [r EXCEPT !.current = row.set,
                 !.live[r.current] = Listed(@, row.live),
                 !.byz[r.current] = Listed(@, row.byz)]

WithHeader(r, row) ==
  IF row.set = NoCell THEN r
  ELSE [r EXCEPT !.current = row.set,
                 !.live[row.set] = Listed(@, row.live),
                 !.byz[row.set] = Listed(@, row.byz)]

WithTransaction(r, row) ==
  IF row.tx = NoCell THEN r
  ELSE [r EXCEPT !.sets[r.current] =
                   Append(@, [id |-> r.nextId, set |-> r.current, tx |-> row.tx]),
                 !.nextId = @ + 1]

ReadRow(r, row) ==
  IF ~r.ok \/ row.bad THEN [r EXCEPT !.ok = FALSE]
  ELSE WithTransaction(WithHeader(r, row), row)

\* A file with an error yields no set, but the ids it has given are gone.
ReadTransactions(file, id) ==
  LET r == FoldLeft(ReadRow, NothingRead(id), file) IN
  IF r.ok THEN r ELSE [NothingRead(r.nextId) EXCEPT !.ok = FALSE]

-----------------------------------------------------------------------------
(* What a file says, read off its rows instead of going through them.       *)

Readable(file) == \A i \in DOMAIN file : ~file[i].bad
Headers(file, i) == {j \in 1 .. i : file[j].set # NoCell}
SetOf(file, i) == IF Headers(file, i) = {} THEN 0
                  ELSE file[Max(Headers(file, i))].set
Transactions(file, i) == {j \in 1 .. i : file[j].tx # NoCell}

RowsOf(file, i, k) == {j \in Transactions(file, i) : SetOf(file, j) = k}

\* The transactions of set k in the first i rows, in the order of the rows.
SetAsWritten(s, file, i, id, k) ==
  /\ Len(s) = Cardinality(RowsOf(file, i, k))
  /\ \A j \in RowsOf(file, i, k) :
       s[Cardinality(RowsOf(file, j, k))] =
         [id |-> id + Cardinality(Transactions(file, j - 1)), set |-> k,
          tx |-> file[j].tx]

\* cell is live or byz.
WrittenList(file, i, k, cell(_)) ==
  LET rows == {j \in 1 .. i : file[j].set = k /\ cell(file[j]) # {}} IN
  IF rows = {} THEN {} ELSE cell(file[Max(rows)])

\* r is what reading the file with ids from id on should give.
AsWritten(r, file, id) ==
  IF ~Readable(file) THEN \A k \in SetNums : r.sets[k] = <<>>
  ELSE \A k \in SetNums :
         /\ SetAsWritten(r.sets[k], file, Len(file), id, k)
         /\ r.live[k] = WrittenList(file, Len(file), k, LAMBDA row : row.live)
         /\ r.byz[k] = WrittenList(file, Len(file), k, LAMBDA row : row.byz)
=============================================================================
