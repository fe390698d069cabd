------------------------------ MODULE TxClock ------------------------------
(***************************************************************************)
(* How a session picks transaction ids (next_tx of src/store.rs).  A ULID  *)
(* is a millisecond (48 bits) and a random part (80 bits), of smaller      *)
(* widths here, compared in that order.  Clocks may stand still, differ    *)
(* between machines and step back.                                         *)
(***************************************************************************)
EXTENDS Integers

CONSTANTS
  Session,    \* the stores open on the directory
  MaxMs,      \* the largest timestamp_ms, 2^48 - 1 in the program
  MaxRandom,  \* the largest random part, 2^80 - 1 in the program
  MaxDraws    \* bound: transactions and restarts of a behaviour

ASSUME TxClockAssumption ==
  MaxMs \in Nat /\ MaxRandom \in Nat /\ MaxDraws \in Nat

Ulid == [ms : 0 .. MaxMs, random : 0 .. MaxRandom]
None == [ms |-> -1, random |-> 0]

Before(a, b) == a.ms < b.ms \/ (a.ms = b.ms /\ a.random < b.random)

VARIABLES
  lastTx,  \* session -> Store.last_tx
  seen,    \* session -> the tx values in its merged state
  high,    \* history: session -> the latest millisecond its clock showed
  carries, \* history: session -> milliseconds it ran out of random parts in
  drawn,   \* history: session -> how many transactions it made since it was opened
  past,    \* history: session -> the latest tx from before it was opened again
  draws    \* how many transactions and restarts there were

vars == <<lastTx, seen, high, carries, drawn, past, draws>>

Init ==
  /\ lastTx = [s \in Session |-> None]
  /\ seen = [s \in Session |-> {}]
  /\ high = [s \in Session |-> 0]
  /\ carries = [s \in Session |-> 0]
  /\ drawn = [s \in Session |-> 0]
  /\ past = [s \in Session |-> None]
  /\ draws = 0

-----------------------------------------------------------------------------
\* Ulid::increment would leave the millisecond, and is None.
Exhausted(tx) == tx.random = MaxRandom

\* Ulid::from_parts keeps the low 48 bits of the milliseconds.
FromParts(ms, random) == [ms |-> ms % (MaxMs + 1), random |-> random]

\* Mutant: the previous tx is given out again until the clock moves on.
NextTxRepeats(last, fresh) ==
  IF last # None /\ fresh.ms <= last.ms
    THEN IF Exhausted(last) THEN FromParts(last.ms + 1, fresh.random) ELSE last
    ELSE fresh

\* Mutant: once a tx was drawn the clock is not looked at any more.
NextTxCounts(last, fresh) ==
  IF last # None
    THEN IF Exhausted(last) THEN FromParts(last.ms + 1, fresh.random)
                            ELSE [last EXCEPT !.random = @ + 1]
    ELSE fresh

\* Mutant: the random part is incremented past its width.
NextTxPastWidth(last, fresh) ==
  IF last # None /\ fresh.ms <= last.ms
    THEN [last EXCEPT !.random = @ + 1]
    ELSE fresh

\* next_tx, from the session's previous tx and a fresh ULID.
NextTx(last, fresh) ==
  IF last # None /\ fresh.ms <= last.ms
    THEN IF Exhausted(last) THEN FromParts(last.ms + 1, fresh.random)
                            ELSE [last EXCEPT !.random = @ + 1]
    ELSE fresh

Max2(a, b) == IF a > b THEN a ELSE b

\* Mutant: the clock is pushed forward by what other writers wrote.
WriteAboveSeen(s, fresh) ==
  LET above == {t \in seen[s] : Before(lastTx[s], t)}
      last  == IF above = {} THEN lastTx[s] ELSE CHOOSE t \in above : TRUE
      tx    == NextTx(last, fresh)
  IN  /\ draws < MaxDraws
      /\ draws' = draws + 1
      /\ lastTx' = [lastTx EXCEPT ![s] = tx]
      /\ seen' = [seen EXCEPT ![s] = @ \cup {tx}]
      /\ high' = [high EXCEPT ![s] = Max2(@, fresh.ms)]
      /\ drawn' = [drawn EXCEPT ![s] = @ + 1]
      /\ UNCHANGED <<carries, past>>

\* A transaction, drawn while the clock shows fresh.ms.
Write(s, fresh) ==
  LET tx == NextTx(lastTx[s], fresh)
  IN  /\ draws < MaxDraws
      /\ draws' = draws + 1
      /\ lastTx' = [lastTx EXCEPT ![s] = tx]
      /\ seen' = [seen EXCEPT ![s] = @ \cup {tx}]
      /\ high' = [high EXCEPT ![s] = Max2(@, fresh.ms)]
      /\ carries' = [carries EXCEPT ![s] =
           IF fresh.ms <= lastTx[s].ms /\ Exhausted(lastTx[s]) THEN @ + 1 ELSE @]
      /\ drawn' = [drawn EXCEPT ![s] = @ + 1]
      /\ UNCHANGED past

\* sync() shows s the transaction r wrote last.
Sync(s, r) ==
  /\ lastTx[r] # None
  /\ seen' = [seen EXCEPT ![s] = @ \cup {lastTx[r]}]
  /\ UNCHANGED <<lastTx, high, carries, drawn, past, draws>>

\* Store::open again: the previous tx is forgotten.
Reopen(s) ==
  /\ draws < MaxDraws
  /\ draws' = draws + 1
  /\ lastTx' = [lastTx EXCEPT ![s] = None]
  /\ seen' = [seen EXCEPT ![s] = {}]
  /\ high' = [high EXCEPT ![s] = 0]
  /\ carries' = [carries EXCEPT ![s] = 0]
  /\ drawn' = [drawn EXCEPT ![s] = 0]
  /\ past' = [past EXCEPT ![s] = IF Before(@, lastTx[s]) THEN lastTx[s] ELSE @]

Next ==
  \E s \in Session :
    \/ \E fresh \in Ulid : Write(s, fresh)
    \/ \E r \in Session : Sync(s, r)
    \/ Reopen(s)

Spec == Init /\ [][Next]_vars

-----------------------------------------------------------------------------
(***************************************************************************)
(* A session's writes sort in the order it made them, and no two of them   *)
(* share an id (store.rs `next_tx`), whatever its clock does, as long as   *)
(* the session stays open and the very last ULID was not used: after that  *)
(* one the milliseconds wrap to 0.                                         *)
(***************************************************************************)
Greatest(tx) == tx.ms = MaxMs /\ Exhausted(tx)

OwnOrder ==
  [][\A s \in Session :
       drawn'[s] > drawn[s] /\ ~Greatest(lastTx[s]) =>
         Before(lastTx[s], lastTx'[s])]_vars

(***************************************************************************)
(* A session that was opened again knows nothing of what it drew before.   *)
(* Its writes sort after those nevertheless from the moment its clock has  *)
(* shown a later millisecond than theirs, though it may have fallen back   *)
(* since (store.rs `next_tx`, README.md "Design Assumptions").  Until the  *)
(* milliseconds it was carried over reach the last one there is.           *)
(***************************************************************************)
ReopenedInOrder ==
  \A s \in Session :
    drawn[s] > 0 /\ past[s].ms < high[s] /\ high[s] + carries[s] <= MaxMs =>
      Before(past[s], lastTx[s])

(***************************************************************************)
(* Other writers' values are never used (store.rs `next_tx`: "no           *)
(* cross-session coupling"): a session is ahead of its own clock by no     *)
(* more than the milliseconds whose random parts it ran out of, however    *)
(* wrong the clocks of the others are.                                     *)
(***************************************************************************)
NoCoupling ==
  \A s \in Session : lastTx[s].ms <= high[s] + carries[s]

\* The values are ULIDs and the counters are within their bounds.
TypeOK ==
  /\ lastTx \in [Session -> Ulid \cup {None}]
  /\ seen \in [Session -> SUBSET Ulid]
  /\ high \in [Session -> 0 .. MaxMs]
  /\ carries \in [Session -> Nat]
  /\ drawn \in [Session -> Nat]
  /\ past \in [Session -> Ulid \cup {None}]
  /\ draws \in 0 .. MaxDraws

=============================================================================
