--------------------------- MODULE TxClockProofs ---------------------------
(***************************************************************************)
(* TxClock for every number of sessions and every width of a ULID.         *)
(***************************************************************************)
EXTENDS TxClock, TLAPS

(* Keeping the low bits of a millisecond that has at most one bit more. *)
LEMMA FromPartsUlid ==
  ASSUME NEW ms \in 0 .. MaxMs, NEW random \in 0 .. MaxRandom
  PROVE  /\ FromParts(ms + 1, random) \in Ulid
         /\ ms < MaxMs => FromParts(ms + 1, random).ms = ms + 1
         /\ FromParts(ms + 1, random).ms <= ms + 1
<1>1. MaxMs \in Nat /\ ms + 1 \in Nat
  BY TxClockAssumption
<1>2. (ms + 1) % (MaxMs + 1) \in 0 .. MaxMs
  BY <1>1
<1>3. ms < MaxMs => (ms + 1) % (MaxMs + 1) = ms + 1
  BY <1>1
<1>4. (ms + 1) % (MaxMs + 1) <= ms + 1
  BY <1>1, <1>2, <1>3
<1> QED
  BY <1>2, <1>3, <1>4 DEF FromParts, Ulid

(* next_tx: the new tx is a ULID, later than the session's previous one, and
   dated by the clock, or by the previous tx, or by the millisecond after it;
   never before the clock, but for the wrap. *)
LEMMA NextTxLater ==
  ASSUME NEW last \in Ulid \cup {None}, NEW fresh \in Ulid
  PROVE  LET tx == NextTx(last, fresh)
         IN  /\ tx \in Ulid
             /\ last # None /\ ~Greatest(last) => Before(last, tx)
             /\ \/ tx.ms = fresh.ms
                \/ tx.ms = last.ms
                \/ fresh.ms <= last.ms /\ Exhausted(last) /\ tx.ms <= last.ms + 1
             /\ last.ms < MaxMs \/ ~Exhausted(last) =>
                  fresh.ms <= tx.ms /\ last.ms <= tx.ms
<1> USE TxClockAssumption
<1>1. CASE last = None \/ ~(fresh.ms <= last.ms)
  BY <1>1 DEF NextTx, Before, Ulid, None
<1>2. CASE last # None /\ fresh.ms <= last.ms /\ ~Exhausted(last)
  BY <1>2 DEF NextTx, Before, Ulid, Exhausted
<1>3. CASE last # None /\ fresh.ms <= last.ms /\ Exhausted(last)
  <2>1. last.ms \in 0 .. MaxMs /\ fresh.random \in 0 .. MaxRandom
    BY <1>3 DEF Ulid
  <2>2. NextTx(last, fresh) = FromParts(last.ms + 1, fresh.random)
    BY <1>3 DEF NextTx
  <2>3. ~Greatest(last) => last.ms < MaxMs
    BY <1>3, <2>1 DEF Greatest
  <2>4. last.ms < MaxMs =>
          /\ Before(last, NextTx(last, fresh))
          /\ fresh.ms <= NextTx(last, fresh).ms /\ last.ms <= NextTx(last, fresh).ms
    <3>1. fresh.ms \in 0 .. MaxMs
      BY DEF Ulid
    <3> QED
      BY <1>3, <2>1, <2>2, <3>1, FromPartsUlid DEF Before
  <2> QED
    BY <1>3, <2>1, <2>2, <2>3, <2>4, FromPartsUlid
<1> QED
  BY <1>1, <1>2, <1>3

(***************************************************************************)
(* A session is never behind its own clock, until the wrap; before its     *)
(* first transaction the clock was not looked at.                          *)
(***************************************************************************)
KeepsUp ==
  \A s \in Session :
    /\ drawn[s] = 0 <=> lastTx[s] = None
    /\ drawn[s] = 0 => high[s] = 0
    /\ drawn[s] > 0 /\ high[s] + carries[s] <= MaxMs => high[s] <= lastTx[s].ms

Inv == TypeOK /\ NoCoupling /\ KeepsUp

(* No session has drawn a tx yet. *)
LEMMA InvInit == Init => Inv
  BY TxClockAssumption DEF Init, Inv, TypeOK, NoCoupling, KeepsUp, Ulid, None

(* A transaction keeps the types and the distance to the clock. *)
LEMMA WriteInv ==
  ASSUME Inv, NEW s \in Session, NEW fresh \in Ulid, Write(s, fresh)
  PROVE  Inv'
<1> DEFINE tx == NextTx(lastTx[s], fresh)
<1>1. lastTx[s] \in Ulid \cup {None} /\ fresh.ms \in 0 .. MaxMs
  BY DEF Inv, TypeOK, Ulid
<1>2. /\ tx \in Ulid
      /\ \/ tx.ms = fresh.ms
         \/ tx.ms = lastTx[s].ms
         \/ /\ fresh.ms <= lastTx[s].ms /\ Exhausted(lastTx[s])
            /\ tx.ms <= lastTx[s].ms + 1
      /\ lastTx[s].ms < MaxMs \/ ~Exhausted(lastTx[s]) =>
           fresh.ms <= tx.ms /\ lastTx[s].ms <= tx.ms
  BY <1>1, NextTxLater
<1>3. /\ lastTx' = [lastTx EXCEPT ![s] = tx]
      /\ seen' = [seen EXCEPT ![s] = @ \cup {tx}]
      /\ high' = [high EXCEPT ![s] = Max2(@, fresh.ms)]
      /\ carries' = [carries EXCEPT ![s] =
           IF fresh.ms <= lastTx[s].ms /\ Exhausted(lastTx[s]) THEN @ + 1 ELSE @]
      /\ drawn' = [drawn EXCEPT ![s] = @ + 1] /\ past' = past
      /\ draws < MaxDraws /\ draws' = draws + 1
  BY DEF Write
<1> HIDE DEF tx
<1>4. /\ Max2(high[s], fresh.ms) \in 0 .. MaxMs
      /\ high[s] <= Max2(high[s], fresh.ms) /\ fresh.ms <= Max2(high[s], fresh.ms)
      /\ Max2(high[s], fresh.ms) \in {high[s], fresh.ms}
  BY <1>1, TxClockAssumption DEF Max2, Inv, TypeOK
<1>5. TypeOK'
  BY <1>2, <1>3, <1>4, TxClockAssumption DEF Inv, TypeOK
<1>6. NoCoupling'
  <2>1. tx.ms \in Int /\ lastTx[s].ms \in Int
    BY <1>1, <1>2, TxClockAssumption DEF Ulid, None
  <2>2. high[s] \in Int /\ carries[s] \in Nat
    BY TxClockAssumption DEF Inv, TypeOK
  <2>3. lastTx[s].ms <= high[s] + carries[s]
    BY DEF Inv, NoCoupling
  <2>4. carries'[s] \in Nat /\ carries[s] <= carries'[s]
        /\ (fresh.ms <= lastTx[s].ms /\ Exhausted(lastTx[s]) =>
              carries'[s] = carries[s] + 1)
    BY <1>3, <2>2 DEF Inv, TypeOK
  <2>5. tx.ms <= Max2(high[s], fresh.ms) + carries'[s]
    BY <1>1, <1>2, <1>4, <2>1, <2>2, <2>3, <2>4, TxClockAssumption
  <2> QED
    BY <1>3, <2>5 DEF Inv, TypeOK, NoCoupling
<1>7. KeepsUp'
  <2>1. /\ drawn'[s] = drawn[s] + 1 /\ drawn[s] \in Nat /\ lastTx'[s] = tx
        /\ high'[s] = Max2(high[s], fresh.ms) /\ tx # None
        /\ \A q \in Session \ {s} : /\ drawn'[q] = drawn[q] /\ lastTx'[q] = lastTx[q]
                                   /\ high'[q] = high[q] /\ carries'[q] = carries[q]
    BY <1>2, <1>3 DEF Inv, TypeOK, Ulid, None
  <2>2. ASSUME Max2(high[s], fresh.ms) + carries'[s] <= MaxMs
        PROVE  Max2(high[s], fresh.ms) <= tx.ms
    <3>1. /\ tx.ms \in Int /\ lastTx[s].ms \in Int /\ fresh.ms \in Nat
          /\ high[s] \in Nat /\ carries[s] \in Nat /\ MaxMs \in Nat
          /\ lastTx[s].ms <= high[s] + carries[s]
          /\ carries'[s] = IF fresh.ms <= lastTx[s].ms /\ Exhausted(lastTx[s])
                            THEN carries[s] + 1 ELSE carries[s]
      BY <1>1, <1>2, <1>3, TxClockAssumption DEF Inv, TypeOK, NoCoupling, Ulid, None
    <3>2. high[s] + carries[s] <= MaxMs
      BY <1>4, <2>2, <3>1, TxClockAssumption
    <3>3. CASE drawn[s] = 0
      <4>1. lastTx[s] = None /\ high[s] = 0
        BY <3>3 DEF Inv, KeepsUp
      <4> QED
        BY <1>2, <1>4, <3>1, <4>1, TxClockAssumption DEF None
    <3>4. CASE drawn[s] # 0
      <4>1. high[s] <= lastTx[s].ms
        BY <2>1, <3>2, <3>4 DEF Inv, KeepsUp
      <4>2. lastTx[s].ms < MaxMs \/ ~Exhausted(lastTx[s]) \/ ~(fresh.ms <= lastTx[s].ms)
        BY <1>4, <2>2, <3>1, TxClockAssumption
      <4>3. ~(fresh.ms <= lastTx[s].ms) => tx.ms = fresh.ms
        BY <1>1 DEF tx, NextTx
      <4> QED
        BY <1>2, <1>4, <3>1, <4>1, <4>2, <4>3, TxClockAssumption
    <3> QED
      BY <3>3, <3>4
  <2> QED
    BY <2>1, <2>2 DEF Inv, KeepsUp
<1> QED
  BY <1>5, <1>6, <1>7 DEF Inv

(* Sync shows old values, reopening forgets them. *)
LEMMA InvNext == Inv /\ [Next]_vars => Inv'
<1> SUFFICES ASSUME Inv, [Next]_vars
             PROVE  Inv'
  OBVIOUS
<1> USE DEF Inv, TypeOK, NoCoupling, KeepsUp
<1>1. ASSUME NEW s \in Session, NEW r \in Session, Sync(s, r)
      PROVE  Inv'
  BY <1>1 DEF Sync
<1>2. ASSUME NEW s \in Session, Reopen(s)
      PROVE  Inv'
  BY <1>2, TxClockAssumption DEF Reopen, None
<1>3. CASE UNCHANGED vars
  BY <1>3 DEF vars
<1> QED
  BY <1>1, <1>2, <1>3, WriteInv DEF Next

(* Every tx is a ULID, the wrap of the milliseconds included. *)
THEOREM TypeCorrect == Spec => []TypeOK
  BY InvInit, InvNext, PTL DEF Spec, Inv

(* No session is pushed ahead of its clock by what others wrote. *)
THEOREM ClocksAreNotCoupled == Spec => []NoCoupling
  BY InvInit, InvNext, PTL DEF Spec, Inv

(* A session's transactions sort in the order it made them, each strictly
   after the one before. *)
THEOREM OwnWritesInOrder == Spec => OwnOrder
<1> DEFINE Step == \A s \in Session :
             drawn'[s] > drawn[s] /\ ~Greatest(lastTx[s]) =>
               Before(lastTx[s], lastTx'[s])
<1>1. Inv /\ [Next]_vars => [Step]_vars
  <2> SUFFICES ASSUME Inv, Next, NEW s \in Session,
                      drawn'[s] > drawn[s], ~Greatest(lastTx[s])
               PROVE  Before(lastTx[s], lastTx'[s])
    OBVIOUS
  <2>0. drawn \in [Session -> Nat]
    BY DEF Inv, TypeOK
  <2>1. ASSUME NEW fresh \in Ulid, Write(s, fresh)
        PROVE  Before(lastTx[s], lastTx'[s])
    <3>1. lastTx'[s] = NextTx(lastTx[s], fresh) /\ lastTx[s] \in Ulid \cup {None}
      BY <2>1 DEF Write, Inv, TypeOK
    <3>2. CASE lastTx[s] = None
      BY <3>1, <3>2, NextTxLater, TxClockAssumption DEF Before, None, Ulid
    <3>3. CASE lastTx[s] # None
      BY <3>1, <3>3, NextTxLater
    <3> QED
      BY <3>2, <3>3
  <2>2. ASSUME NEW r \in Session, NEW q \in Session, Sync(r, q)
        PROVE  FALSE
    BY <2>0, <2>2 DEF Sync
  <2>3. ASSUME NEW r \in Session, Reopen(r)
        PROVE  FALSE
    BY <2>0, <2>3 DEF Reopen
  <2>4. ASSUME NEW r \in Session, r # s, NEW fresh \in Ulid, Write(r, fresh)
        PROVE  FALSE
    BY <2>0, <2>4 DEF Write
  <2> QED
    BY <2>1, <2>2, <2>3, <2>4 DEF Next
<1>2. Spec => [][Step]_vars
  BY <1>1, InvInit, InvNext, PTL DEF Spec
<1> QED
  BY <1>2 DEF OwnOrder

(* What a session wrote before it was opened again is earlier than what it
   writes once its clock has passed that. *)
THEOREM ReopeningKeepsOrder == Spec => []ReopenedInOrder
<1>1. Inv => ReopenedInOrder
  <2> SUFFICES ASSUME Inv, NEW s \in Session, drawn[s] > 0,
                      past[s].ms < high[s], high[s] + carries[s] <= MaxMs
               PROVE  Before(past[s], lastTx[s])
    BY DEF ReopenedInOrder
  <2>1. high[s] <= lastTx[s].ms
    BY DEF Inv, KeepsUp
  <2>2. past[s].ms \in Int /\ high[s] \in Int /\ lastTx[s].ms \in Int
    BY TxClockAssumption DEF Inv, TypeOK, Ulid, None
  <2> QED
    BY <2>1, <2>2 DEF Before
<1> QED
  BY <1>1, InvInit, InvNext, PTL DEF Spec

=============================================================================
