------------------------- MODULE BioTimeRelay_proofs -------------------------
(***************************************************************************)
(* No transaction is left behind a cursor, for any number of transactions, *)
(* any page size, and any number of failures and restarts.                 *)
(***************************************************************************)
EXTENDS BioTimeRelay, FiniteSetTheorems, TLAPS

\* A cursor is the id of a transaction, or none: a new one lies after it.
Known(n) == n \in db \cup {0}

\* A request brings what is missing up to its last id.
Complete(req) ==
  /\ Known(req.last)
  /\ \A i \in db : i <= req.last => i \in stored \cup req.ids

\* Every request that may still take effect is complete, the one the pass
\* waits for too, and an answer means that it is stored.
Requested ==
  /\ \A req \in net : Complete(req)
  /\ Complete(batch)
  /\ (pc = "await" /\ answered) => batch.ids \subseteq stored

Cursors == Known(checkpoint) /\ Known(cursor) /\ Known(cur)

\* NoGaps alone is not inductive: a request on its way could still store a
\* last id without what lies before it.
IInv == TypeOK /\ Requested /\ Cursors /\ NoGaps

-----------------------------------------------------------------------------
\* A page has no hole: what lies between the cursor and a row of it is in it.
LEMMA PageHasNoHoles ==
  ASSUME TypeOK, NEW n \in Nat, NEW i \in Page(n), NEW j \in db, j > n, j <= i
  PROVE  j \in Page(n)
<1> DEFINE Upto(k) == {m \in After(n) : m <= k}
<1>0. MaxID \in Nat /\ PageSize \in Nat /\ db \subseteq Int
  BY RelayAssumption DEF TypeOK, IDs
<1>a. i \in Int /\ j \in Int /\ After(n) \subseteq 1..MaxID
  BY <1>0 DEF After, TypeOK, IDs, Page
<1>b. \A m \in After(n) : m <= j => m <= i
  BY <1>a
<1>1. Upto(i) \subseteq 1..MaxID /\ Upto(j) \subseteq Upto(i)
  BY <1>a, <1>b
<1>2. IsFiniteSet(Upto(i))
  <2>1. IsFiniteSet(1..MaxID)
    BY <1>0, FS_Interval
  <2> QED BY <2>1, <1>1, FS_Subset
<1>3. Cardinality(Upto(j)) <= Cardinality(Upto(i)) /\ IsFiniteSet(Upto(j))
  BY <1>1, <1>2, FS_Subset
<1>4. Cardinality(Upto(i)) \in Nat /\ Cardinality(Upto(j)) \in Nat
  BY <1>2, <1>3, FS_CardinalityType
<1>5. Cardinality(Upto(i)) <= PageSize
  BY DEF Page
<1>6. Cardinality(Upto(j)) <= PageSize
  BY <1>0, <1>3, <1>4, <1>5
<1> QED BY <1>6 DEF Page, After

\* The batch of a page is complete.
LEMMA BatchIsComplete ==
  ASSUME IInv, NEW extra \in SUBSET {i \in db : i <= cur}, NEW req \in Requests,
         prepareZKBioTimeBatch(Page(cur) \cup extra, cur, req)
  PROVE  Complete(req)
<1>0. cur \in Nat /\ db \subseteq Nat
  BY RelayAssumption DEF IInv, TypeOK, IDs
<1>1. req.last \in Page(cur) /\ req.last > cur /\ req.last \in Nat
  <2>1. req.last \in Page(cur) \cup extra /\ req.last > cur
    BY DEF prepareZKBioTimeBatch
  <2>2. Page(cur) \subseteq db /\ extra \subseteq db
    BY DEF Page, After
  <2>3. req.last \in Nat
    BY <2>1, <2>2, <1>0
  <2>4. req.last \notin extra
    BY <2>1, <2>3, <1>0
  <2> QED BY <2>1, <2>3, <2>4
<1>2. ASSUME NEW i \in db, i <= req.last
      PROVE  i \in stored \cup req.ids
  <2>1. CASE i <= cur
    BY <2>1 DEF IInv, NoGaps, Covered
  <2>2. CASE i > cur
    <3>1. i \in Page(cur)
      BY <2>2, <1>0, <1>1, <1>2, PageHasNoHoles DEF IInv
    <3> QED BY <3>1, <2>2 DEF prepareZKBioTimeBatch
  <2> QED BY <2>1, <2>2, <1>0
<1> QED BY <1>1, <1>2 DEF Complete, Known, Page, After

\* The initial state.
LEMMA InitIInv == Init => IInv
<1> SUFFICES ASSUME Init PROVE IInv
  OBVIOUS
<1>1. NoBatch \in Requests
  BY RelayAssumption DEF NoBatch, Requests, IDs
<1>2. TypeOK
  <2>1. 0 \in 0..MaxID /\ 0 \in 0..MaxFaults /\ 0 \in 0..MaxRestarts
    BY RelayAssumption
  <2> QED BY <1>1, <2>1, Zenon DEF Init, TypeOK
<1>3. Complete(batch) /\ batch.ids = {}
  BY DEF Init, Complete, Known, NoBatch
<1> QED BY <1>2, <1>3 DEF Init, IInv, Requested, Cursors, Known, NoGaps, Covered

\* Every step keeps the types.
LEMMA StepTypeOK == TypeOK /\ [Next]_vars => TypeOK'
<1> SUFFICES ASSUME TypeOK, [Next]_vars PROVE TypeOK'
  OBVIOUS
<1> USE RelayAssumption DEF TypeOK
<1>a. NoBatch \in Requests
  BY DEF NoBatch, Requests, IDs
<1>b. batch.last \in 0..MaxID /\ \A req \in Requests : req.ids \subseteq IDs /\ req.last \in 0..MaxID
  BY DEF Requests
<1>1. CASE Poll
  <2>1. CASE Tick \/ Load \/ CaughtUp
    BY <2>1 DEF Tick, Load, CaughtUp, bridge, poller
  <2>2. CASE Answered
    BY <2>2, <1>b DEF Answered, bridge, poller
  <2>3. ASSUME NEW extra \in SUBSET {i \in db : i <= cur},
               NEW req \in [ids : SUBSET IDs, last : IDs], FetchAndRelay(req, extra)
        PROVE  TypeOK'
    <3>1. req \in Requests
      BY DEF Requests, IDs
    <3> QED BY <2>3, <3>1 DEF FetchAndRelay, bridge, poller
  <2> QED BY <1>1, <2>1, <2>2, <2>3 DEF Poll
<1>2. CASE Fail
  BY <1>2 DEF Fail, bridge, poller
<1>3. CASE Restart
  <2>1. 0 \in 0..MaxID /\ restarts' \in 0..MaxRestarts
    BY <1>3 DEF Restart
  <2> QED BY <1>3, <1>a, <2>1, Zenon DEF Restart, bridge
<1>4. CASE \E i \in IDs : Record(i)
  BY <1>4 DEF Record, bridge, poller
<1>5. CASE \E req \in net : Drop(req)
  BY <1>5 DEF Drop, bridge, poller
<1>6. CASE \E req \in net : \E last \in {req.last, checkpoint} : Accept(req, last)
  BY <1>6, <1>b DEF Accept, poller
<1>7. CASE UNCHANGED vars
  BY <1>7 DEF vars
<1> QED BY <1>1, <1>2, <1>3, <1>4, <1>5, <1>6, <1>7 DEF Next

\* Every step keeps the invariant.
LEMMA StepIInv == IInv /\ [Next]_vars => IInv'
<1> SUFFICES ASSUME IInv, [Next]_vars PROVE IInv'
  OBVIOUS
<1>0. TypeOK'
  BY StepTypeOK DEF IInv
<1>t. /\ db \subseteq Nat \ {0} /\ stored \subseteq Nat /\ checkpoint \in Nat
      /\ cursor \in Nat /\ cur \in Nat /\ batch \in Requests /\ net \subseteq Requests
      /\ \A req \in Requests : req.last \in Nat
  BY RelayAssumption DEF IInv, TypeOK, IDs, Requests
<1> USE DEF Requested, Complete, Cursors, Known, NoGaps, Covered
<1>1. CASE Tick \/ Load \/ CaughtUp \/ Fail
  BY <1>1, <1>0 DEF IInv, Tick, Load, CaughtUp, Fail, bridge, poller
<1>2. CASE Answered
  BY <1>2, <1>0, <1>t DEF IInv, Answered, bridge, poller
<1>3. ASSUME NEW extra \in SUBSET {i \in db : i <= cur},
             NEW req \in [ids : SUBSET IDs, last : IDs], FetchAndRelay(req, extra)
      PROVE  IInv'
  <2>1. req \in Requests
    BY RelayAssumption DEF Requests, IDs
  <2>2. Complete(req)
    BY <1>3, <2>1, BatchIsComplete DEF FetchAndRelay
  <2> QED BY <1>3, <1>0, <2>2 DEF IInv, FetchAndRelay, bridge, poller
<1>4. CASE Restart
  <2>1. Complete(NoBatch)
    BY <1>t DEF NoBatch
  <2> QED BY <1>4, <1>0, <1>t, <2>1 DEF IInv, Restart, NoBatch, bridge
<1>5. ASSUME NEW i \in IDs, Record(i)
      PROVE  IInv'
  <2>1. ASSUME NEW n \in Nat, Known(n)
        PROVE  ~(i <= n)
    BY <1>5, <2>1, <1>t, RelayAssumption DEF Record, IDs
  <2>2. /\ ~(i <= checkpoint) /\ ~(i <= cursor) /\ ~(i <= cur) /\ ~(i <= batch.last)
        /\ \A req \in net : ~(i <= req.last)
    BY <2>1, <1>t DEF IInv
  <2> QED BY <1>5, <1>0, <2>2 DEF IInv, Record, bridge, poller
<1>6. ASSUME NEW req \in net, Drop(req)
      PROVE  IInv'
  BY <1>6, <1>0 DEF IInv, Drop, bridge, poller
<1>7. ASSUME NEW req \in net, NEW last \in {req.last, checkpoint}, Accept(req, last)
      PROVE  IInv'
  BY <1>7, <1>0 DEF IInv, Accept, poller
<1>8. CASE UNCHANGED vars
  BY <1>8, <1>0 DEF IInv, vars
<1> QED BY <1>1, <1>2, <1>3, <1>4, <1>5, <1>6, <1>7, <1>8 DEF Next, Poll

\* The relay stays inside its invariant.
THEOREM RelayInductive == Spec => []IInv
BY InitIInv, StepIInv, PTL DEF Spec

\* However often a request is refused, answered too late or delivered after a
\* restart, no transaction is passed over by the checkpoint or a cursor.
THEOREM RelayHasNoGaps == Spec => []NoGaps
<1>1. IInv => NoGaps
  BY DEF IInv
<1> QED BY <1>1, RelayInductive, PTL
=============================================================================
