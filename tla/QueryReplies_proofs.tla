------------------------- MODULE QueryReplies_proofs -------------------------
(***************************************************************************)
(* The replies to queries, for any number of replies, packs and limits:    *)
(* the buffers stay within their budget, and a steady reply is whole.      *)
(*                                                                         *)
(* The budget needs sums over the open replies, taken as the number of     *)
(* bytes there are (Bytes).  A steady reply needs what its buffer holds    *)
(* between two packs, as long as it has not been silent for TTL (Steady).  *)
(***************************************************************************)
EXTENDS QueryReplies, FiniteSetTheorems, TLAPS

\* The first n packs, in order.
Upto(n) == [i \in 1..n |-> i]

\* What collectQueryPack has of a reply whose packs were all taken once and in time.
Steady ==
  \A r \in Joined : steady[r] =>
    /\ next[r] = 1 => r \notin open
    /\ 1 < next[r] /\ next[r] <= PackCount[r] /\ now - last[r] < TTL =>
         r \in open /\ buffer[r] = Upto(next[r] - 1) /\ updated[r] = last[r]

\* The scanner begins with the first pack, and times are past.
Numbers == \A r \in Replies : next[r] >= 1 /\ updated[r] <= now /\ last[r] <= now

IInv == TypeOK /\ Numbers /\ WithinBudget /\ Steady /\ SteadyRepliesAreWhole

-----------------------------------------------------------------------------
(* Sums, as numbers of bytes.                                              *)

\* Buffered, of any lengths b.
Bytes(b, S) == UNION {{r} \X (1..b[r]) : r \in S}

LEMMA BytesMember ==
  ASSUME NEW b, NEW S, NEW p
  PROVE  p \in Bytes(b, S) <=> \E r \in S : \E i \in 1..b[r] : p = <<r, i>>
BY DEF Bytes

LEMMA BytesFinite ==
  ASSUME NEW S, IsFiniteSet(S), NEW b, NEW M \in Nat, \A r \in S : b[r] \in Nat /\ b[r] <= M
  PROVE  IsFiniteSet(Bytes(b, S)) /\ Cardinality(Bytes(b, S)) \in Nat
<1>1. IsFiniteSet(1..M)
  BY FS_Interval
<1>2. IsFiniteSet(S \X (1..M))
  BY <1>1, FS_Product
<1>3. Bytes(b, S) \in SUBSET (S \X (1..M))
  <2>1. ASSUME NEW p \in Bytes(b, S) PROVE p \in S \X (1..M)
    <3>1. PICK r \in S : \E i \in 1..b[r] : p = <<r, i>>
      BY BytesMember
    <3>2. PICK i \in 1..b[r] : p = <<r, i>>
      BY <3>1
    <3>3. i \in 1..M
      BY <3>2
    <3> QED BY <3>2, <3>3
  <2> QED BY <2>1
<1>4. IsFiniteSet(Bytes(b, S))
  BY <1>2, <1>3, FS_Subset
<1> QED BY <1>4, FS_CardinalityType

\* Fewer replies have no more bytes.
LEMMA BytesFewer ==
  ASSUME NEW S, IsFiniteSet(S), NEW b, NEW M \in Nat, \A r \in S : b[r] \in Nat /\ b[r] <= M,
         NEW T \in SUBSET S
  PROVE  Cardinality(Bytes(b, T)) <= Cardinality(Bytes(b, S))
<1>1. Bytes(b, T) \in SUBSET Bytes(b, S)
  BY DEF Bytes
<1> QED BY <1>1, BytesFinite, FS_Subset

\* One reply more has its bytes more.
LEMMA BytesAdd ==
  ASSUME NEW S, IsFiniteSet(S), NEW b, NEW M \in Nat, NEW r, r \notin S,
         \A x \in S \cup {r} : b[x] \in Nat /\ b[x] <= M
  PROVE  Cardinality(Bytes(b, S \cup {r})) = Cardinality(Bytes(b, S)) + b[r]
<1> DEFINE R == {r} \X (1..b[r])
<1>1. IsFiniteSet(Bytes(b, S)) /\ Cardinality(Bytes(b, S)) \in Nat
  BY BytesFinite
<1>2. IsFiniteSet(1..b[r]) /\ Cardinality(1..b[r]) = b[r]
  <2>1. b[r] \in Nat
    OBVIOUS
  <2>2. \A k \in Nat : IsFiniteSet(1..k) /\ Cardinality(1..k) = k
    <3> TAKE k \in Nat
    <3>1. Cardinality(1..k) = IF 1 > k THEN 0 ELSE k - 1 + 1
      BY FS_Interval
    <3> QED BY <3>1, FS_Interval
  <2> QED BY <2>1, <2>2
<1>3. IsFiniteSet({r}) /\ Cardinality({r}) = 1
  BY FS_Singleton
<1>4. IsFiniteSet(R) /\ Cardinality(R) = b[r]
  <2>1. IsFiniteSet(R) /\ Cardinality(R) = Cardinality({r}) * Cardinality(1..b[r])
    BY <1>2, <1>3, FS_Product
  <2>2. b[r] \in Nat /\ 1 * b[r] = b[r]
    OBVIOUS
  <2> QED BY <1>2, <1>3, <2>1, <2>2
<1>5. Bytes(b, S \cup {r}) = Bytes(b, S) \cup R
  BY DEF Bytes
<1>6. Bytes(b, S) \cap R = {}
  BY BytesMember
<1> HIDE DEF R
<1>7. Cardinality(Bytes(b, S) \cup R) = Cardinality(Bytes(b, S)) + Cardinality(R) - Cardinality({})
  BY <1>1, <1>4, <1>6, FS_Union
<1>8. Cardinality({}) = 0 /\ b[r] \in Nat
  BY FS_EmptySet
<1>9. Cardinality(Bytes(b, S \cup {r})) = Cardinality(Bytes(b, S) \cup R)
  BY <1>5, Zenon
<1> QED BY <1>1, <1>4, <1>7, <1>8, <1>9

\* Only the lengths of the replies themselves matter.
LEMMA BytesSame ==
  ASSUME NEW S, NEW b, NEW c, \A r \in S : b[r] = c[r] PROVE Bytes(b, S) = Bytes(c, S)
BY DEF Bytes

-----------------------------------------------------------------------------
(* The budget.                                                             *)

LEMMA KeptFacts ==
  ASSUME IInv
  PROVE  /\ Kept \subseteq open /\ open \subseteq Replies /\ IsFiniteSet(open) /\ IsFiniteSet(Kept)
         /\ \A r \in open : bytes[r] \in Nat /\ bytes[r] <= MaxReply
         /\ Cardinality(Kept) \in Nat /\ Cardinality(Kept) <= Cardinality(open) /\ MaxReply \in Nat
         /\ Cardinality(open) \in Nat
<1>1. Kept \in SUBSET open /\ open \in SUBSET Replies
  BY DEF Kept, IInv, TypeOK
<1>2. IsFiniteSet(open)
  BY <1>1, ReplyAssumption, FS_Subset
<1>3. IsFiniteSet(Kept) /\ Cardinality(Kept) <= Cardinality(open)
  BY <1>1, <1>2, FS_Subset
<1>4. \A r \in open : bytes[r] \in Nat /\ bytes[r] <= MaxReply
  BY <1>1 DEF IInv, TypeOK, WithinBudget
<1> QED BY <1>1, <1>2, <1>3, <1>4, FS_CardinalityType, ReplyAssumption

\* Dropping buffers keeps the budget.
LEMMA DropKeeps ==
  ASSUME IInv, NEW S \in SUBSET open, open' = S, \A x \in S : bytes'[x] = bytes[x]
  PROVE  WithinBudget'
<1>1. /\ IsFiniteSet(open) /\ \A x \in open : bytes[x] \in Nat /\ bytes[x] <= MaxReply
      /\ MaxReply \in Nat /\ Cardinality(open) \in Nat
  BY KeptFacts
<1>2. Cardinality(S) <= Cardinality(open) /\ IsFiniteSet(S)
  BY <1>1, FS_Subset
<1>3. Cardinality(Bytes(bytes, S)) <= Cardinality(Bytes(bytes, open))
  BY <1>1, BytesFewer
<1>4. Bytes(bytes', S) = Bytes(bytes, S)
  BY BytesSame
<1>5. /\ Total(open) = Cardinality(Bytes(bytes, open))
      /\ Cardinality(Bytes(bytes', open')) <= MaxTotal => Total(open)' <= MaxTotal
  BY DEF Total, Buffered, Bytes
<1>6. Cardinality(Bytes(bytes, S)) \in Nat /\ Cardinality(Bytes(bytes, open)) \in Nat /\ Cardinality(S) \in Nat
  BY <1>1, <1>2, BytesFinite, FS_CardinalityType
<1>7. Cardinality(open) <= MaxBuffers /\ Total(open) <= MaxTotal /\ MaxBuffers \in Nat /\ MaxTotal \in Nat
  BY ReplyAssumption DEF IInv, WithinBudget
<1>8. Cardinality(Bytes(bytes', open')) <= MaxTotal /\ Cardinality(open') <= MaxBuffers
  <2>1. Cardinality(Bytes(bytes', open')) = Cardinality(Bytes(bytes, S)) /\ Cardinality(open') = Cardinality(S)
    BY <1>4, Zenon
  <2> QED BY <1>1, <1>2, <1>3, <1>5, <1>6, <1>7, <2>1
<1>9. \A x \in open' : bytes'[x] <= MaxReply
  BY <1>1
<1> QED BY <1>5, <1>8, <1>9 DEF WithinBudget

\* A pack that fits keeps the budget.
LEMMA JoinKeeps ==
  ASSUME IInv, NEW r \in Replies, NEW n \in Nat, Fits(r, n), open' = Kept \cup {r},
         bytes'[r] = PreviousBytes(r) + n, \A x \in Kept \ {r} : bytes'[x] = bytes[x]
  PROVE  WithinBudget'
<1> DEFINE K == Kept \ {r}
<1>1. /\ Kept \subseteq open /\ IsFiniteSet(Kept) /\ \A x \in open : bytes[x] \in Nat /\ bytes[x] <= MaxReply
      /\ MaxReply \in Nat /\ Cardinality(Kept) \in Nat /\ Cardinality(Kept) <= Cardinality(open)
      /\ Cardinality(open) \in Nat
  BY KeptFacts
<1>2. IsFiniteSet(K) /\ K \subseteq Kept /\ r \notin K
  BY <1>1, FS_RemoveElement
<1>3. PreviousBytes(r) \in Nat /\ PreviousBytes(r) + n <= MaxReply
  BY <1>1 DEF PreviousBytes, Fits
<1>4. \A x \in K \cup {r} : bytes'[x] \in Nat /\ bytes'[x] <= MaxReply
  BY <1>1, <1>2, <1>3
<1>5. open' = K \cup {r}
  OBVIOUS
<1>6. Bytes(bytes', K) = Bytes(bytes, K)
  BY BytesSame
<1>7. Cardinality(Bytes(bytes, K)) \in Nat
  BY <1>1, <1>2, BytesFinite
<1>8. Cardinality(Bytes(bytes, Kept)) = Cardinality(Bytes(bytes, K)) + PreviousBytes(r)
  <2>1. CASE r \in Kept
    <3>1. Kept = K \cup {r} /\ PreviousBytes(r) = bytes[r]
      BY <2>1 DEF PreviousBytes
    <3>2. \A x \in K \cup {r} : bytes[x] \in Nat /\ bytes[x] <= MaxReply
      BY <1>1, <1>2, <2>1
    <3> HIDE DEF K
    <3> QED BY <1>1, <1>2, <3>1, <3>2, BytesAdd
  <2>2. CASE r \notin Kept
    <3>1. K = Kept /\ PreviousBytes(r) = 0
      BY <2>2 DEF PreviousBytes
    <3> QED BY <1>7, <3>1
  <2> QED BY <2>1, <2>2
<1> HIDE DEF K
<1>9. Cardinality(Bytes(bytes', K \cup {r})) = Cardinality(Bytes(bytes', K)) + bytes'[r]
  BY <1>1, <1>2, <1>4, BytesAdd
<1>10. /\ Total(Kept) = Cardinality(Bytes(bytes, Kept))
       /\ Cardinality(Bytes(bytes', open')) <= MaxTotal => Total(open)' <= MaxTotal
  BY DEF Total, Buffered, Bytes
<1>11. Cardinality(Bytes(bytes', open')) = Total(Kept) + n
  <2>1. Cardinality(Bytes(bytes', open')) = Cardinality(Bytes(bytes, K)) + bytes'[r]
    <3>1. Cardinality(Bytes(bytes', K)) = Cardinality(Bytes(bytes, K))
      BY <1>6, Zenon
    <3>2. Cardinality(Bytes(bytes', open')) = Cardinality(Bytes(bytes', K \cup {r}))
      BY <1>5, Zenon
    <3> QED BY <1>9, <3>1, <3>2
  <2> QED BY <1>3, <1>7, <1>8, <1>10, <2>1
<1>12. Total(open)' <= MaxTotal
  BY <1>10, <1>11 DEF Fits
<1>13. Cardinality(open') <= MaxBuffers
  <2>1. Cardinality(Kept \cup {r}) = IF r \in Kept THEN Cardinality(Kept) ELSE Cardinality(Kept) + 1
    BY <1>1, FS_AddElement
  <2>2. Cardinality(open) <= MaxBuffers /\ MaxBuffers \in Nat
    BY ReplyAssumption DEF IInv, WithinBudget
  <2> QED BY <1>1, <2>1, <2>2 DEF Fits
<1> QED BY <1>4, <1>5, <1>12, <1>13 DEF WithinBudget
-----------------------------------------------------------------------------
(* The packs of a reply.                                                   *)

LEMMA UptoFacts ==
  ASSUME NEW n \in Nat \ {0}
  PROVE  /\ Upto(n - 1) \in Seq(Nat) /\ Upto(1) = <<1>>
         /\ Append(Upto(n - 1), n) = Upto(n)
<1>1. n - 1 \in Nat
  OBVIOUS
<1>2. \A m \in Nat : Upto(m) \in Seq(Nat) /\ Len(Upto(m)) = m /\ \A i \in 1..m : Upto(m)[i] = i
  BY DEF Upto
<1>3. Upto(1) = <<1>>
  BY DEF Upto
<1>4. Append(Upto(n - 1), n) = Upto(n)
  <2> DEFINE s == Append(Upto(n - 1), n)
  <2>1. s \in Seq(Nat) /\ Len(s) = n /\ DOMAIN s = 1..n
    BY <1>1, <1>2
  <2>2. \A i \in 1..n : s[i] = i
    <3> TAKE i \in 1..n
    <3>1. Upto(n - 1) \in Seq(Nat) /\ Len(Upto(n - 1)) = n - 1
      BY <1>1, <1>2
    <3>2. CASE i = n
      BY <3>1, <3>2
    <3>3. CASE i # n
      <4>1. i \in 1..(n - 1)
        BY <3>3
      <4>2. s[i] = Upto(n - 1)[i]
        BY <3>1, <4>1
      <4> QED BY <1>1, <1>2, <4>1, <4>2
    <3> QED BY <3>2, <3>3
  <2>3. s = [i \in 1..n |-> s[i]]
    BY <2>1
  <2> HIDE DEF s
  <2>4. s = [i \in 1..n |-> i]
    BY <2>2, <2>3
  <2> QED BY <2>4 DEF s, Upto
<1> QED BY <1>1, <1>2, <1>3, <1>4

\* The scanner's side of a step: a reply that is still steady has gone on.
LEMMA AnsweredFacts ==
  ASSUME IInv, NEW r \in Replies, NEW taken \in BOOLEAN, Answered(r, taken), Sending(r)
  PROVE  /\ next' \in [Replies -> Nat] /\ steady' \in [Replies -> BOOLEAN] /\ last' \in [Replies -> 0..MaxTime]
         /\ next'[r] >= 1 /\ last'[r] <= now
         /\ \A x \in Replies \ {r} : next'[x] = next[x] /\ steady'[x] = steady[x] /\ last'[x] = last[x]
         /\ steady'[r] => /\ steady[r] /\ taken /\ next'[r] = next[r] + 1 /\ last'[r] = now
                          /\ next[r] = 1 \/ now - last[r] < TTL
<1> USE DEF IInv
<1>0. next[r] \in Nat /\ next[r] >= 1 /\ now \in 0..MaxTime /\ steady[r] \in BOOLEAN
  BY DEF TypeOK, Numbers
<1>1. CASE /\ ~taken \/ next[r] < PackCount[r]
           /\ UNCHANGED next
           /\ steady' = [steady EXCEPT ![r] = FALSE]
           /\ last' = [last EXCEPT ![r] = 0]
  <2>1. steady' \in [Replies -> BOOLEAN]
    BY <1>1 DEF TypeOK
  <2>2. last' \in [Replies -> 0..MaxTime] /\ last'[r] = 0 /\ 0 <= now
    <3>1. 0 \in 0..MaxTime /\ 0 <= now
      BY <1>0, ReplyAssumption
    <3> QED BY <1>1, <3>1 DEF TypeOK
  <2>4. ~steady'[r]
    BY <1>1 DEF TypeOK
  <2>3. \A x \in Replies \ {r} : next'[x] = next[x] /\ steady'[x] = steady[x] /\ last'[x] = last[x]
    BY <1>1 DEF TypeOK
  <2>5. next' \in [Replies -> Nat] /\ next'[r] >= 1
    BY <1>0, <1>1 DEF TypeOK
  <2> QED BY <2>1, <2>2, <2>3, <2>4, <2>5
<1>2. ASSUME NEW ok \in BOOLEAN, ok <=> steady[r] /\ taken /\ (next[r] = 1 \/ now - last[r] < TTL),
             next' = [next EXCEPT ![r] = next[r] + 1], steady' = [steady EXCEPT ![r] = ok],
             last' = [last EXCEPT ![r] = IF ok THEN now ELSE 0]
      PROVE  /\ next' \in [Replies -> Nat] /\ steady' \in [Replies -> BOOLEAN] /\ last' \in [Replies -> 0..MaxTime]
             /\ next'[r] >= 1 /\ last'[r] <= now
             /\ \A x \in Replies \ {r} : next'[x] = next[x] /\ steady'[x] = steady[x] /\ last'[x] = last[x]
             /\ steady'[r] => /\ steady[r] /\ taken /\ next'[r] = next[r] + 1 /\ last'[r] = now
                              /\ next[r] = 1 \/ now - last[r] < TTL
  <2>1. steady' \in [Replies -> BOOLEAN] /\ steady'[r] = ok
    BY <1>2 DEF TypeOK
  <2>2. last' \in [Replies -> 0..MaxTime] /\ last'[r] <= now /\ (ok => last'[r] = now)
    <3> DEFINE t == IF ok THEN now ELSE 0
    <3>1. t \in 0..MaxTime /\ t <= now /\ (ok => t = now)
      BY <1>0, ReplyAssumption
    <3>2. last' = [last EXCEPT ![r] = t]
      BY <1>2
    <3> HIDE DEF t
    <3> QED BY <3>1, <3>2 DEF TypeOK
  <2>4. next' \in [Replies -> Nat] /\ next'[r] = next[r] + 1
    BY <1>0, <1>2 DEF TypeOK
  <2>3. \A x \in Replies \ {r} : next'[x] = next[x] /\ steady'[x] = steady[x] /\ last'[x] = last[x]
    BY <1>2 DEF TypeOK
  <2> QED BY <1>0, <1>2, <2>1, <2>2, <2>3, <2>4
<1> QED BY <1>1, <1>2 DEF Answered

\* A pack of r: the buffers of the others are kept, or have been silent for TTL.
LEMMA KeepOthers ==
  ASSUME IInv, NEW r \in Replies, NEW S \in SUBSET Replies, NEW b \in Seq(Nat), NEW n \in Nat, Keep(S, r, b, n),
         S \ {r} = Kept \ {r}, \A x \in Replies \ {r} : updated'[x] = updated[x]
  PROVE  /\ buffer' \in [Replies -> Seq(Nat)] /\ bytes' \in [Replies -> Nat] /\ open' = S
         /\ buffer'[r] = b /\ bytes'[r] = n /\ \A x \in Kept \ {r} : bytes'[x] = bytes[x]
         /\ \A x \in Replies \ {r} :
              /\ x \notin open => x \notin open'
              /\ x \in open /\ now - updated[x] < TTL => x \in open' /\ buffer'[x] = buffer[x]
<1> USE DEF IInv
<1>1. open' = S /\ buffer' = [x \in Replies |-> IF x = r THEN b ELSE IF x \in S THEN buffer[x] ELSE <<>>]
      /\ bytes' = [x \in Replies |-> IF x = r THEN n ELSE IF x \in S THEN bytes[x] ELSE 0]
  BY DEF Keep
<1>2. buffer' \in [Replies -> Seq(Nat)] /\ buffer'[r] = b
  <2>1. \A x \in Replies : buffer[x] \in Seq(Nat) /\ <<>> \in Seq(Nat)
    BY DEF TypeOK
  <2> QED BY <1>1, <2>1
<1>3. bytes' \in [Replies -> Nat] /\ bytes'[r] = n
  BY <1>1 DEF TypeOK
<1>4. \A x \in Replies \ {r} : x \in S <=> x \in Kept
  OBVIOUS
<1>5. Kept \subseteq Replies /\ \A x \in Kept \ {r} : bytes'[x] = bytes[x]
  BY <1>1, <1>4 DEF Kept, TypeOK
<1>6. \A x \in Replies \ {r} :
        /\ x \notin open => x \notin open'
        /\ x \in open /\ now - updated[x] < TTL => x \in open' /\ buffer'[x] = buffer[x]
  BY <1>1, <1>4 DEF Kept
<1> QED BY <1>1, <1>2, <1>3, <1>5, <1>6

\* The replies that sent nothing stay steady, or have been silent for too long.
LEMMA OthersSteady ==
  ASSUME IInv, NEW x \in Replies, now' = now, next'[x] = next[x], steady'[x] = steady[x], last'[x] = last[x],
         updated'[x] = updated[x], x \notin open => x \notin open',
         x \in open /\ now - updated[x] < TTL => x \in open' /\ buffer'[x] = buffer[x],
         steady'[x], x \in Joined
  PROVE  /\ next'[x] = 1 => x \notin open'
         /\ 1 < next'[x] /\ next'[x] <= PackCount[x] /\ now' - last'[x] < TTL =>
              x \in open' /\ buffer'[x] = Upto(next'[x] - 1) /\ updated'[x] = last'[x]
BY DEF IInv, Steady

LEMMA PackKeeps ==
  ASSUME IInv, NEW r \in Replies, NEW n \in 1..MaxPack, Pack(r, n)
  PROVE  IInv'
<1> USE DEF IInv
<1>0. /\ next[r] \in Nat /\ next[r] >= 1 /\ PackCount[r] \in Nat /\ PackCount[r] > 1 /\ n \in Nat /\ now' = now
      /\ next[r] <= PackCount[r] /\ Sending(r) /\ r \in Joined /\ MaxReply \in Nat
  BY ReplyAssumption DEF TypeOK, Numbers, Pack, Sending, Joined
<1>1. PICK taken \in BOOLEAN : Answered(r, taken) /\ (taken <=> Join(r, n) \/ Complete(r, n)) /\ (~taken => Reject(r, n))
  <2>1. CASE (Join(r, n) \/ Complete(r, n)) /\ Answered(r, TRUE)
    BY <2>1
  <2>2. CASE Reject(r, n) /\ Answered(r, FALSE)
    <3>1. ~(Join(r, n) \/ Complete(r, n))
      BY <2>2 DEF Reject, Join, Complete
    <3> QED BY <2>2, <3>1
  <2> QED BY <2>1, <2>2 DEF Pack
<1>2. /\ next' \in [Replies -> Nat] /\ steady' \in [Replies -> BOOLEAN] /\ last' \in [Replies -> 0..MaxTime]
      /\ next'[r] >= 1 /\ last'[r] <= now
      /\ \A x \in Replies \ {r} : next'[x] = next[x] /\ steady'[x] = steady[x] /\ last'[x] = last[x]
      /\ steady'[r] => /\ steady[r] /\ taken /\ next'[r] = next[r] + 1 /\ last'[r] = now
                       /\ next[r] = 1 \/ now - last[r] < TTL
  BY <1>0, <1>1, AnsweredFacts
<1>3. Kept \subseteq Replies /\ Kept \subseteq open
  BY DEF Kept, TypeOK
<1>4. Previous(r) \in Seq(Nat) /\ PreviousBytes(r) \in Nat /\ <<>> \in Seq(Nat)
  BY DEF Previous, PreviousBytes, TypeOK
<1>5. Append(Previous(r), next[r]) \in Seq(Nat) /\ PreviousBytes(r) + n \in Nat
  BY <1>0, <1>4
\* What a steady reply has so far is all that came before.
<1>6. steady'[r] => Previous(r) = Upto(next[r] - 1) /\ Append(Previous(r), next[r]) = Upto(next[r])
  <2> SUFFICES ASSUME steady'[r] PROVE Previous(r) = Upto(next[r] - 1) /\ Append(Previous(r), next[r]) = Upto(next[r])
    OBVIOUS
  <2>1. steady[r] /\ (next[r] = 1 \/ now - last[r] < TTL)
    BY <1>2
  <2>2. Previous(r) = Upto(next[r] - 1)
    <3>1. CASE next[r] = 1
      <4>1. r \notin Kept
        BY <1>0, <1>3, <2>1, <3>1 DEF Steady
      <4>2. Upto(0) = <<>>
        BY DEF Upto
      <4> QED BY <3>1, <4>1, <4>2 DEF Previous
    <3>2. CASE next[r] # 1
      <4>1. r \in open /\ buffer[r] = Upto(next[r] - 1) /\ updated[r] = last[r] /\ now - last[r] < TTL
        BY <1>0, <2>1, <3>2 DEF Steady
      <4> QED BY <4>1 DEF Previous, Kept
    <3> QED BY <3>1, <3>2
  <2>3. Append(Previous(r), next[r]) = Append(Upto(next[r] - 1), next[r])
    BY <2>2, Zenon
  <2>4. next[r] \in Nat \ {0}
    BY <1>0
  <2> QED BY <2>2, <2>3, <2>4, UptoFacts
<1>7. CASE Join(r, n)
  <2>1. /\ Fits(r, n) /\ next[r] < PackCount[r] /\ updated' = [updated EXCEPT ![r] = now] /\ used' = used
        /\ Keep(Kept \cup {r}, r, Append(Previous(r), next[r]), PreviousBytes(r) + n)
    BY <1>7 DEF Join
  <2>2. updated' \in [Replies -> 0..MaxTime] /\ updated'[r] = now /\ \A x \in Replies \ {r} : updated'[x] = updated[x]
    BY <2>1 DEF TypeOK
  <2>3. /\ buffer' \in [Replies -> Seq(Nat)] /\ bytes' \in [Replies -> Nat] /\ open' = Kept \cup {r}
        /\ buffer'[r] = Append(Previous(r), next[r]) /\ bytes'[r] = PreviousBytes(r) + n
        /\ \A x \in Kept \ {r} : bytes'[x] = bytes[x]
        /\ \A x \in Replies \ {r} : /\ x \notin open => x \notin open'
                                    /\ x \in open /\ now - updated[x] < TTL => x \in open' /\ buffer'[x] = buffer[x]
    <3>1. Kept \cup {r} \in SUBSET Replies /\ (Kept \cup {r}) \ {r} = Kept \ {r}
      BY <1>3
    <3> DEFINE S == Kept \cup {r}
               b == Append(Previous(r), next[r])
               m == PreviousBytes(r) + n
    <3>2. S \in SUBSET Replies /\ S \ {r} = Kept \ {r} /\ b \in Seq(Nat) /\ m \in Nat /\ Keep(S, r, b, m)
      BY <1>5, <2>1, <3>1
    <3> HIDE DEF S, b, m
    <3>3. /\ buffer' \in [Replies -> Seq(Nat)] /\ bytes' \in [Replies -> Nat] /\ open' = S
          /\ buffer'[r] = b /\ bytes'[r] = m /\ \A x \in Kept \ {r} : bytes'[x] = bytes[x]
          /\ \A x \in Replies \ {r} : /\ x \notin open => x \notin open'
                                      /\ x \in open /\ now - updated[x] < TTL => x \in open' /\ buffer'[x] = buffer[x]
      BY <2>2, <3>2, KeepOthers
    <3> QED BY <3>3, Zenon DEF S, b, m
  <2>4. TypeOK'
    BY <1>0, <1>2, <1>3, <2>1, <2>2, <2>3 DEF TypeOK
  <2>5. Numbers'
    <3> SUFFICES ASSUME NEW x \in Replies PROVE next'[x] >= 1 /\ updated'[x] <= now' /\ last'[x] <= now'
      BY DEF Numbers
    <3>1. CASE x = r
      BY <1>0, <1>2, <2>2, <3>1 DEF TypeOK
    <3>2. CASE x # r
      BY <1>0, <1>2, <2>2, <3>2 DEF Numbers
    <3> QED BY <3>1, <3>2
  <2>6. WithinBudget'
    BY <1>0, <2>1, <2>3, JoinKeeps
  <2>7. SteadyRepliesAreWhole'
    BY <1>2, <2>1 DEF SteadyRepliesAreWhole
  <2>8. Steady'
    <3> SUFFICES ASSUME NEW x \in Replies, steady'[x], x \in Joined
                 PROVE  /\ next'[x] = 1 => x \notin open'
                        /\ 1 < next'[x] /\ next'[x] <= PackCount[x] /\ now' - last'[x] < TTL =>
                             x \in open' /\ buffer'[x] = Upto(next'[x] - 1) /\ updated'[x] = last'[x]
      BY DEF Steady, Joined
    <3>1. CASE x # r
      BY <1>0, <1>2, <2>2, <2>3, <3>1, OthersSteady
    <3>2. CASE x = r
      <4>1. next'[r] = next[r] + 1 /\ last'[r] = now /\ buffer'[r] = Upto(next[r])
        BY <1>2, <1>6, <2>3, <3>2
      <4>2. next'[r] # 1 /\ next'[r] - 1 = next[r]
        BY <1>0, <4>1
      <4> QED BY <2>2, <2>3, <3>2, <4>1, <4>2
    <3> QED BY <3>1, <3>2
  <2> QED BY <2>4, <2>5, <2>6, <2>7, <2>8
<1>8. CASE Complete(r, n) \/ Reject(r, n)
  <2>1. Keep(Kept \ {r}, r, <<>>, 0) /\ updated' = updated
    BY <1>8 DEF Complete, Reject
  <2>2. /\ buffer' \in [Replies -> Seq(Nat)] /\ bytes' \in [Replies -> Nat] /\ open' = Kept \ {r}
        /\ \A x \in Kept \ {r} : bytes'[x] = bytes[x]
        /\ \A x \in Replies \ {r} : /\ x \notin open => x \notin open'
                                    /\ x \in open /\ now - updated[x] < TTL => x \in open' /\ buffer'[x] = buffer[x]
    <3>1. Kept \ {r} \in SUBSET Replies /\ (Kept \ {r}) \ {r} = Kept \ {r}
      BY <1>3
    <3> QED BY <1>4, <2>1, <3>1, KeepOthers
  <2>3. used' = used \/ (Complete(r, n) /\ used' = [used EXCEPT ![r] = Append(Previous(r), next[r])])
    BY <1>8 DEF Complete, Reject
  <2>4. used' \in [Replies -> Seq(Nat)]
    BY <1>5, <2>3 DEF TypeOK
  <2>5. TypeOK'
    BY <1>0, <1>2, <1>3, <2>1, <2>2, <2>4 DEF TypeOK
  <2>6. Numbers'
    BY <1>0, <1>2, <2>1 DEF Numbers, TypeOK
  <2>7. WithinBudget'
    BY <1>3, <2>2, DropKeeps
  \* A steady reply is not refused, so this is its end.
  <2>8. steady'[r] => Complete(r, n) /\ next[r] = PackCount[r]
    <3>1. ASSUME steady'[r] PROVE Complete(r, n)
      <4>1. Join(r, n) \/ Complete(r, n)
        BY <1>1, <1>2, <3>1
      <4>2. ~Reject(r, n)
        BY <4>1 DEF Join, Complete, Reject
      <4> QED BY <1>8, <4>2
    <3>2. Complete(r, n) => next[r] = PackCount[r]
      BY <1>0 DEF Complete
    <3> QED BY <3>1, <3>2
  <2>9. SteadyRepliesAreWhole'
    <3> SUFFICES ASSUME NEW x \in Replies \ Unkeyed, used'[x] # Unused, steady'[x] PROVE used'[x] = [i \in 1..PackCount[x] |-> i]
      BY DEF SteadyRepliesAreWhole
    <3>1. CASE x # r
      <4>1. used'[x] = used[x] /\ steady[x]
        BY <1>2, <2>3, <3>1 DEF TypeOK
      <4> QED BY <4>1 DEF SteadyRepliesAreWhole
    <3>2. CASE x = r
      <4>1. used' = [used EXCEPT ![r] = Append(Previous(r), next[r])] /\ next[r] = PackCount[r]
        BY <2>8, <3>2 DEF Complete
      <4>2. used'[r] = Append(Previous(r), next[r])
        BY <4>1 DEF TypeOK
      <4> QED BY <1>6, <3>2, <4>1, <4>2 DEF Upto
    <3> QED BY <3>1, <3>2
  <2>10. Steady'
    <3> SUFFICES ASSUME NEW x \in Replies, steady'[x], x \in Joined
                 PROVE  /\ next'[x] = 1 => x \notin open'
                        /\ 1 < next'[x] /\ next'[x] <= PackCount[x] /\ now' - last'[x] < TTL =>
                             x \in open' /\ buffer'[x] = Upto(next'[x] - 1) /\ updated'[x] = last'[x]
      BY DEF Steady, Joined
    <3>1. CASE x # r
      BY <1>0, <1>2, <2>1, <2>2, <3>1, OthersSteady
    <3>2. CASE x = r
      <4>1. next'[r] = PackCount[r] + 1
        BY <1>2, <2>8, <3>2
      <4>2. next'[r] # 1 /\ ~(next'[r] <= PackCount[r])
        BY <1>0, <4>1
      <4> QED BY <3>2, <4>2
    <3> QED BY <3>1, <3>2
  <2> QED BY <2>5, <2>6, <2>7, <2>9, <2>10
<1> QED BY <1>1, <1>7, <1>8

\* A pack that cannot be read, and one of a reply whose packs are not joined.
LEMMA ShortKeeps ==
  ASSUME IInv, NEW r \in Replies, Unread(r) \/ Alone(r)
  PROVE  IInv'
<1> USE DEF IInv
<1>0. /\ next[r] \in Nat /\ next[r] >= 1 /\ PackCount[r] \in Nat /\ Sending(r) /\ now' = now
      /\ open' = open /\ buffer' = buffer /\ bytes' = bytes /\ updated' = updated
  BY ReplyAssumption DEF TypeOK, Numbers, Unread, Alone
<1>1. PICK taken \in BOOLEAN : /\ Answered(r, taken) /\ (taken => r \notin Joined)
                               /\ (used' = used \/ used' = [used EXCEPT ![r] = <<next[r]>>])
                               /\ (taken /\ next[r] >= PackCount[r] => used' = [used EXCEPT ![r] = <<next[r]>>])
  <2>1. CASE Unread(r)
    BY <2>1 DEF Unread
  <2>2. CASE Alone(r)
    <3>1. Answered(r, TRUE) /\ r \notin Joined
      BY <2>2 DEF Alone
    <3>2. used' = IF next[r] < PackCount[r] THEN used ELSE [used EXCEPT ![r] = <<next[r]>>]
      BY <2>2 DEF Alone
    <3>3. used' = used \/ used' = [used EXCEPT ![r] = <<next[r]>>]
      BY <3>2
    <3>4. next[r] >= PackCount[r] => used' = [used EXCEPT ![r] = <<next[r]>>]
      BY <1>0, <3>2
    <3> QED BY <3>1, <3>3, <3>4, Zenon
  <2> QED BY <2>1, <2>2
<1>2. /\ next' \in [Replies -> Nat] /\ steady' \in [Replies -> BOOLEAN] /\ last' \in [Replies -> 0..MaxTime]
      /\ next'[r] >= 1 /\ last'[r] <= now
      /\ \A x \in Replies \ {r} : next'[x] = next[x] /\ steady'[x] = steady[x] /\ last'[x] = last[x]
      /\ steady'[r] => steady[r] /\ taken
  BY <1>0, <1>1, AnsweredFacts
<1>3. used' \in [Replies -> Seq(Nat)]
  <2>1. <<next[r]>> \in Seq(Nat) /\ used \in [Replies -> Seq(Nat)]
    BY <1>0 DEF TypeOK
  <2>2. used' = used \/ used' = [used EXCEPT ![r] = <<next[r]>>]
    BY <1>1
  <2> QED BY <2>1, <2>2
<1>4. TypeOK'
  BY <1>0, <1>2, <1>3 DEF TypeOK
<1>5. Numbers'
  BY <1>0, <1>2 DEF Numbers
<1>6. WithinBudget'
  BY <1>0, DropKeeps
<1>7. SteadyRepliesAreWhole'
  <2> SUFFICES ASSUME NEW x \in Replies \ Unkeyed, used'[x] # Unused, steady'[x] PROVE used'[x] = [i \in 1..PackCount[x] |-> i]
    BY DEF SteadyRepliesAreWhole
  <2>1. CASE x # r
    <3>1. used'[x] = used[x] /\ steady[x]
      BY <1>1, <1>2, <2>1 DEF TypeOK
    <3> QED BY <3>1 DEF SteadyRepliesAreWhole
  <2>2. CASE x = r
    <3>0. taken /\ PackCount[r] = 1 /\ next[r] = 1
      BY <1>0, <1>1, <1>2, <2>2, ReplyAssumption DEF Joined, Sending
    <3>1. used'[r] = <<1>>
      BY <1>0, <1>1, <3>0 DEF TypeOK
    <3>2. Upto(1) = <<1>>
      BY DEF Upto
    <3> QED BY <2>2, <3>0, <3>1, <3>2 DEF Upto
  <2> QED BY <2>1, <2>2
<1>8. Steady'
  <2> SUFFICES ASSUME NEW x \in Replies, steady'[x], x \in Joined
               PROVE  /\ next'[x] = 1 => x \notin open'
                      /\ 1 < next'[x] /\ next'[x] <= PackCount[x] /\ now' - last'[x] < TTL =>
                           x \in open' /\ buffer'[x] = Upto(next'[x] - 1) /\ updated'[x] = last'[x]
    BY DEF Steady, Joined
  <2>1. x # r
    BY <1>1, <1>2
  <2> QED BY <1>0, <1>2, <2>1, OthersSteady
<1> QED BY <1>4, <1>5, <1>6, <1>7, <1>8

LEMMA TickKeeps == ASSUME IInv, Tick \/ UNCHANGED vars PROVE IInv'
<1> USE DEF IInv
<1>1. UNCHANGED <<open, buffer, bytes, updated, next, steady, last, used>> /\ now' \in {now, now + 1} /\ now' \in 0..MaxTime
  BY ReplyAssumption DEF Tick, vars, TypeOK
<1>2. TypeOK'
  BY <1>1 DEF TypeOK
<1>3. Numbers'
  BY <1>1 DEF Numbers, TypeOK
<1>4. WithinBudget'
  BY <1>1, DropKeeps
<1>5. SteadyRepliesAreWhole'
  BY <1>1 DEF SteadyRepliesAreWhole
<1>6. Steady'
  <2> SUFFICES ASSUME NEW x \in Replies, steady[x], x \in Joined
               PROVE  /\ next[x] = 1 => x \notin open
                      /\ 1 < next[x] /\ next[x] <= PackCount[x] /\ now' - last[x] < TTL =>
                           x \in open /\ buffer[x] = Upto(next[x] - 1) /\ updated[x] = last[x]
    BY <1>1 DEF Steady, Joined
  <2>1. now' - last[x] < TTL => now - last[x] < TTL
    BY <1>1, ReplyAssumption DEF TypeOK
  <2> QED BY <2>1 DEF Steady
<1> QED BY <1>2, <1>3, <1>4, <1>5, <1>6

LEMMA InitIInv == Init => IInv
<1> SUFFICES ASSUME Init PROVE IInv
  OBVIOUS
<1>1. TypeOK
  <2>1. steady \in [Replies -> BOOLEAN]
    BY DEF Init
  <2>2. now \in 0..MaxTime /\ updated \in [Replies -> 0..MaxTime] /\ last \in [Replies -> 0..MaxTime]
    BY ReplyAssumption DEF Init
  <2>3. /\ buffer \in [Replies -> Seq(Nat)] /\ bytes \in [Replies -> Nat] /\ next \in [Replies -> Nat]
        /\ used \in [Replies -> Seq(Nat)] /\ open \subseteq Replies
    BY DEF Init, Unused
  <2> QED BY <2>1, <2>2, <2>3 DEF TypeOK
<1>2. Numbers /\ Steady /\ SteadyRepliesAreWhole
  BY DEF Init, Numbers, Steady, SteadyRepliesAreWhole, Joined
<1>3. WithinBudget
  <2>1. open = {} /\ Buffered(open) = {}
    BY DEF Init, Buffered
  <2>2. Total(open) = 0 /\ Cardinality(open) = 0
    BY <2>1, FS_EmptySet DEF Total
  <2> QED BY <2>1, <2>2, ReplyAssumption DEF WithinBudget
<1> QED BY <1>1, <1>2, <1>3 DEF IInv

LEMMA Invariance == Spec => []IInv
<1>1. IInv /\ [Next]_vars => IInv'
  BY TickKeeps, ShortKeeps, PackKeeps DEF Next, handleQueryData
<1> QED BY <1>1, InitIInv, PTL DEF Spec

\* The buffers of replies keep their types.
THEOREM TypeCorrect == Spec => []TypeOK
BY Invariance, PTL DEF IInv

\* collectQueryPack never keeps more than its limits allow, of one reply, of all
\* together and in number, whatever packs come in whatever order.
THEOREM BuffersAreBounded == Spec => []WithinBudget
BY Invariance, PTL DEF IInv

\* A reply whose packs were each taken once and within queryBufferTTL of the one
\* before is used whole and in order, whatever the others send, unless it has no
\* command id.
THEOREM RepliesAreWhole == Spec => []SteadyRepliesAreWhole
BY Invariance, PTL DEF IInv
=============================================================================
