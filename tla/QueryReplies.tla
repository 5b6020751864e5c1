---------------------------- MODULE QueryReplies ----------------------------
(***************************************************************************)
(* The replies to queries that scanners send in several packs: the first   *)
(* half of handleQueryData (main.go) and collectQueryPack (adms_limits.go).*)
(*                                                                         *)
(* The packs of a reply are joined in queryBuffers until the last one      *)
(* comes; the reply is then used and its command reported as done.  The    *)
(* code does not look at the numbers of the packs, only at whether one is  *)
(* the last.  A reply over its own limit, or over what all the unfinished  *)
(* ones may take, is dropped and the scanner told so; one that has been    *)
(* silent for a minute is dropped when any other pack arrives.  The packs  *)
(* of a reply without a command id are not joined: the last is used alone. *)
(***************************************************************************)
EXTENDS Naturals, Sequences, FiniteSets

CONSTANTS Replies,      \* keys of queryBuffers: scanner, command id, table
          Unkeyed,      \* those without a command id
          PackCount,    \* PackCount[r]: packcnt, the packs of r
          MaxPack,      \* bound: bytes of a pack
          MaxReply,     \* maxQueryBufferBytes
          MaxTotal,     \* maxTotalQueryBytes
          MaxBuffers,   \* maxQueryBuffers
          TTL,          \* queryBufferTTL, in ticks
          MaxTime       \* bound: ticks

ASSUME ReplyAssumption ==
  /\ IsFiniteSet(Replies) /\ Unkeyed \subseteq Replies /\ PackCount \in [Replies -> Nat \ {0}]
  /\ MaxPack \in Nat /\ MaxReply \in Nat /\ MaxTotal \in Nat /\ MaxBuffers \in Nat
  /\ MaxPack <= MaxReply /\ TTL \in Nat \ {0} /\ MaxTime \in Nat

VARIABLES
  now,
  open,     \* the replies that have a buffer
  buffer,   \* buffer[r]: the numbers of the packs in it
  bytes,    \* bytes[r]: their length
  updated,  \* queryBufferUpdated
  next,     \* next[r]: the pack the scanner sends next
  steady,   \* history: every pack of r was taken, once, within TTL of the last
  last,     \* history: when the last pack of a steady reply came
  used      \* used[r]: the packs of r as they were used, or unused

vars == <<now, open, buffer, bytes, updated, next, steady, last, used>>

Unused == <<0>>

TypeOK ==
  /\ now \in 0..MaxTime /\ open \subseteq Replies
  /\ buffer \in [Replies -> Seq(Nat)] /\ bytes \in [Replies -> Nat]
  /\ updated \in [Replies -> 0..MaxTime] /\ last \in [Replies -> 0..MaxTime]
  /\ next \in [Replies -> Nat] /\ steady \in [Replies -> BOOLEAN]
  /\ used \in [Replies -> Seq(Nat)]

Init ==
  /\ now = 0 /\ open = {}
  /\ buffer = [r \in Replies |-> <<>>] /\ bytes = [r \in Replies |-> 0]
  /\ updated = [r \in Replies |-> 0] /\ last = [r \in Replies |-> 0]
  /\ next = [r \in Replies |-> 1] /\ steady = [r \in Replies |-> TRUE]
  /\ used = [r \in Replies |-> Unused]

Tick ==
  /\ now < MaxTime /\ now' = now + 1
  /\ UNCHANGED <<open, buffer, bytes, updated, next, steady, last, used>>

-----------------------------------------------------------------------------
(* collectQueryPack                                                        *)

\* The replies that are kept when a pack arrives.
Kept == {r \in open : now - updated[r] < TTL}

\* The bytes in the buffers of the replies in S, and how many they are.
Buffered(S) == UNION {{r} \X (1..bytes[r]) : r \in S}
Total(S)    == Cardinality(Buffered(S))

\* What r has so far: nothing, if it was dropped.
Previous(r)      == IF r \in Kept THEN buffer[r] ELSE <<>>
PreviousBytes(r) == IF r \in Kept THEN bytes[r] ELSE 0

\* Mutation: the pack itself is not counted.
Fits_uncounted(r, n) ==
  /\ PreviousBytes(r) <= MaxReply /\ Total(Kept) <= MaxTotal
  /\ r \in Kept \/ Cardinality(Kept) < MaxBuffers

\* A pack of n bytes is within the limits.
Fits(r, n) ==
  /\ PreviousBytes(r) + n <= MaxReply /\ Total(Kept) + n <= MaxTotal
  /\ r \in Kept \/ Cardinality(Kept) < MaxBuffers

\* Only the replies in S keep a buffer, and r's is now b, of n bytes.
Keep(S, r, b, n) ==
  /\ open' = S
  /\ buffer' = [x \in Replies |-> IF x = r THEN b ELSE IF x \in S THEN buffer[x] ELSE <<>>]
  /\ bytes'  = [x \in Replies |-> IF x = r THEN n ELSE IF x \in S THEN bytes[x] ELSE 0]

\* Mutation: the time of a reply is that of its first pack.
Join_keepsTime(r, n) ==
  /\ Fits(r, n) /\ next[r] < PackCount[r]
  /\ Keep(Kept \cup {r}, r, Append(Previous(r), next[r]), PreviousBytes(r) + n)
  /\ updated' = [updated EXCEPT ![r] = IF r \in Kept THEN @ ELSE now]
  /\ UNCHANGED used

\* A pack that is not the last is added to the buffer ...
Join(r, n) ==
  /\ Fits(r, n) /\ next[r] < PackCount[r]
  /\ Keep(Kept \cup {r}, r, Append(Previous(r), next[r]), PreviousBytes(r) + n)
  /\ updated' = [updated EXCEPT ![r] = now]
  /\ UNCHANGED used

\* ... and the last one ends it: the reply is used, and its command reported.
Complete(r, n) ==
  /\ Fits(r, n) /\ next[r] >= PackCount[r]
  /\ Keep(Kept \ {r}, r, <<>>, 0)
  /\ used' = [used EXCEPT ![r] = Append(Previous(r), next[r])]
  /\ UNCHANGED updated

\* The limits are exceeded: the reply is dropped, and the answer is 413.
Reject(r, n) ==
  /\ ~Fits(r, n)
  /\ Keep(Kept \ {r}, r, <<>>, 0)
  /\ UNCHANGED <<updated, used>>

-----------------------------------------------------------------------------
(* handleQueryData                                                         *)

\* The scanner goes on to the next pack, or repeats this one because the answer
\* was lost or it was refused.  A last pack that was taken is not repeated: its
\* command is done.
Answered(r, taken) ==
  \/ LET ok == steady[r] /\ taken /\ (next[r] = 1 \/ now - last[r] < TTL) IN
     /\ next' = [next EXCEPT ![r] = @ + 1]
     /\ steady' = [steady EXCEPT ![r] = ok]
     /\ last' = [last EXCEPT ![r] = IF ok THEN now ELSE 0]
  \/ /\ ~taken \/ next[r] < PackCount[r]
     /\ UNCHANGED next
     /\ steady' = [steady EXCEPT ![r] = FALSE]
     /\ last' = [last EXCEPT ![r] = 0]

Sending(r) == next[r] <= PackCount[r]

\* The body cannot be read: the pack is acknowledged and forgotten.
Unread(r) ==
  /\ Sending(r) /\ Answered(r, FALSE)
  /\ UNCHANGED <<now, open, buffer, bytes, updated, used>>

\* The replies whose packs are joined.
Joined == {r \in Replies \ Unkeyed : PackCount[r] > 1}

\* A pack of another: the last one is used as it is, one before it is only
\* acknowledged.
Alone(r) ==
  /\ Sending(r) /\ r \notin Joined
  /\ used' = IF next[r] < PackCount[r] THEN used ELSE [used EXCEPT ![r] = <<next[r]>>]
  /\ Answered(r, TRUE)
  /\ UNCHANGED <<now, open, buffer, bytes, updated>>

\* A pack of n bytes of a reply whose packs are joined.
Pack(r, n) ==
  /\ Sending(r) /\ r \in Joined
  /\ \/ (Join(r, n) \/ Complete(r, n)) /\ Answered(r, TRUE)
     \/ Reject(r, n) /\ Answered(r, FALSE)
  /\ UNCHANGED now

handleQueryData(r) == Unread(r) \/ Alone(r) \/ (\E n \in 1..MaxPack : Pack(r, n))

Next == Tick \/ \E r \in Replies : handleQueryData(r)

Spec == Init /\ [][Next]_vars

-----------------------------------------------------------------------------
(* Properties.                                                             *)

\* The limits README.md promises: no unfinished reply, nor all of them together,
\* nor their number, exceeds its bound, whatever order the packs of several
\* scanners arrive in.
WithinBudget ==
  /\ \A r \in open : bytes[r] <= MaxReply
  /\ Total(open) <= MaxTotal
  /\ Cardinality(open) <= MaxBuffers

\* A reply whose packs were each taken once, within a minute of the one before,
\* is used whole and in order, whatever the other scanners send: a pack of
\* another reply never drops it, and its last pack finds all the others.  The
\* exception: of a reply without a command id only the last pack is used.
SteadyRepliesAreWhole ==
  \A r \in Replies \ Unkeyed : used[r] # Unused /\ steady[r] => used[r] = [i \in 1..PackCount[r] |-> i]
=============================================================================
