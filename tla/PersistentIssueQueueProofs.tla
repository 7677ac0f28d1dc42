-------------------- MODULE PersistentIssueQueueProofs --------------------
(***************************************************************************)
(* What the operations of the queue preserve, for queues over any set of   *)
(* items.  Later proofs instantiate T: with all items for type             *)
(* correctness, with the items of a bounded attempt count for the budget.  *)
(***************************************************************************)
EXTENDS PersistentIssueQueue, SequenceTheorems, TLAPS

LEMMA IndexOfMatches ==
    ASSUME NEW q, NEW k \in Keys(q)
    PROVE  IndexOf(q, k) \in DOMAIN q /\ q[IndexOf(q, k)].key = k
BY DEF IndexOf, Keys

\* Head and tail, and a removal from the middle, element by element.
LEMMA TailElements ==
    ASSUME NEW T, NEW q \in Seq(T), q # <<>>
    PROVE  /\ 1 \in DOMAIN q /\ Head(q) = q[1] /\ Head(q) \in T
           /\ Tail(q) \in Seq(T)
           /\ \A n \in DOMAIN Tail(q) : n + 1 \in DOMAIN q /\ Tail(q)[n] = q[n + 1]
OBVIOUS

LEMMA DequeueElements ==
    ASSUME NEW T, NEW q \in Seq(T), NEW k \in Keys(q)
    PROVE  /\ DequeueIssue(q, k) \in Seq(T)
           /\ DOMAIN DequeueIssue(q, k) = 1 .. Len(q) - 1
           /\ \A n \in 1 .. Len(q) - 1 :
                DequeueIssue(q, k)[n] = q[IF n < IndexOf(q, k) THEN n ELSE n + 1]
<1> DEFINE at == IndexOf(q, k)
           front == SubSeq(q, 1, at - 1)
           back == SubSeq(q, at + 1, Len(q))
<1>1. at \in 1 .. Len(q)
  BY IndexOfMatches
<1>2. front \in Seq(T) /\ Len(front) = at - 1 /\ \A n \in 1 .. at - 1 : front[n] = q[n]
  BY <1>1, SubSeqProperties
<1>3. back \in Seq(T) /\ Len(back) = Len(q) - at
      /\ \A n \in 1 .. Len(q) - at : back[n] = q[at + n]
  BY <1>1, SubSeqProperties
<1>4. DequeueIssue(q, k) = front \o back
  BY DEF DequeueIssue, RemoveAt
<1> HIDE DEF front, back
<1>5. front \o back \in Seq(T) /\ DOMAIN (front \o back) = 1 .. Len(q) - 1
  BY <1>1, <1>2, <1>3
<1>6. ASSUME NEW n \in 1 .. Len(q) - 1
      PROVE  (front \o back)[n] = q[IF n < at THEN n ELSE n + 1]
  BY <1>1, <1>2, <1>3, ConcatProperties
<1> QED
  BY <1>4, <1>5, <1>6

-------------------------------------------------------------------------
\* Every operation returns a queue over the same items.
THEOREM OperationsTyped ==
    ASSUME NEW T, NEW q \in Seq(T)
    PROVE  /\ \A item \in T : Enqueue(q, item) \in Seq(T)
           /\ \A k : DequeueIssue(q, k) \in Seq(T) /\ MoveToFront(q, k) \in Seq(T)
<1>1. \A item \in T : Enqueue(q, item) \in Seq(T)
  BY DEF Enqueue
<1>2. ASSUME NEW k PROVE DequeueIssue(q, k) \in Seq(T)
  <2>1. CASE k \in Keys(q)
    BY <2>1, DequeueElements
  <2>2. CASE k \notin Keys(q)
    BY <2>2 DEF DequeueIssue
  <2> QED
    BY <2>1, <2>2
<1>3. ASSUME NEW k PROVE MoveToFront(q, k) \in Seq(T)
  <2>1. CASE k \in Keys(q)
    <3>1. <<q[IndexOf(q, k)]>> \in Seq(T)
      BY <2>1, IndexOfMatches
    <3> QED
      BY <2>1, <3>1, <1>2 DEF MoveToFront
  <2>2. CASE k \notin Keys(q)
    BY <2>2 DEF MoveToFront
  <2> QED
    BY <2>1, <2>2
<1> QED
  BY <1>1, <1>2, <1>3

\* The keys an operation leaves: enqueue adds at most its own, the head and a
\* withdrawn issue are gone, a move changes nothing.  The last two hold only
\* while keys are unique.
THEOREM EnqueueKeys ==
    ASSUME NEW T, NEW q \in Seq(T), NEW item \in T
    PROVE  Keys(Enqueue(q, item)) = Keys(q) \cup {item.key}
<1>1. CASE item.key \in Keys(q)
  BY <1>1 DEF Enqueue
<1>2. CASE item.key \notin Keys(q)
  BY <1>2 DEF Enqueue, Keys
<1> QED
  BY <1>1, <1>2

THEOREM DequeuedKeyGone ==
    ASSUME NEW T, NEW q \in Seq(T), UniqueKeys(q), NEW k
    PROVE  k \notin Keys(DequeueIssue(q, k)) /\ Keys(DequeueIssue(q, k)) \subseteq Keys(q)
<1>1. CASE k \in Keys(q)
  <2> DEFINE at == IndexOf(q, k)
             from(n) == IF n < at THEN n ELSE n + 1
  <2>1. at \in 1 .. Len(q) /\ q[at].key = k
    BY <1>1, IndexOfMatches
  <2>2. ASSUME NEW n \in DOMAIN DequeueIssue(q, k)
        PROVE  /\ from(n) \in DOMAIN q /\ from(n) # at
               /\ DequeueIssue(q, k)[n] = q[from(n)]
    BY <1>1, <2>1, DequeueElements
  <2>3. \A n \in DOMAIN DequeueIssue(q, k) :
          DequeueIssue(q, k)[n].key \in Keys(q) \ {k}
    BY <2>1, <2>2 DEF Keys, UniqueKeys
  <2> QED
    BY <2>3 DEF Keys
<1>2. CASE k \notin Keys(q)
  BY <1>2 DEF DequeueIssue
<1> QED
  BY <1>1, <1>2

THEOREM HeadKeyGone ==
    ASSUME NEW T, NEW q \in Seq(T), UniqueKeys(q), q # <<>>
    PROVE  Head(q).key \notin Keys(Tail(q)) /\ Keys(Tail(q)) \subseteq Keys(q)
BY TailElements DEF Keys, UniqueKeys

-------------------------------------------------------------------------
\* Duplicate prevention: no operation of the class makes two entries of one.
THEOREM EnqueueKeepsUnique ==
    ASSUME NEW T, NEW q \in Seq(T), NEW item \in T, UniqueKeys(q)
    PROVE  UniqueKeys(Enqueue(q, item))
<1>1. CASE item.key \in Keys(q)
  BY <1>1 DEF Enqueue
<1>2. CASE item.key \notin Keys(q)
  BY <1>2 DEF Enqueue, UniqueKeys, Keys
<1> QED
  BY <1>1, <1>2

THEOREM TailKeepsUnique ==
    ASSUME NEW T, NEW q \in Seq(T), UniqueKeys(q), q # <<>>
    PROVE  UniqueKeys(Tail(q))
BY TailElements DEF UniqueKeys

THEOREM DequeueKeepsUnique ==
    ASSUME NEW T, NEW q \in Seq(T), UniqueKeys(q), NEW k
    PROVE  UniqueKeys(DequeueIssue(q, k))
<1>1. CASE k \in Keys(q)
  <2> DEFINE at == IndexOf(q, k)
             from(n) == IF n < at THEN n ELSE n + 1
             shorter == DequeueIssue(q, k)
  <2>1. at \in 1 .. Len(q)
    BY <1>1, IndexOfMatches
  <2>2. ASSUME NEW n \in DOMAIN shorter
        PROVE  n \in Nat /\ from(n) \in DOMAIN q /\ shorter[n] = q[from(n)]
    BY <1>1, <2>1, DequeueElements
  <2> HIDE DEF shorter
  <2>3. ASSUME NEW m \in DOMAIN shorter, NEW n \in DOMAIN shorter,
               shorter[m].key = shorter[n].key
        PROVE  m = n
    <3>1. from(m) = from(n)
      BY <2>2, <2>3 DEF UniqueKeys
    <3> QED
      BY <2>1, <2>2, <3>1
  <2>4. UniqueKeys(shorter)
    BY <2>3 DEF UniqueKeys
  <2> QED
    BY <2>4 DEF shorter
<1>2. CASE k \notin Keys(q)
  BY <1>2 DEF DequeueIssue
<1> QED
  BY <1>1, <1>2

THEOREM MoveKeepsUnique ==
    ASSUME NEW T, NEW q \in Seq(T), UniqueKeys(q), NEW k
    PROVE  UniqueKeys(MoveToFront(q, k))
<1>1. CASE k \in Keys(q)
  <2> DEFINE first == q[IndexOf(q, k)]
             rest == DequeueIssue(q, k)
  <2>1. first \in T /\ first.key = k
    BY <1>1, IndexOfMatches
  <2>2. rest \in Seq(T) /\ UniqueKeys(rest) /\ k \notin Keys(rest)
    BY OperationsTyped, DequeueKeepsUnique, DequeuedKeyGone
  <2>3. MoveToFront(q, k) = <<first>> \o rest
    BY <1>1 DEF MoveToFront
  <2> HIDE DEF first, rest
  <2>4. /\ DOMAIN (<<first>> \o rest) = 1 .. Len(rest) + 1
        /\ (<<first>> \o rest)[1] = first
        /\ \A n \in 2 .. Len(rest) + 1 :
             n - 1 \in DOMAIN rest /\ (<<first>> \o rest)[n] = rest[n - 1]
    BY <2>1, <2>2
  <2> QED
    BY <2>1, <2>2, <2>3, <2>4 DEF UniqueKeys, Keys
<1>2. CASE k \notin Keys(q)
  BY <1>2 DEF MoveToFront
<1> QED
  BY <1>1, <1>2

=========================================================================
