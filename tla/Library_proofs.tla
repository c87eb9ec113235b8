--------------------------- MODULE Library_proofs ---------------------------
(***************************************************************************)
(* Proofs about two parts of the dborb library.  The event loop: what      *)
(* poll() reported is applied to the socket it was asked about, references *)
(* to sockets are exact, and every child is on the queue of processes      *)
(* until it is reaped.  The buffers of D-Bus arrays: nothing is written    *)
(* behind their end, for every size of the chunk, every set of keys and    *)
(* every length.  The two do not meet; the buffers are at the end.         *)
(***************************************************************************)
EXTENDS EventLoop, VariantBuffer, TLAPS, SequenceTheorems, FiniteSetTheorems

-----------------------------------------------------------------------------
(* The event loop: the inductive invariant                                 *)

\* Where the dispatching of messages may return to.
Return == {"main", "prep", "post", "exited", "received"}

Slots == Seq(Sock \cup {None})
Table == [slots : Slots, ref : [Sock -> Int]]

LoopTypeOK ==
    /\ pc \in Return \cup {"top", "poll", "reap", "waitpid", "exit", "walk",
                           "dispatching", "undefined"}
    /\ ret \in Return
    /\ sk \in Table
    /\ pfd \in Seq(Sock)
    /\ rev \in Seq(SUBSET {"in", "hup"})
    /\ idx \in Nat /\ tmo \in Int /\ timer \in Nat
    /\ inbox \in Seq(Message) /\ queue \in Seq(Message) /\ unsent \in SUBSET Message
    /\ kid \in [Proc -> {"none", "running", "zombie", "gone"}]
    /\ held \in SUBSET Proc /\ pb \in SUBSET Proc
    /\ heap \in [Proc -> {"none", "live", "freed"}]
    /\ waitq \in Seq(Proc)
    /\ sig \in BOOLEAN /\ intr \in BOOLEAN
    /\ exiting \in Proc \cup {None}

\* No element but those of X is there twice.
Distinct(q, X) == \A i, j \in DOMAIN q : q[i] = q[j] /\ q[i] \notin X => i = j

\* The phase of the loop, also while messages are dispatched in it.
Phase == IF pc = "dispatching" THEN ret ELSE pc

\* The references to a socket: of the table, of its owner, of the walk.
Refs(k, s) ==
    (IF Active(k, s) THEN 1 ELSE 0)
    + (IF s = Bus THEN 2 ELSE IF s \in pb THEN 1 ELSE 0)
    + (IF s = Bus /\ Phase = "received" THEN 1 ELSE 0)

SlotsInv ==
    /\ Distinct(sk.slots, {None})
    /\ \A s \in Sock : sk.ref[s] = Refs(sk, s)

\* From the preparation of poll() to the end of the walk positions are stable.
Polled == {"prep", "poll", "reap", "waitpid", "exit", "exited", "walk", "received"}
StableInv ==
    Phase \in Polled =>
        \A i \in DOMAIN pfd : i \in DOMAIN sk.slots /\ sk.slots[i] \in {None, pfd[i]}

\* What was sent is read once: a message is in one place only.
Arrived == queue \o inbox
MessagesInv ==
    /\ Distinct(Arrived, {})
    /\ ToSet(Arrived) \cap unsent = {}

\* A process that was not asked for yet has left no trace.
FreshInv ==
    \A p \in Proc : <<"run", p>> \in unsent \cup ToSet(Arrived) =>
        /\ kid[p] = "none" /\ heap[p] = "none" /\ p \notin pb
        /\ p \notin ToSet(waitq) /\ p \notin ToSet(sk.slots)

QueueInv ==
    /\ Distinct(waitq, {})
    /\ WaitQueueSound
    /\ \A p \in Proc : exiting = p => kid[p] = "gone" /\ p \notin ToSet(waitq)

LoopInv ==
    /\ LoopTypeOK /\ SlotsInv /\ StableInv
    /\ MessagesInv /\ FreshInv /\ QueueInv

-----------------------------------------------------------------------------
(* Sequences without repetition                                            *)

\* What the standard facts say of a sequence, in one place.
LEMMA SeqFacts ==
    ASSUME NEW S, NEW q \in Seq(S)
    PROVE  /\ Len(q) \in Nat /\ DOMAIN q = 1 .. Len(q)
           /\ \A i \in DOMAIN q : q[i] \in S
           /\ ToSet(q) \subseteq S
    BY LenProperties, ElementOfSeq DEF ToSet

\* One element is a sequence.
LEMMA SingletonSeq ==
    ASSUME NEW S, NEW e \in S
    PROVE  <<e>> \in Seq(S)
    OBVIOUS

\* The elements of a sequence to which another is appended.
LEMMA ConcatFacts ==
    ASSUME NEW S, NEW q \in Seq(S), NEW r \in Seq(S)
    PROVE  /\ q \o r \in Seq(S)
           /\ DOMAIN (q \o r) = 1 .. Len(q) + Len(r)
           /\ \A i \in DOMAIN q : i \in DOMAIN (q \o r) /\ (q \o r)[i] = q[i]
           /\ \A j \in DOMAIN r : Len(q) + j \in DOMAIN (q \o r) /\ (q \o r)[Len(q) + j] = r[j]
           /\ \A i \in DOMAIN (q \o r) :
                 \/ i \in DOMAIN q /\ (q \o r)[i] = q[i]
                 \/ i > Len(q) /\ i - Len(q) \in DOMAIN r /\ (q \o r)[i] = r[i - Len(q)]
           /\ ToSet(q \o r) = ToSet(q) \cup ToSet(r)
<1> DEFINE t == q \o r
<1>1. /\ t \in Seq(S) /\ Len(t) = Len(q) + Len(r)
      /\ \A i \in 1 .. Len(q) + Len(r) : t[i] = IF i <= Len(q) THEN q[i] ELSE r[i - Len(q)]
    BY ConcatProperties
<1>2. /\ Len(q) \in Nat /\ DOMAIN q = 1 .. Len(q)
      /\ Len(r) \in Nat /\ DOMAIN r = 1 .. Len(r)
      /\ DOMAIN t = 1 .. Len(t)
    BY <1>1, SeqFacts
<1> HIDE DEF t
<1>3. \A i \in DOMAIN q : i \in DOMAIN t /\ t[i] = q[i]
    BY <1>1, <1>2
<1>4. ASSUME NEW j \in DOMAIN r
      PROVE  Len(q) + j \in DOMAIN t /\ t[Len(q) + j] = r[j]
    <2>1. j \in Nat /\ j >= 1 /\ j <= Len(r)
        BY <1>2
    <2>2. Len(q) + j \in 1 .. Len(q) + Len(r) /\ ~(Len(q) + j <= Len(q)) /\ (Len(q) + j) - Len(q) = j
        BY <2>1, <1>2
    <2>3. t[Len(q) + j] = r[(Len(q) + j) - Len(q)]
        BY <1>1, <2>2
    <2> QED
        BY <1>1, <1>2, <2>2, <2>3
<1>5. ASSUME NEW i \in DOMAIN t
      PROVE  \/ i \in DOMAIN q /\ t[i] = q[i]
             \/ i > Len(q) /\ i - Len(q) \in DOMAIN r /\ t[i] = r[i - Len(q)]
    BY <1>1, <1>2
<1>6. ToSet(t) = ToSet(q) \cup ToSet(r)
    <2>1. ToSet(t) \subseteq ToSet(q) \cup ToSet(r)
        BY <1>5 DEF ToSet
    <2>2. ToSet(q) \subseteq ToSet(t)
        BY <1>3 DEF ToSet
    <2>3. ToSet(r) \subseteq ToSet(t)
        BY <1>4 DEF ToSet
    <2> QED
        BY <2>1, <2>2, <2>3
<1> QED
    BY <1>1, <1>2, <1>3, <1>4, <1>5, <1>6 DEF t

\* Appending what is not there keeps the elements distinct.
LEMMA AppendDistinct ==
    ASSUME NEW S, NEW q \in Seq(S), NEW e \in S, NEW X, Distinct(q, X), e \notin ToSet(q)
    PROVE  /\ Append(q, e) \in Seq(S) /\ Distinct(Append(q, e), X)
           /\ ToSet(Append(q, e)) = ToSet(q) \cup {e}
           /\ \A i \in DOMAIN q : i \in DOMAIN Append(q, e) /\ Append(q, e)[i] = q[i]
<1>0. PICK r : r = <<e>>
    OBVIOUS
<1>1. r \in Seq(S) /\ Len(r) = 1 /\ DOMAIN r = {1} /\ r[1] = e
    BY <1>0
<1>2. Append(q, e) = q \o r
    BY <1>0, AppendIsConcat
<1>3. ToSet(r) = {e}
    BY <1>1 DEF ToSet
<1>4. PICK t : t = q \o r
    OBVIOUS
<1>5. /\ t \in Seq(S) /\ ToSet(t) = ToSet(q) \cup {e}
      /\ \A i \in DOMAIN q : i \in DOMAIN t /\ t[i] = q[i]
      /\ \A i \in DOMAIN t : \/ i \in DOMAIN q /\ t[i] = q[i]
                             \/ i > Len(q) /\ i - Len(q) \in DOMAIN r /\ t[i] = r[i - Len(q)]
    BY <1>1, <1>3, <1>4, ConcatFacts
<1>6. \A i \in DOMAIN t : (i \in DOMAIN q /\ t[i] = q[i]) \/ (i - Len(q) = 1 /\ t[i] = e)
    BY <1>1, <1>5
<1>7. Len(q) \in Nat /\ \A i \in DOMAIN t : i \in Nat
    BY <1>5, SeqFacts
<1>8. Distinct(t, X)
    <2> SUFFICES ASSUME NEW i \in DOMAIN t, NEW j \in DOMAIN t, t[i] = t[j], t[i] \notin X
                 PROVE  i = j
        BY DEF Distinct
    <2>1. CASE i \in DOMAIN q /\ j \in DOMAIN q
        BY <1>5, <2>1 DEF Distinct
    <2>2. CASE i - Len(q) = 1 /\ j - Len(q) = 1
        BY <1>7, <2>2
    <2>3. \A k \in DOMAIN q : q[k] # e
        BY DEF ToSet
    <2> QED
        BY <1>6, <2>1, <2>2, <2>3
<1> QED
    BY <1>2, <1>4, <1>5, <1>8

\* The tail of a sequence of distinct elements no longer has its head.
LEMMA TailDistinct ==
    ASSUME NEW S, NEW q \in Seq(S), q # <<>>, Distinct(q, {})
    PROVE  /\ Head(q) \in S /\ Tail(q) \in Seq(S) /\ Distinct(Tail(q), {})
           /\ Head(q) \in ToSet(q) /\ ToSet(Tail(q)) = ToSet(q) \ {Head(q)}
<1>1. /\ Len(q) \in Nat \ {0} /\ DOMAIN q = 1 .. Len(q) /\ Head(q) = q[1]
      /\ \A i \in DOMAIN q : q[i] \in S
    BY SeqFacts, EmptySeq
<1>2. PICK t \in Seq(S) : t = Tail(q)
    BY HeadTailProperties
<1>3. /\ DOMAIN t = 1 .. Len(q) - 1
      /\ \A i \in 1 .. Len(q) - 1 : t[i] = q[i + 1]
    BY <1>1, <1>2, HeadTailProperties, SeqFacts
<1>4. Distinct(t, {})
    <2> SUFFICES ASSUME NEW i \in DOMAIN t, NEW j \in DOMAIN t, t[i] = t[j]
                 PROVE  i = j
        BY DEF Distinct
    <2>1. i \in Nat /\ j \in Nat /\ i + 1 \in DOMAIN q /\ j + 1 \in DOMAIN q
        BY <1>1, <1>3
    <2>2. q[i + 1] = q[j + 1]
        BY <1>3
    <2>3. i + 1 = j + 1
        BY <2>1, <2>2 DEF Distinct
    <2> QED
        BY <2>1, <2>3
<1>5. ASSUME NEW x \in ToSet(t)
      PROVE  x \in ToSet(q) \ {Head(q)}
    <2>1. PICK i \in DOMAIN t : t[i] = x
        BY <1>5 DEF ToSet
    <2>2. i + 1 \in DOMAIN q /\ i + 1 # 1 /\ q[i + 1] = x /\ 1 \in DOMAIN q
        BY <1>1, <1>3, <2>1
    <2>4. x # q[1]
        BY <2>2 DEF Distinct
    <2> QED
        BY <1>1, <2>2, <2>4 DEF ToSet
<1>6. ASSUME NEW x \in ToSet(q) \ {Head(q)}
      PROVE  x \in ToSet(t)
    <2>1. PICK i \in DOMAIN q : q[i] = x
        BY <1>6 DEF ToSet
    <2>2. i # 1
        BY <1>1, <1>6, <2>1
    <2>3. i - 1 \in DOMAIN t /\ (i - 1) + 1 = i
        BY <1>1, <1>3, <2>2
    <2>4. t[i - 1] = x
        BY <1>3, <2>1, <2>3
    <2> QED
        BY <2>3, <2>4 DEF ToSet
<1>7. Head(q) \in S /\ Head(q) \in ToSet(q)
    <2>1. 1 \in DOMAIN q
        BY <1>1
    <2> QED
        BY <1>1, <2>1 DEF ToSet
<1>8. ToSet(t) = ToSet(q) \ {Head(q)}
    BY <1>5, <1>6
<1> QED
    BY <1>2, <1>4, <1>7, <1>8

\* A new first element.
LEMMA PrependDistinct ==
    ASSUME NEW S, NEW q \in Seq(S), NEW e \in S, NEW X, Distinct(q, X), e \notin ToSet(q)
    PROVE  /\ <<e>> \o q \in Seq(S) /\ Distinct(<<e>> \o q, X)
           /\ ToSet(<<e>> \o q) = ToSet(q) \cup {e}
<1>0. PICK r : r = <<e>>
    OBVIOUS
<1>1. r \in Seq(S) /\ Len(r) = 1 /\ DOMAIN r = {1} /\ r[1] = e
    BY <1>0
<1>2. ToSet(r) = {e}
    BY <1>1 DEF ToSet
<1>3. PICK t : t = r \o q
    OBVIOUS
<1>4. /\ t \in Seq(S) /\ ToSet(t) = {e} \cup ToSet(q)
      /\ \A i \in DOMAIN t : \/ i \in DOMAIN r /\ t[i] = r[i]
                             \/ i > Len(r) /\ i - Len(r) \in DOMAIN q /\ t[i] = q[i - Len(r)]
    <2>1. r \in Seq(S)
        BY <1>1
    <2>2. /\ t \in Seq(S) /\ ToSet(t) = ToSet(r) \cup ToSet(q)
          /\ \A i \in DOMAIN t : \/ i \in DOMAIN r /\ t[i] = r[i]
                                 \/ i > Len(r) /\ i - Len(r) \in DOMAIN q /\ t[i] = q[i - Len(r)]
        BY <1>3, <2>1, ConcatFacts
    <2> QED
        BY <1>2, <2>2
<1>5. \A i \in DOMAIN t : (i = 1 /\ t[i] = e) \/ (i - 1 \in DOMAIN q /\ t[i] = q[i - 1])
    BY <1>1, <1>4
<1>6. \A i \in DOMAIN t : i \in Nat
    BY <1>4, SeqFacts
<1>7. Distinct(t, X)
    <2> SUFFICES ASSUME NEW i \in DOMAIN t, NEW j \in DOMAIN t, t[i] = t[j], t[i] \notin X
                 PROVE  i = j
        BY DEF Distinct
    <2>1. CASE i - 1 \in DOMAIN q /\ t[i] = q[i - 1] /\ j - 1 \in DOMAIN q /\ t[j] = q[j - 1]
        <3>1. i - 1 = j - 1
            BY <2>1 DEF Distinct
        <3> QED
            BY <1>6, <3>1
    <2>2. CASE i = 1 /\ j = 1
        BY <2>2
    <2>3. \A k \in DOMAIN q : q[k] # e
        BY DEF ToSet
    <2> QED
        BY <1>5, <2>1, <2>2, <2>3
<1> QED
    BY <1>0, <1>3, <1>4, <1>7

\* The element at i is unlinked.
LEMMA RemoveDistinct ==
    ASSUME NEW S, NEW q \in Seq(S), NEW i \in DOMAIN q, Distinct(q, {})
    PROVE  /\ RemoveAt(q, i) \in Seq(S) /\ Distinct(RemoveAt(q, i), {})
           /\ ToSet(RemoveAt(q, i)) = ToSet(q) \ {q[i]}
<1>1. /\ Len(q) \in Nat /\ DOMAIN q = 1 .. Len(q) /\ i \in Nat /\ i >= 1 /\ i <= Len(q)
      /\ \A k \in DOMAIN q : q[k] \in S
    BY SeqFacts
<1>2. PICK n \in Nat : n = Len(q)
    BY <1>1
<1>3. PICK a : a = SubSeq(q, 1, i - 1)
    OBVIOUS
<1>4. a \in Seq(S) /\ Len(a) = i - 1 /\ DOMAIN a = 1 .. i - 1 /\ \A k \in 1 .. i - 1 : a[k] = q[k]
    <2>1. \A k \in 1 .. i - 1 : q[k] \in S
        BY <1>1
    <2>2. 1 \in Int /\ i - 1 \in Int
        BY <1>1
    <2>3. /\ a \in Seq(S) /\ Len(a) = IF 1 <= i - 1 THEN (i - 1) - 1 + 1 ELSE 0
          /\ \A k \in 1 .. (i - 1) - 1 + 1 : a[k] = q[1 + k - 1]
        BY <1>3, <2>1, <2>2, SubSeqProperties
    <2>4. Len(a) = i - 1 /\ (i - 1) - 1 + 1 = i - 1 /\ DOMAIN a = 1 .. Len(a)
        BY <1>1, <2>3, SeqFacts
    <2>5. \A k \in 1 .. i - 1 : 1 + k - 1 = k
        BY <1>1
    <2> QED
        BY <2>3, <2>4, <2>5
<1>5. PICK b : b = SubSeq(q, i + 1, n)
    OBVIOUS
<1>6. b \in Seq(S) /\ Len(b) = n - i /\ DOMAIN b = 1 .. n - i /\ \A k \in 1 .. n - i : b[k] = q[i + k]
    <2>1. \A k \in i + 1 .. n : q[k] \in S
        BY <1>1, <1>2
    <2>2. i + 1 \in Int /\ n \in Int
        BY <1>1
    <2>3. /\ b \in Seq(S) /\ Len(b) = IF i + 1 <= n THEN n - (i + 1) + 1 ELSE 0
          /\ \A k \in 1 .. n - (i + 1) + 1 : b[k] = q[(i + 1) + k - 1]
        BY <1>5, <2>1, <2>2, SubSeqProperties
    <2>4. Len(b) = n - i /\ n - (i + 1) + 1 = n - i /\ DOMAIN b = 1 .. Len(b)
        BY <1>1, <1>2, <2>3, SeqFacts
    <2>5. \A k \in 1 .. n - i : (i + 1) + k - 1 = i + k
        BY <1>1, <1>2
    <2> QED
        BY <2>3, <2>4, <2>5
<1>7. PICK t : t = a \o b
    OBVIOUS
<1>8. RemoveAt(q, i) = t
    BY <1>2, <1>3, <1>5, <1>7 DEF RemoveAt
<1>9. /\ t \in Seq(S) /\ ToSet(t) = ToSet(a) \cup ToSet(b)
      /\ \A k \in DOMAIN t : \/ k \in DOMAIN a /\ t[k] = a[k]
                             \/ k > Len(a) /\ k - Len(a) \in DOMAIN b /\ t[k] = b[k - Len(a)]
      /\ \A k \in DOMAIN t : k \in Nat
    <2>1. a \in Seq(S) /\ b \in Seq(S)
        BY <1>4, <1>6
    <2>2. /\ t \in Seq(S) /\ ToSet(t) = ToSet(a) \cup ToSet(b)
          /\ \A k \in DOMAIN t : \/ k \in DOMAIN a /\ t[k] = a[k]
                                 \/ k > Len(a) /\ k - Len(a) \in DOMAIN b /\ t[k] = b[k - Len(a)]
        BY <1>7, <2>1, ConcatFacts
    <2>3. \A k \in DOMAIN t : k \in Nat
        BY <2>2, SeqFacts
    <2> QED
        BY <2>2, <2>3
<1>10. \A k \in DOMAIN t : \/ k < i /\ k \in DOMAIN q /\ t[k] = q[k]
                           \/ k >= i /\ k + 1 \in DOMAIN q /\ t[k] = q[k + 1]
    <2> SUFFICES ASSUME NEW k \in DOMAIN t
                 PROVE  \/ k < i /\ k \in DOMAIN q /\ t[k] = q[k]
                        \/ k >= i /\ k + 1 \in DOMAIN q /\ t[k] = q[k + 1]
        OBVIOUS
    <2>1. CASE k \in DOMAIN a /\ t[k] = a[k]
        BY <1>1, <1>4, <2>1
    <2>2. CASE k > Len(a) /\ k - Len(a) \in DOMAIN b /\ t[k] = b[k - Len(a)]
        <3>1. k \in Nat /\ k >= i /\ k - (i - 1) \in 1 .. n - i
            BY <1>1, <1>4, <1>6, <1>9, <2>2
        <3>2. i + (k - (i - 1)) = k + 1 /\ k + 1 \in DOMAIN q
            BY <1>1, <1>2, <3>1
        <3>3. b[k - (i - 1)] = q[i + (k - (i - 1))]
            BY <1>6, <3>1
        <3> QED
            BY <1>4, <2>2, <3>1, <3>2, <3>3
    <2> QED
        BY <1>9, <2>1, <2>2
<1>11. Distinct(t, {})
    <2> SUFFICES ASSUME NEW k \in DOMAIN t, NEW l \in DOMAIN t, t[k] = t[l]
                 PROVE  k = l
        BY DEF Distinct
    <2>1. k \in Nat /\ l \in Nat
        BY <1>9
    <2>2. \A x, y \in DOMAIN q : q[x] = q[y] => x = y
        BY DEF Distinct
    <2> QED
        BY <1>1, <1>10, <2>1, <2>2
<1>12. ToSet(t) = ToSet(q) \ {q[i]}
    <2>1. ASSUME NEW x \in ToSet(t)
          PROVE  x \in ToSet(q) \ {q[i]}
        <3>1. PICK k \in DOMAIN t : t[k] = x
            BY <2>1 DEF ToSet
        <3>2. PICK l \in DOMAIN q : l # i /\ q[l] = x
            BY <1>1, <1>9, <1>10, <3>1
        <3>3. q[l] # q[i]
            BY <1>1, <3>2 DEF Distinct
        <3> QED
            BY <3>2, <3>3 DEF ToSet
    <2>2. ASSUME NEW x \in ToSet(q) \ {q[i]}
          PROVE  x \in ToSet(t)
        <3>1. PICK l \in DOMAIN q : q[l] = x /\ l # i
            BY <2>2 DEF ToSet
        <3>2. CASE l < i
            <4>1. l \in DOMAIN a /\ a[l] = x
                BY <1>1, <1>4, <3>1, <3>2
            <4> QED
                BY <1>9, <4>1 DEF ToSet
        <3>3. CASE l > i
            <4>1. l - i \in DOMAIN b /\ i + (l - i) = l
                BY <1>1, <1>2, <1>6, <3>3
            <4>2. b[l - i] = x
                BY <1>6, <3>1, <4>1
            <4> QED
                BY <1>9, <4>1, <4>2 DEF ToSet
        <3> QED
            BY <1>1, <3>1, <3>2, <3>3
    <2> QED
        BY <2>1, <2>2
<1> QED
    BY <1>8, <1>9, <1>11, <1>12

-----------------------------------------------------------------------------
(* The table of sockets                                                    *)

\* The positions up to i.
UpTo(K, i) == {j \in K : j <= i}

\* Two sockets that are left do not get the same position.
LEMMA PlaceInjective ==
    ASSUME NEW n \in Nat, NEW kept \in SUBSET (1 .. n), NEW i \in kept, NEW j \in kept,
           Cardinality(UpTo(kept, i)) = Cardinality(UpTo(kept, j))
    PROVE  i = j
<1>1. IsFiniteSet(kept)
    <2>1. IsFiniteSet(1 .. n)
        BY FS_Interval
    <2> QED
        BY <2>1, FS_Subset
<1>2. ASSUME NEW x \in kept, NEW y \in kept, x < y
      PROVE  Cardinality(UpTo(kept, x)) # Cardinality(UpTo(kept, y))
    <2>1. UpTo(kept, x) \in SUBSET UpTo(kept, y)
        <3>1. \A k \in kept : k <= x => k <= y
            BY <1>2
        <3> QED
            BY <3>1 DEF UpTo
    <2>2. y \in UpTo(kept, y) /\ y \notin UpTo(kept, x)
        BY <1>2 DEF UpTo
    <2>3. UpTo(kept, x) # UpTo(kept, y)
        BY <2>2
    <2>4. IsFiniteSet(UpTo(kept, y))
        <3>1. UpTo(kept, y) \in SUBSET kept
            BY DEF UpTo
        <3> QED
            BY <1>1, <3>1, FS_Subset
    <2> QED
        BY <2>1, <2>3, <2>4, FS_Subset
<1>3. i < j \/ j < i \/ i = j
    OBVIOUS
<1> QED
    BY <1>2, <1>3

\* The counter of the compaction hands out every new position exactly once.
LEMMA PlacesAreDistinct ==
    ASSUME NEW n \in Nat, NEW kept \in SUBSET (1 .. n)
    PROVE  /\ IsFiniteSet(kept) /\ Cardinality(kept) \in Nat
           /\ \A k \in 1 .. Cardinality(kept) :
                 \E i \in kept : Cardinality(UpTo(kept, i)) = k
<1> DEFINE place(i) == Cardinality(UpTo(kept, i))
           m == Cardinality(kept)
<1>1. IsFiniteSet(kept) /\ m \in Nat
    <2>1. IsFiniteSet(1 .. n)
        BY FS_Interval
    <2> QED
        BY <2>1, FS_Subset, FS_CardinalityType
<1>2. \A i \in kept : IsFiniteSet(UpTo(kept, i)) /\ place(i) \in 1 .. m
    <2> SUFFICES ASSUME NEW i \in kept
                 PROVE  IsFiniteSet(UpTo(kept, i)) /\ place(i) \in 1 .. m
        OBVIOUS
    <2>1. UpTo(kept, i) \in SUBSET kept /\ i \in UpTo(kept, i)
        BY DEF UpTo
    <2>2. IsFiniteSet(UpTo(kept, i)) /\ place(i) <= m
        BY <1>1, <2>1, FS_Subset
    <2>3. place(i) \in Nat
        BY <2>2, FS_CardinalityType
    <2>4. place(i) # 0
        BY <2>1, <2>2, FS_EmptySet
    <2> QED
        BY <1>1, <2>2, <2>3, <2>4
<1>4. PICK f : f = [i \in kept |-> place(i)]
    OBVIOUS
<1>5. f \in Injection(kept, 1 .. m)
    <2>1. f \in [kept -> 1 .. m]
        BY <1>2, <1>4
    <2>2. \A i, j \in kept : f[i] = f[j] => i = j
        BY <1>4, PlaceInjective
    <2> QED
        BY <2>1, <2>2 DEF Injection, IsInjective
<1>6. f \in Surjection(kept, 1 .. m)
    <2>1. IsFiniteSet(1 .. m) /\ Cardinality(1 .. m) = m
        BY <1>1, FS_Interval
    <2> HIDE DEF m
    <2> QED
        BY <1>5, <2>1, FS_Injection DEF m
<1>7. \A k \in 1 .. m : \E i \in kept : f[i] = k
    BY <1>6 DEF Surjection
<1> QED
    BY <1>1, <1>4, <1>7

\* Compaction keeps the sockets, each once, and leaves no empty slot.
LEMMA CompactFacts ==
    ASSUME NEW q \in Slots, Distinct(q, {None})
    PROVE  /\ compact(q) \in Seq(Sock) /\ Distinct(compact(q), {None})
           /\ \A s \in Sock : s \in ToSet(compact(q)) <=> s \in ToSet(q)
<1> DEFINE kept == {i \in DOMAIN q : q[i] # None}
           place(i) == Cardinality(UpTo(kept, i))
           m == Cardinality(kept)
           old(k) == CHOOSE i \in kept : place(i) = k
<1>1. /\ Len(q) \in Nat /\ DOMAIN q = 1 .. Len(q)
      /\ \A i \in kept : q[i] \in Sock
    BY SeqFacts DEF Slots
<1>2. m \in Nat /\ IsFiniteSet(kept) /\ \A k \in 1 .. m : \E i \in kept : place(i) = k
    <2>1. kept \in SUBSET (1 .. Len(q))
        BY <1>1
    <2> HIDE DEF kept
    <2> QED
        BY <1>1, <2>1, PlacesAreDistinct
<1>3. \A k \in 1 .. m : old(k) \in kept /\ place(old(k)) = k
    BY <1>2
<1>4. PICK t : t = compact(q)
    OBVIOUS
<1>5. t = [k \in 1 .. m |-> q[old(k)]]
    BY <1>4 DEF compact, UpTo
<1> HIDE DEF m, old, place
<1>6. t \in Seq(Sock)
    <2>1. t \in [1 .. m -> Sock]
        BY <1>1, <1>3, <1>5
    <2> QED
        BY <1>2, <2>1, SeqDef
<1>7. DOMAIN t = 1 .. m
    BY <1>5
<1>8. Distinct(t, {None})
    <2> SUFFICES ASSUME NEW k \in DOMAIN t, NEW l \in DOMAIN t, t[k] = t[l]
                 PROVE  k = l
        BY DEF Distinct
    <2>1. q[old(k)] = q[old(l)] /\ old(k) \in kept /\ old(l) \in kept
        BY <1>3, <1>5, <1>7
    <2>2. old(k) = old(l)
        BY <2>1 DEF Distinct
    <2> QED
        BY <1>3, <1>7, <2>2
<1>9. ASSUME NEW s \in Sock, s \in ToSet(t)
      PROVE  s \in ToSet(q)
    <2>1. PICK k \in 1 .. m : q[old(k)] = s
        BY <1>5, <1>7, <1>9 DEF ToSet
    <2> QED
        BY <1>3, <2>1 DEF ToSet
<1>10. ASSUME NEW s \in Sock, s \in ToSet(q)
       PROVE  s \in ToSet(t)
    <2>1. PICK i \in DOMAIN q : q[i] = s
        BY <1>10 DEF ToSet
    <2>2. s # None
        BY EventLoopAssumption DEF Sock
    <2>3. i \in kept
        BY <2>1, <2>2
    <2>4. place(i) \in 1 .. m
        <3>1. UpTo(kept, i) \in SUBSET kept /\ i \in UpTo(kept, i)
            BY <1>1, <2>3 DEF UpTo
        <3>2. IsFiniteSet(UpTo(kept, i)) /\ place(i) <= m
            BY <1>2, <3>1, FS_Subset DEF place, m
        <3>3. place(i) \in Nat /\ place(i) # 0
            BY <3>1, <3>2, FS_CardinalityType, FS_EmptySet DEF place
        <3> QED
            BY <1>2, <3>2, <3>3
    <2>5. PICK k \in 1 .. m : k = place(i)
        BY <2>4
    <2>6. old(k) \in kept /\ place(old(k)) = place(i)
        BY <1>3, <2>5
    <2>7. old(k) = i
        <3>1. PICK x \in kept : x = old(k)
            BY <2>6
        <3>2. kept \in SUBSET (1 .. Len(q)) /\ place(x) = place(i)
            BY <1>1, <2>6, <3>1
        <3>3. Cardinality(UpTo(kept, x)) = Cardinality(UpTo(kept, i))
            BY <3>2 DEF place
        <3> HIDE DEF kept
        <3>4. x = i
            BY <1>1, <2>3, <3>2, <3>3, PlaceInjective
        <3> QED
            BY <3>1, <3>4
    <2> QED
        BY <1>5, <1>7, <2>1, <2>7 DEF ToSet
<1> QED
    BY <1>4, <1>6, <1>8, <1>9, <1>10

\* k2 comes from k by clearing and appending slots: positions are as before.
Keeps(k, k2) ==
    \A i \in DOMAIN k.slots : i \in DOMAIN k2.slots /\ k2.slots[i] \in {None, k.slots[i]}

\* None is no socket.
LEMMA NoneIsNoSocket ==
    None \notin Sock /\ Bus \in Sock /\ Bus \notin Proc /\ None \notin Proc
    BY EventLoopAssumption DEF Sock

\* A reference is given back.
LEMMA ReleaseFacts ==
    ASSUME NEW k \in Table, NEW s \in Sock
    PROVE  /\ release(k, s) \in Table /\ release(k, s).slots = k.slots
           /\ \A t \in Sock : release(k, s).ref[t] = k.ref[t] - (IF t = s THEN 1 ELSE 0)
<1>1. PICK r : r = release(k, s)
    OBVIOUS
<1>2. r = [k EXCEPT !.ref = [k.ref EXCEPT ![s] = k.ref[s] - 1]]
    BY <1>1 DEF release
<1>3. r.slots = k.slots /\ r.ref = [k.ref EXCEPT ![s] = k.ref[s] - 1] /\ k.ref \in [Sock -> Int]
    BY <1>2 DEF Table
<1>4. r.ref \in [Sock -> Int]
    BY <1>3
<1>5. r \in Table
    BY <1>2, <1>4 DEF Table
<1>6. \A t \in Sock : r.ref[t] = k.ref[t] - (IF t = s THEN 1 ELSE 0)
    BY <1>3
<1> QED
    BY <1>1, <1>3, <1>5, <1>6

\* Deactivating a socket clears its slot and gives the reference of the table back.
LEMMA DeactivateFacts ==
    ASSUME NEW k \in Table, Distinct(k.slots, {None}), NEW s \in Sock
    PROVE  /\ deactivate(k, s) \in Table /\ Distinct(deactivate(k, s).slots, {None})
           /\ Keeps(k, deactivate(k, s))
           /\ \A t \in Sock :
                 /\ Active(deactivate(k, s), t) <=> Active(k, t) /\ t # s
                 /\ deactivate(k, s).ref[t] =
                        k.ref[t] - (IF t = s /\ Active(k, t) THEN 1 ELSE 0)
<1>1. CASE ~Active(k, s)
    <2>1. deactivate(k, s) = k
        BY <1>1 DEF deactivate
    <2>2. \A t \in Sock : k.ref[t] = k.ref[t] - 0
        BY DEF Table
    <2>3. Keeps(k, k)
        BY DEF Keeps
    <2> QED
        BY <1>1, <2>1, <2>2, <2>3
<1>2. CASE Active(k, s)
    <2>1. PICK q : q = [i \in DOMAIN k.slots |-> IF k.slots[i] = s THEN None ELSE k.slots[i]]
        OBVIOUS
    <2>2. PICK k2 : k2 = [k EXCEPT !.slots = q]
        OBVIOUS
    <2>3. /\ Len(k.slots) \in Nat /\ DOMAIN k.slots = 1 .. Len(k.slots)
          /\ \A i \in DOMAIN k.slots : k.slots[i] \in Sock \cup {None}
        BY SeqFacts DEF Table, Slots
    <2>4. q \in Slots /\ DOMAIN q = DOMAIN k.slots
        <3>1. q \in [1 .. Len(k.slots) -> Sock \cup {None}] /\ DOMAIN q = DOMAIN k.slots
            BY <2>1, <2>3
        <3> QED
            BY <2>3, <3>1, SeqDef DEF Slots
    <2>5. k2 \in Table /\ k2.slots = q /\ k2.ref = k.ref
        BY <2>2, <2>4 DEF Table
    <2>6. Distinct(q, {None})
        BY <2>1, <2>4 DEF Distinct
    <2>7. \A t \in Sock : t \in ToSet(q) <=> t \in ToSet(k.slots) /\ t # s
        BY <2>1, <2>4, NoneIsNoSocket DEF ToSet
    <2>8. deactivate(k, s) = release(k2, s)
        BY <1>2, <2>1, <2>2 DEF deactivate
    <2>9. PICK r : r = release(k2, s)
        OBVIOUS
    <2>10. /\ r \in Table /\ r.slots = q
           /\ \A t \in Sock : r.ref[t] = k.ref[t] - (IF t = s THEN 1 ELSE 0)
        BY <2>5, <2>9, ReleaseFacts
    <2>11. Keeps(k, r)
        BY <2>1, <2>4, <2>10 DEF Keeps
    <2>12. \A t \in Sock : /\ Active(r, t) <=> Active(k, t) /\ t # s
                           /\ r.ref[t] = k.ref[t] - (IF t = s /\ Active(k, t) THEN 1 ELSE 0)
        BY <1>2, <2>7, <2>10 DEF Active
    <2> QED
        BY <2>6, <2>8, <2>9, <2>10, <2>11, <2>12
<1> QED
    BY <1>1, <1>2

\* Closing a socket gives the reference of its owner back as well.
LEMMA CloseFacts ==
    ASSUME NEW k \in Table, Distinct(k.slots, {None}), NEW s \in Sock
    PROVE  /\ socket_close(k, s) \in Table /\ Distinct(socket_close(k, s).slots, {None})
           /\ Keeps(k, socket_close(k, s))
           /\ \A t \in Sock :
                 /\ Active(socket_close(k, s), t) <=> Active(k, t) /\ t # s
                 /\ socket_close(k, s).ref[t] =
                        k.ref[t] - (IF t = s THEN IF Active(k, t) THEN 2 ELSE 1 ELSE 0)
<1>1. PICK d : d = deactivate(k, s)
    OBVIOUS
<1>2. /\ d \in Table /\ Distinct(d.slots, {None}) /\ Keeps(k, d)
      /\ \A t \in Sock : /\ Active(d, t) <=> Active(k, t) /\ t # s
                         /\ d.ref[t] = k.ref[t] - (IF t = s /\ Active(k, t) THEN 1 ELSE 0)
    BY <1>1, DeactivateFacts
<1>3. PICK r : r = release(d, s)
    OBVIOUS
<1>4. socket_close(k, s) = r
    BY <1>1, <1>3 DEF socket_close
<1>5. /\ r \in Table /\ r.slots = d.slots
      /\ \A t \in Sock : r.ref[t] = d.ref[t] - (IF t = s THEN 1 ELSE 0)
    BY <1>2, <1>3, ReleaseFacts
<1>6. \A t \in Sock : k.ref[t] \in Int
    BY DEF Table
<1>7. \A t \in Sock : /\ Active(r, t) <=> Active(k, t) /\ t # s
                      /\ r.ref[t] = k.ref[t] - (IF t = s THEN IF Active(k, t) THEN 2 ELSE 1 ELSE 0)
    BY <1>2, <1>5, <1>6 DEF Active
<1>8. Keeps(k, r)
    BY <1>2, <1>5 DEF Keeps
<1> QED
    BY <1>2, <1>4, <1>5, <1>7, <1>8

\* A process's output appears at the end of the table.
LEMMA AttachFacts ==
    ASSUME NEW k \in Table, Distinct(k.slots, {None}), NEW p \in Proc, ~Active(k, p)
    PROVE  /\ attach_parent(k, p) \in Table /\ Distinct(attach_parent(k, p).slots, {None})
           /\ Keeps(k, attach_parent(k, p))
           /\ \A t \in Sock :
                 /\ Active(attach_parent(k, p), t) <=> Active(k, t) \/ t = p
                 /\ attach_parent(k, p).ref[t] = IF t = p THEN 2 ELSE k.ref[t]
<1>0. p \in Sock
    BY DEF Sock
<1>1. PICK c : c = [k EXCEPT !.ref = [k.ref EXCEPT ![p] = 1]]
    OBVIOUS
<1>2. c \in Table /\ c.slots = k.slots /\ c.ref = [k.ref EXCEPT ![p] = 1] /\ k.ref \in [Sock -> Int]
    BY <1>0, <1>1 DEF Table
<1>3. PICK q : q = Append(k.slots, p)
    OBVIOUS
<1>4. /\ q \in Slots /\ Distinct(q, {None}) /\ ToSet(q) = ToSet(k.slots) \cup {p}
      /\ \A i \in DOMAIN k.slots : i \in DOMAIN q /\ q[i] = k.slots[i]
    <2>1. k.slots \in Seq(Sock \cup {None}) /\ p \in Sock \cup {None} /\ p \notin ToSet(k.slots)
        BY <1>0 DEF Table, Slots, Active
    <2> QED
        BY <1>3, <2>1, AppendDistinct DEF Slots
<1>5. PICK r : r = [slots |-> q, ref |-> [c.ref EXCEPT ![p] = c.ref[p] + 1]]
    OBVIOUS
<1>6. attach_parent(k, p) = r
    <2>1. connect_output(k, p) = c
        BY <1>1 DEF connect_output
    <2>2. ~Active(c, p)
        BY <1>2 DEF Active
    <2> QED
        BY <1>2, <1>3, <1>5, <2>1, <2>2 DEF attach_parent, activate
<1>7. r.slots = q /\ r.ref \in [Sock -> Int] /\ r \in Table
    BY <1>0, <1>2, <1>4, <1>5 DEF Table
<1>8. \A t \in Sock : r.ref[t] = IF t = p THEN 2 ELSE k.ref[t]
    BY <1>0, <1>2, <1>5
<1>9. \A t \in Sock : Active(r, t) <=> Active(k, t) \/ t = p
    BY <1>4, <1>7 DEF Active
<1>10. Keeps(k, r)
    BY <1>4, <1>7 DEF Keeps
<1> QED
    BY <1>4, <1>6, <1>7, <1>8, <1>9, <1>10

-----------------------------------------------------------------------------
(* What the steps have in common                                           *)

\* Messages that a synchronous call reads go from the socket to the queue.
LEMMA FetchKeeps ==
    ASSUME NEW a \in Seq(Message), NEW b \in Seq(Message), NEW n \in 0 .. Len(b)
    PROVE  /\ a \o SubSeq(b, 1, n) \in Seq(Message) /\ SubSeq(b, n + 1, Len(b)) \in Seq(Message)
           /\ (a \o SubSeq(b, 1, n)) \o SubSeq(b, n + 1, Len(b)) = a \o b
<1>1. Len(b) \in Nat /\ DOMAIN b = 1 .. Len(b) /\ \A i \in DOMAIN b : b[i] \in Message
    BY SeqFacts
<1>2. PICK l \in Seq(Message) : l = SubSeq(b, 1, n)
    <2>1. \A i \in 1 .. n : b[i] \in Message
        BY <1>1
    <2>2. 1 \in Int /\ n \in Int
        BY <1>1
    <2> QED
        BY <2>1, <2>2, SubSeqProperties
<1>3. PICK r \in Seq(Message) : r = SubSeq(b, n + 1, Len(b))
    <2>1. \A i \in n + 1 .. Len(b) : b[i] \in Message
        BY <1>1
    <2>2. n + 1 \in Int /\ Len(b) \in Int
        BY <1>1
    <2> QED
        BY <2>1, <2>2, SubSeqProperties
<1>4. l \o r = b
    <2>1. CASE Len(b) = 0
        <3>1. b = <<>> /\ n = 0
            BY <1>1, <2>1
        <3>2. l = <<>> /\ r = <<>>
            BY <1>2, <1>3, <3>1, SubSeqEmpty
        <3> QED
            BY <3>1, <3>2
    <2>2. CASE Len(b) # 0
        <3>1. 1 \in 1 .. Len(b) + 1 /\ n \in 1 - 1 .. Len(b) /\ Len(b) \in n .. Len(b)
            BY <1>1
        <3>2. l \o r = SubSeq(b, 1, Len(b))
            BY <1>2, <1>3, <3>1, ConcatAdjacentSubSeq
        <3> QED
            BY <3>2, SubSeqFull
    <2> QED
        BY <2>1, <2>2
<1>5. a \o l \in Seq(Message) /\ (a \o l) \o r = a \o (l \o r)
    BY ConcatAssociative, ConcatProperties, SMTT(40)
<1> QED
    BY <1>2, <1>3, <1>4, <1>5

\* A synchronous call changes neither what arrived nor its order.
LEMMA SyncCallKeeps ==
    ASSUME LoopTypeOK, NEW n \in 0 .. Len(inbox), Fetch(n)
    PROVE  Arrived' = Arrived /\ queue' \in Seq(Message) /\ inbox' \in Seq(Message)
<1>1. PICK q \in Seq(Message) : q = queue
    BY DEF LoopTypeOK
<1>2. PICK b \in Seq(Message) : b = inbox
    BY DEF LoopTypeOK
<1>3. queue' = q \o SubSeq(b, 1, n) /\ inbox' = SubSeq(b, n + 1, Len(b)) /\ n \in 0 .. Len(b)
    BY <1>1, <1>2 DEF Fetch
<1>4. /\ queue' \in Seq(Message) /\ inbox' \in Seq(Message)
      /\ queue' \o inbox' = q \o b
    BY <1>3, FetchKeeps
<1> QED
    BY <1>1, <1>2, <1>4 DEF Arrived

\* What arrived is a sequence of messages.
LEMMA ArrivedType ==
    ASSUME LoopTypeOK
    PROVE  Arrived \in Seq(Message) /\ ToSet(Arrived) = ToSet(queue) \cup ToSet(inbox)
<1>1. queue \in Seq(Message) /\ inbox \in Seq(Message)
    BY DEF LoopTypeOK
<1> QED
    BY <1>1, ConcatFacts DEF Arrived

\* Steps that leave the table alone.
LEMMA SlotsFrame ==
    ASSUME SlotsInv, UNCHANGED <<sk, pb>>, Phase = "received" <=> Phase' = "received"
    PROVE  SlotsInv'
    BY DEF SlotsInv, Refs, Active

\* Steps that leave the table and what poll was asked about alone.
LEMMA StableFrame ==
    ASSUME StableInv, UNCHANGED <<sk, pfd>>, Phase' \in Polled => Phase \in Polled
    PROVE  StableInv'
    BY DEF StableInv

\* Steps that leave the order of the messages alone.
LEMMA MessagesFrame ==
    ASSUME MessagesInv, Arrived' = Arrived, UNCHANGED unsent
    PROVE  MessagesInv'
    BY DEF MessagesInv

\* Steps that ask for no process and leave no trace of one.
LEMMA FreshFrame ==
    ASSUME FreshInv, unsent' \cup ToSet(Arrived') \subseteq unsent \cup ToSet(Arrived),
           UNCHANGED <<kid, heap, waitq>>, pb' \subseteq pb,
           \A p \in Proc : p \in ToSet(sk'.slots) => p \in ToSet(sk.slots)
    PROVE  FreshInv'
    BY DEF FreshInv

\* Steps that leave the processes and their queue alone.
LEMMA QueueFrame ==
    ASSUME QueueInv, UNCHANGED <<kid, heap, waitq, exiting>>
    PROVE  QueueInv'
    BY DEF QueueInv, WaitQueueSound

\* Steps that only move the loop from phase to phase.
LEMMA QuietStep ==
    ASSUME LoopInv, LoopTypeOK',
           UNCHANGED <<sk, unsent, kid, heap, waitq, pb, exiting>>, Arrived' = Arrived,
           \/ pfd' = <<>>
           \/ UNCHANGED pfd /\ (Phase' \in Polled => Phase \in Polled),
           Phase = "received" <=> Phase' = "received"
    PROVE  LoopInv'
<1>1. SlotsInv /\ StableInv /\ MessagesInv /\ FreshInv /\ QueueInv
    BY DEF LoopInv
<1>2. StableInv'
    <2>1. CASE pfd' = <<>>
        BY <2>1 DEF StableInv
    <2> QED
        BY <1>1, <2>1, StableFrame
<1>3. SlotsInv' /\ MessagesInv' /\ QueueInv'
    BY <1>1, SlotsFrame, MessagesFrame, QueueFrame
<1>4. FreshInv'
    <2>1. unsent' \cup ToSet(Arrived') = unsent \cup ToSet(Arrived)
        OBVIOUS
    <2> QED
        BY <1>1, <2>1, FreshFrame
<1> QED
    BY <1>2, <1>3, <1>4 DEF LoopInv

-----------------------------------------------------------------------------
(* The phases of the loop                                                  *)

\* Timers, poll(), the end of reaping and of the walk, and the dispatching's
\* end: the loop goes on, and a call may read messages.
LEMMA PhaseSteps ==
    ASSUME LoopInv,
           \/ FireTimer \/ NextTimeout \/ PollReturns \/ PollInterrupted
           \/ ReapChildren \/ NoMoreChildren \/ ExitCallback
           \/ WalkSkip \/ WalkDone \/ Dispatched \/ Tick
    PROVE  LoopInv'
<1>0. LoopTypeOK
    BY DEF LoopInv
<1>1. CASE FireTimer
    <2>1. /\ pc \in {"main", "prep", "post"} /\ timer' = Period
          /\ UNCHANGED <<sk, pfd, rev, idx, tmo, unsent, kid, held, pb, heap, waitq, exiting, sig, intr>>
          /\ \/ UNCHANGED <<pc, ret, queue, inbox>>
             \/ /\ \E n \in 0 .. Len(inbox) : Fetch(n)
                /\ pc' = "dispatching" /\ ret' = pc
        BY <1>1 DEF FireTimer, SyncCall, poll, children
    <2>2. Arrived' = Arrived /\ queue' \in Seq(Message) /\ inbox' \in Seq(Message)
        <3>1. CASE UNCHANGED <<queue, inbox>>
            BY <1>0, <3>1 DEF Arrived, LoopTypeOK
        <3>2. CASE \E n \in 0 .. Len(inbox) : Fetch(n)
            BY <1>0, <3>2, SyncCallKeeps
        <3> QED
            BY <2>1, <3>1, <3>2
    <2>3. Phase' = Phase
        BY <2>1 DEF Phase
    <2>4. LoopTypeOK'
        BY <1>0, <2>1, <2>2, EventLoopAssumption DEF LoopTypeOK, Return
    <2> QED
        BY <2>1, <2>2, <2>3, <2>4, QuietStep
<1>2. CASE NextTimeout
    <2>1. /\ UNCHANGED <<ret, sk, pfd, rev, idx, timer, inbox, unsent, kid, held, queue,
                         pb, heap, waitq, exiting, sig, intr>>
          /\ \/ pc = "main" /\ pc' = "top" /\ tmo' = timer
             \/ pc = "prep" /\ pc' = "poll" /\ tmo' = IF timer < tmo THEN timer ELSE tmo
             \/ pc = "post" /\ pc' = "main" /\ UNCHANGED tmo
        BY <1>2 DEF NextTimeout, kernel, children
    <2>2. LoopTypeOK'
        BY <1>0, <2>1 DEF LoopTypeOK, Return
    <2>3. Phase' \in Polled => Phase \in Polled
        BY <2>1 DEF Phase, Polled
    <2>4. Phase = "received" <=> Phase' = "received"
        BY <2>1 DEF Phase
    <2> QED
        BY <2>1, <2>2, <2>3, <2>4, QuietStep DEF Arrived
<1>3. CASE PollReturns
    <2>1. /\ UNCHANGED <<ret, sk, pfd, timer, inbox, unsent, kid, held, queue,
                         pb, heap, waitq, exiting, sig>>
          /\ pc = "poll" /\ pc' = "reap" /\ idx' = 1 /\ tmo' = -1 /\ intr' = FALSE
        BY <1>3 DEF PollReturns, kernel, children
    <2>2. rev' \in Seq(SUBSET {"in", "hup"})
        <3>0. rev' = [i \in DOMAIN pfd |-> Ready(pfd[i])]
            BY <1>3 DEF PollReturns
        <3>1. Len(pfd) \in Nat /\ DOMAIN pfd = 1 .. Len(pfd)
            BY <1>0, SeqFacts DEF LoopTypeOK
        <3>2. \A s : Ready(s) \in SUBSET {"in", "hup"}
            BY DEF Ready
        <3>3. rev' \in [1 .. Len(pfd) -> SUBSET {"in", "hup"}]
            BY <3>0, <3>1, <3>2
        <3> QED
            BY <3>1, <3>3, SeqDef
    <2>3. LoopTypeOK'
        <3>1. idx' \in Nat /\ tmo' \in Int
            BY <2>1
        <3>3. intr' = FALSE
            BY <2>1
        <3>4. intr' \in BOOLEAN
            BY <3>3, Zenon
        <3>2. UNCHANGED <<ret, sk, pfd, timer, inbox, unsent, kid, held, queue,
                          pb, heap, waitq, exiting, sig>> /\ pc' = "reap"
            BY <2>1
        <3> QED
            BY <1>0, <2>2, <3>1, <3>2, <3>4 DEF LoopTypeOK, Return
    <2>4. (Phase' \in Polled => Phase \in Polled) /\ (Phase = "received" <=> Phase' = "received")
        BY <2>1 DEF Phase, Polled
    <2> QED
        BY <2>1, <2>3, <2>4, QuietStep DEF Arrived
<1>4. CASE PollInterrupted
    <2>1. /\ UNCHANGED <<ret, sk, rev, idx, timer, inbox, unsent, kid, held, queue,
                         pb, heap, waitq, exiting, sig, intr>>
          /\ pc = "poll" /\ pc' = "reap" /\ pfd' = <<>> /\ tmo' = -1
        BY <1>4 DEF PollInterrupted, kernel, children
    <2>2. LoopTypeOK'
        BY <1>0, <2>1, EmptySeq DEF LoopTypeOK, Return
    <2>3. Phase = "received" <=> Phase' = "received"
        BY <2>1 DEF Phase
    <2> QED
        BY <2>1, <2>2, <2>3, QuietStep DEF Arrived
<1>5. CASE ReapChildren \/ NoMoreChildren
    <2>1. /\ UNCHANGED <<ret, sk, pfd, rev, idx, tmo, timer, inbox, unsent, kid, held, queue,
                         pb, heap, waitq, exiting>>
          /\ pc \in {"reap", "waitpid"} /\ pc' \in {"waitpid", "main", "walk"}
          /\ sig' \in BOOLEAN /\ intr' \in BOOLEAN
        BY <1>0, <1>5 DEF ReapChildren, NoMoreChildren, AfterReap, poll, kernel, children, LoopTypeOK
    <2>2. LoopTypeOK'
        BY <1>0, <2>1 DEF LoopTypeOK, Return
    <2>3. (Phase' \in Polled => Phase \in Polled) /\ (Phase = "received" <=> Phase' = "received")
        BY <2>1 DEF Phase, Polled
    <2> QED
        BY <2>1, <2>2, <2>3, QuietStep DEF Arrived
<1>6. CASE ExitCallback
    <2>1. /\ UNCHANGED <<sk, pfd, rev, idx, tmo, timer, unsent, kid, held, pb, heap, waitq,
                         exiting, sig, intr>>
          /\ \E n \in 0 .. Len(inbox) : Fetch(n)
          /\ pc = "exit" /\ pc' = "dispatching" /\ ret' = "exited"
        BY <1>6 DEF ExitCallback, SyncCall, poll, children
    <2>2. Arrived' = Arrived /\ queue' \in Seq(Message) /\ inbox' \in Seq(Message)
        BY <1>0, <2>1, SyncCallKeeps
    <2>3. LoopTypeOK'
        BY <1>0, <2>1, <2>2 DEF LoopTypeOK, Return
    <2>4. (Phase' \in Polled => Phase \in Polled) /\ (Phase = "received" <=> Phase' = "received")
        BY <2>1 DEF Phase, Polled
    <2> QED
        BY <2>1, <2>2, <2>3, <2>4, QuietStep
<1>7. CASE WalkSkip
    <2>1. /\ UNCHANGED <<pc, ret, sk, pfd, rev, tmo, timer, inbox, unsent, kid, held, queue,
                         pb, heap, waitq, exiting, sig, intr>>
          /\ idx' = idx + 1
        BY <1>7 DEF WalkSkip, kernel, children
    <2>2. LoopTypeOK'
        BY <1>0, <2>1 DEF LoopTypeOK, Return
    <2>3. Phase' = Phase
        BY <2>1 DEF Phase
    <2> QED
        BY <2>1, <2>2, <2>3, QuietStep DEF Arrived
<1>8. CASE WalkDone
    <2>1. /\ UNCHANGED <<ret, sk, tmo, timer, inbox, unsent, kid, held, queue,
                         pb, heap, waitq, exiting, sig, intr>>
          /\ pc = "walk" /\ pc' = "post" /\ pfd' = <<>> /\ rev' = <<>> /\ idx' = 0
        BY <1>8 DEF WalkDone, kernel, children
    <2>2. LoopTypeOK'
        BY <1>0, <2>1, EmptySeq DEF LoopTypeOK, Return
    <2>3. Phase = "received" <=> Phase' = "received"
        BY <2>1 DEF Phase
    <2> QED
        BY <2>1, <2>2, <2>3, QuietStep DEF Arrived
<1>9. CASE Dispatched
    <2>1. /\ UNCHANGED <<sk, pfd, rev, idx, tmo, timer, inbox, unsent, kid, held, queue,
                         pb, heap, waitq, exiting, sig, intr>>
          /\ pc = "dispatching" /\ pc' = ret /\ ret' = "main"
        BY <1>9 DEF Dispatched, poll, kernel, children
    <2>2. LoopTypeOK'
        BY <1>0, <2>1 DEF LoopTypeOK, Return
    <2>3. Phase' = Phase
        BY <1>0, <2>1 DEF Phase, LoopTypeOK, Return
    <2> QED
        BY <2>1, <2>2, <2>3, QuietStep DEF Arrived
<1>10. CASE Tick
    <2>1. /\ UNCHANGED <<pc, ret, sk, pfd, rev, idx, inbox, unsent, kid, held, queue,
                         pb, heap, waitq, exiting, sig, intr>>
          /\ timer > 0 /\ timer' = timer - 1 /\ tmo' = IF pc = "poll" THEN tmo - 1 ELSE tmo
        BY <1>10 DEF Tick, kernel, children
    <2>2. LoopTypeOK'
        BY <1>0, <2>1 DEF LoopTypeOK, Return
    <2>3. Phase' = Phase
        BY <2>1 DEF Phase
    <2> QED
        BY <2>1, <2>2, <2>3, QuietStep DEF Arrived
<1> QED
    BY <1>1, <1>2, <1>3, <1>4, <1>5, <1>6, <1>7, <1>8, <1>9, <1>10

\* The table is compacted, and poll() is asked about what is in it.
LEMMA PrepareStep ==
    ASSUME LoopInv, Prepare
    PROVE  LoopInv'
<1>1. LoopTypeOK /\ SlotsInv /\ MessagesInv /\ FreshInv /\ QueueInv
    BY DEF LoopInv
<1>2. /\ UNCHANGED <<ret, rev, idx, tmo, timer, inbox, unsent, kid, held, queue,
                     pb, heap, waitq, exiting, sig, intr>>
      /\ pc = "top" /\ pc' = "prep"
    BY DEF Prepare, kernel, children
<1>3. PICK q : q = compact(sk.slots)
    OBVIOUS
<1>4. sk' = [sk EXCEPT !.slots = q] /\ pfd' = q
    BY <1>3 DEF Prepare
<1>5. /\ q \in Seq(Sock) /\ Distinct(q, {None})
      /\ \A s \in Sock : s \in ToSet(q) <=> s \in ToSet(sk.slots)
    <2>1. sk.slots \in Slots /\ Distinct(sk.slots, {None})
        BY <1>1 DEF LoopTypeOK, Table, SlotsInv
    <2> QED
        BY <1>3, <2>1, CompactFacts
<1>6. q \in Slots
    <2>1. Sock \subseteq Sock \cup {None}
        OBVIOUS
    <2> QED
        BY <1>5, <2>1, SeqMonotonic DEF Slots
<1>7. sk' \in Table /\ sk'.slots = q /\ sk'.ref = sk.ref
    BY <1>1, <1>4, <1>6 DEF LoopTypeOK, Table
<1>8. LoopTypeOK'
    BY <1>1, <1>2, <1>4, <1>5, <1>7 DEF LoopTypeOK, Return
<1>9. SlotsInv'
    <2>1. \A s \in Sock : Active(sk', s) <=> Active(sk, s)
        BY <1>5, <1>7 DEF Active
    <2>2. Phase # "received" /\ Phase' # "received"
        BY <1>2 DEF Phase
    <2>3. \A s \in Sock : sk'.ref[s] = Refs(sk, s)'
        BY <1>1, <1>2, <1>7, <2>1, <2>2 DEF SlotsInv, Refs
    <2> QED
        BY <1>5, <1>7, <2>3 DEF SlotsInv
<1>10. StableInv'
    BY <1>4, <1>7 DEF StableInv
<1>11. MessagesInv' /\ QueueInv'
    BY <1>1, <1>2, MessagesFrame, QueueFrame DEF Arrived
<1>12. FreshInv'
    <2>1. unsent' \cup ToSet(Arrived') = unsent \cup ToSet(Arrived)
        BY <1>2 DEF Arrived
    <2>2. \A p \in Proc : p \in ToSet(sk'.slots) => p \in ToSet(sk.slots)
        BY <1>5, <1>7 DEF Sock
    <2> QED
        BY <1>1, <1>2, <2>1, <2>2, FreshFrame
<1> QED
    BY <1>8, <1>9, <1>10, <1>11, <1>12 DEF LoopInv

\* waitpid() returns a child: it is on the queue, and is unlinked from it unless
\* the walk along the queue goes through a freed process.
LEMMA WaitpidStep ==
    ASSUME LoopInv, NEW p \in Proc, Waitpid(p)
    PROVE  LoopInv'
<1>1. LoopTypeOK /\ SlotsInv /\ StableInv /\ MessagesInv /\ FreshInv /\ QueueInv
    BY DEF LoopInv
<1>2. /\ UNCHANGED <<ret, sk, pfd, rev, idx, tmo, timer, inbox, unsent, queue, held,
                     pb, heap, sig, intr>>
      /\ pc = "waitpid" /\ pc' \in {"exit", "undefined"}
      /\ kid[p] = "zombie" /\ kid' = [kid EXCEPT ![p] = "gone"]
      /\ \/ /\ \E i \in DOMAIN waitq : waitq[i] = p /\ waitq' = RemoveAt(waitq, i)
            /\ exiting' = p
         \/ UNCHANGED <<waitq, exiting>>
    BY DEF Waitpid, poll
<1>3. waitq \in Seq(Proc) /\ Distinct(waitq, {}) /\ kid \in [Proc -> {"none", "running", "zombie", "gone"}]
    BY <1>1 DEF LoopTypeOK, QueueInv
<1>4. /\ waitq' \in Seq(Proc) /\ Distinct(waitq', {})
      /\ \/ UNCHANGED <<waitq, exiting>>
         \/ ToSet(waitq') = ToSet(waitq) \ {p} /\ exiting' = p
    BY <1>2, <1>3, RemoveDistinct
<1>5. /\ kid' \in [Proc -> {"none", "running", "zombie", "gone"}] /\ kid'[p] = "gone"
      /\ \A q \in Proc : q # p => kid'[q] = kid[q]
    BY <1>2, <1>3
<1>6. LoopTypeOK'
    BY <1>1, <1>2, <1>4, <1>5 DEF LoopTypeOK, Return
<1>7. SlotsInv' /\ StableInv' /\ MessagesInv'
    <2>1. (Phase' \in Polled => Phase \in Polled) /\ Phase # "received" /\ Phase' # "received"
        BY <1>2 DEF Phase, Polled
    <2> QED
        BY <1>1, <1>2, <2>1, SlotsFrame, StableFrame, MessagesFrame DEF Arrived
<1>8. FreshInv'
    <2> SUFFICES ASSUME NEW q \in Proc, <<"run", q>> \in unsent \cup ToSet(Arrived)
                 PROVE  /\ kid'[q] = "none" /\ heap'[q] = "none" /\ q \notin pb'
                        /\ q \notin ToSet(waitq') /\ q \notin ToSet(sk'.slots)
        BY <1>2 DEF FreshInv, Arrived
    <2>1. kid[q] = "none" /\ heap[q] = "none" /\ q \notin pb /\ q \notin ToSet(waitq) /\ q \notin ToSet(sk.slots)
        BY <1>1 DEF FreshInv
    <2> QED
        BY <1>2, <1>4, <1>5, <2>1
<1>9. QueueInv'
    <2>1. ASSUME NEW q \in Proc
          PROVE  /\ kid'[q] \in {"running", "zombie"} => q \in ToSet(waitq') /\ heap'[q] = "live"
                 /\ q \in ToSet(waitq') /\ heap'[q] = "freed" => q \in NoForkFor
        BY <1>1, <1>2, <1>4, <1>5 DEF QueueInv, WaitQueueSound
    <2>2. ASSUME NEW q \in Proc, exiting' = q
          PROVE  kid'[q] = "gone" /\ q \notin ToSet(waitq')
        BY <1>1, <1>4, <1>5, <2>2 DEF QueueInv
    <2> QED
        BY <1>4, <2>1, <2>2 DEF QueueInv, WaitQueueSound
<1> QED
    BY <1>6, <1>7, <1>8, <1>9 DEF LoopInv

\* The process whose exit was reported is freed with its sockets.
LEMMA ExitFreeStep ==
    ASSUME LoopInv, ExitFree
    PROVE  LoopInv'
<1>1. LoopTypeOK /\ SlotsInv /\ StableInv /\ MessagesInv /\ FreshInv /\ QueueInv
    BY DEF LoopInv
<1>2. /\ UNCHANGED <<ret, pfd, rev, idx, tmo, timer, inbox, unsent, queue, kid, held,
                     waitq, sig, intr>>
      /\ pc = "exited" /\ pc' = "waitpid" /\ exiting' = None
      /\ sk' = buffer_reset(sk, exiting) /\ pb' = pb \ {exiting}
      /\ heap' = [heap EXCEPT ![exiting] = "freed"]
    BY DEF ExitFree, poll, kernel
<1>3. /\ sk \in Table /\ Distinct(sk.slots, {None}) /\ pb \subseteq Proc
      /\ heap \in [Proc -> {"none", "live", "freed"}] /\ exiting \in Proc \cup {None}
    BY <1>1 DEF LoopTypeOK, SlotsInv
<1>4. PICK k : k = sk'
    OBVIOUS
<1>5. /\ k \in Table /\ Distinct(k.slots, {None}) /\ Keeps(sk, k)
      /\ \A t \in Sock :
            /\ Active(k, t) <=> Active(sk, t) /\ ~(t = exiting /\ exiting \in pb)
            /\ k.ref[t] = sk.ref[t] - (IF t = exiting /\ exiting \in pb
                                       THEN IF Active(sk, t) THEN 2 ELSE 1 ELSE 0)
    <2>1. CASE exiting \in pb
        <3>1. PICK e \in Sock : e = exiting
            BY <1>3, <2>1 DEF Sock
        <3>2. k = socket_close(sk, e)
            BY <1>2, <1>4, <2>1, <3>1 DEF buffer_reset
        <3>3. /\ k \in Table /\ Distinct(k.slots, {None}) /\ Keeps(sk, k)
              /\ \A t \in Sock :
                    /\ Active(k, t) <=> Active(sk, t) /\ t # e
                    /\ k.ref[t] = sk.ref[t] - (IF t = e THEN IF Active(sk, t) THEN 2 ELSE 1 ELSE 0)
            BY <1>3, <3>2, CloseFacts
        <3> QED
            BY <2>1, <3>1, <3>3
    <2>2. CASE exiting \notin pb
        <3>1. k = sk
            BY <1>2, <1>4, <2>2 DEF buffer_reset
        <3>2. Keeps(sk, sk) /\ \A t \in Sock : sk.ref[t] - 0 = sk.ref[t]
            BY <1>3 DEF Keeps, Table
        <3> QED
            BY <1>3, <2>2, <3>1, <3>2
    <2> QED
        BY <2>1, <2>2
<1>6. heap' \in [Proc -> {"none", "live", "freed"}] /\ \A q \in Proc : q # exiting => heap'[q] = heap[q]
    BY <1>2, <1>3
<1>7. LoopTypeOK'
    <2>1. pb' \in SUBSET Proc
        BY <1>2, <1>3
    <2> QED
        BY <1>1, <1>2, <1>4, <1>5, <1>6, <2>1 DEF LoopTypeOK, Return
<1>8. Phase = "exited" /\ Phase' = "waitpid"
    BY <1>2 DEF Phase
<1>9. SlotsInv'
    <2>1. ASSUME NEW t \in Sock
          PROVE  k.ref[t] = (IF Active(k, t) THEN 1 ELSE 0)
                            + (IF t = Bus THEN 2 ELSE IF t \in pb' THEN 1 ELSE 0)
        <3>1. sk.ref[t] = (IF Active(sk, t) THEN 1 ELSE 0)
                          + (IF t = Bus THEN 2 ELSE IF t \in pb THEN 1 ELSE 0)
            BY <1>1, <1>8 DEF SlotsInv, Refs
        <3>2. t \in pb' <=> t \in pb /\ t # exiting
            BY <1>2
        <3>3. exiting \in pb => exiting # Bus
            BY <1>3, NoneIsNoSocket
        <3> QED
            BY <1>5, <3>1, <3>2, <3>3
    <2>2. \A t \in Sock : sk'.ref[t] = Refs(sk, t)'
        BY <1>4, <1>8, <2>1 DEF Refs
    <2> QED
        BY <1>4, <1>5, <2>2 DEF SlotsInv
<1>10. StableInv'
    <2>1. \A i \in DOMAIN pfd : i \in DOMAIN sk.slots /\ sk.slots[i] \in {None, pfd[i]}
        BY <1>1, <1>8 DEF StableInv, Polled
    <2>2. \A i \in DOMAIN pfd : i \in DOMAIN k.slots /\ k.slots[i] \in {None, pfd[i]}
        BY <1>5, <2>1 DEF Keeps
    <2> QED
        BY <1>2, <1>4, <2>2 DEF StableInv
<1>11. MessagesInv'
    BY <1>1, <1>2, MessagesFrame DEF Arrived
<1>12. FreshInv'
    <2> SUFFICES ASSUME NEW q \in Proc, <<"run", q>> \in unsent \cup ToSet(Arrived)
                 PROVE  /\ kid'[q] = "none" /\ heap'[q] = "none" /\ q \notin pb'
                        /\ q \notin ToSet(waitq') /\ q \notin ToSet(sk'.slots)
        BY <1>2 DEF FreshInv, Arrived
    <2>1. kid[q] = "none" /\ heap[q] = "none" /\ q \notin pb /\ q \notin ToSet(waitq) /\ ~Active(sk, q)
        BY <1>1 DEF FreshInv, Active
    <2>2. q # exiting
        BY <1>1, <2>1 DEF QueueInv
    <2>3. ~Active(k, q)
        BY <1>5, <2>1 DEF Sock
    <2> QED
        BY <1>2, <1>4, <1>6, <2>1, <2>2, <2>3 DEF Active
<1>13. QueueInv'
    <2>1. ASSUME NEW q \in Proc
          PROVE  /\ kid'[q] \in {"running", "zombie"} => q \in ToSet(waitq') /\ heap'[q] = "live"
                 /\ q \in ToSet(waitq') /\ heap'[q] = "freed" => q \in NoForkFor
        <3>1. exiting = q => kid[q] = "gone" /\ q \notin ToSet(waitq)
            BY <1>1 DEF QueueInv
        <3> QED
            BY <1>1, <1>2, <1>6, <3>1 DEF QueueInv, WaitQueueSound
    <2>2. \A q \in Proc : exiting' # q
        BY <1>2, NoneIsNoSocket
    <2>3. Distinct(waitq', {})
        BY <1>1, <1>2 DEF QueueInv
    <2> QED
        BY <2>1, <2>2, <2>3 DEF QueueInv, WaitQueueSound
<1> QED
    BY <1>7, <1>9, <1>10, <1>11, <1>12, <1>13 DEF LoopInv

-----------------------------------------------------------------------------
(* The walk over the table                                                 *)

\* Output of a process is read, and on hangup its socket is closed.
LEMMA WalkOutputStep ==
    ASSUME LoopInv, WalkOutput
    PROVE  LoopInv'
<1>1. LoopTypeOK /\ SlotsInv /\ StableInv /\ MessagesInv /\ FreshInv /\ QueueInv
    BY DEF LoopInv
<1>2. /\ UNCHANGED <<pc, ret, pfd, rev, tmo, timer, inbox, unsent, queue, kid, held,
                     heap, waitq, exiting, sig, intr>>
      /\ pc = "walk" /\ idx' = idx + 1
    BY DEF WalkOutput
<1>3. PICK p \in Proc : p = sk.slots[idx]
    BY DEF WalkOutput
<1>4. PICK k : k = [sk EXCEPT !.ref[p] = @ + 1]
    OBVIOUS
<1> DEFINE hup == "hup" \in rev[idx]
<1>6. /\ pb' = IF hup THEN pb \ {p} ELSE pb
      /\ sk' = release(IF hup THEN io_hangup(k, p) ELSE k, p)
    BY <1>3, <1>4 DEF WalkOutput
<1>7. sk \in Table /\ Distinct(sk.slots, {None}) /\ pb \subseteq Proc /\ p \in Sock
    BY <1>1 DEF LoopTypeOK, SlotsInv, Sock
<1>8. /\ k \in Table /\ k.slots = sk.slots
      /\ \A t \in Sock : k.ref[t] = sk.ref[t] + (IF t = p THEN 1 ELSE 0)
    <2>1. k = [sk EXCEPT !.ref = [sk.ref EXCEPT ![p] = sk.ref[p] + 1]]
        BY <1>4
    <2>2. k.slots = sk.slots /\ k.ref = [sk.ref EXCEPT ![p] = sk.ref[p] + 1] /\ sk.ref \in [Sock -> Int]
        BY <1>7, <2>1 DEF Table
    <2>3. k.ref \in [Sock -> Int]
        BY <1>7, <2>2
    <2>4. k \in Table
        BY <1>7, <2>1, <2>3 DEF Table
    <2> QED
        BY <1>7, <2>2, <2>4
<1>9. PICK c : c = IF hup THEN io_hangup(k, p) ELSE k
    OBVIOUS
<1>10. /\ c \in Table /\ Distinct(c.slots, {None}) /\ Keeps(sk, c)
       /\ \A t \in Sock :
             /\ Active(c, t) <=> Active(sk, t) /\ ~(t = p /\ hup /\ p \in pb)
             /\ c.ref[t] = sk.ref[t] + (IF t = p THEN 1 ELSE 0)
                           - (IF t = p /\ hup /\ p \in pb
                              THEN IF Active(sk, t) THEN 2 ELSE 1 ELSE 0)
    <2>1. \A t \in Sock : Active(k, t) <=> Active(sk, t)
        BY <1>8 DEF Active
    <2>2. CASE hup /\ p \in pb
        <3>1. c = socket_close(k, p)
            BY <1>9, <2>2 DEF io_hangup
        <3>2. /\ c \in Table /\ Distinct(c.slots, {None}) /\ Keeps(k, c)
              /\ \A t \in Sock :
                    /\ Active(c, t) <=> Active(k, t) /\ t # p
                    /\ c.ref[t] = k.ref[t] - (IF t = p THEN IF Active(k, t) THEN 2 ELSE 1 ELSE 0)
            BY <1>7, <1>8, <3>1, CloseFacts
        <3>3. Keeps(sk, c)
            BY <1>8, <3>2 DEF Keeps
        <3>4. ASSUME NEW t \in Sock
              PROVE  c.ref[t] = sk.ref[t] + (IF t = p THEN 1 ELSE 0)
                                - (IF t = p THEN IF Active(sk, t) THEN 2 ELSE 1 ELSE 0)
            <4>1. sk.ref[t] \in Int
                BY <1>7 DEF Table
            <4>2. /\ k.ref[t] = sk.ref[t] + (IF t = p THEN 1 ELSE 0)
                  /\ c.ref[t] = k.ref[t] - (IF t = p THEN IF Active(sk, t) THEN 2 ELSE 1 ELSE 0)
                BY <1>8, <2>1, <3>2
            <4> QED
                BY <4>1, <4>2
        <3>5. \A t \in Sock : Active(c, t) <=> Active(sk, t) /\ t # p
            BY <2>1, <3>2
        <3> QED
            BY <2>2, <3>2, <3>3, <3>4, <3>5
    <2>3. CASE ~(hup /\ p \in pb)
        <3>1. c = k
            BY <1>9, <2>3 DEF io_hangup
        <3>2. Keeps(sk, k)
            BY <1>8 DEF Keeps
        <3>3. \A t \in Sock : k.ref[t] \in Int
            BY <1>8 DEF Table
        <3> QED
            BY <1>7, <1>8, <2>1, <2>3, <3>1, <3>2, <3>3
    <2> QED
        BY <2>2, <2>3
<1>11. PICK r : r = release(c, p)
    OBVIOUS
<1>12. /\ r \in Table /\ r.slots = c.slots /\ sk' = r
       /\ \A t \in Sock : r.ref[t] = c.ref[t] - (IF t = p THEN 1 ELSE 0)
    BY <1>6, <1>7, <1>9, <1>10, <1>11, ReleaseFacts
<1>13. LoopTypeOK'
    <2>1. pb' \in SUBSET Proc
        BY <1>6, <1>7
    <2> QED
        BY <1>1, <1>2, <1>12, <2>1 DEF LoopTypeOK, Return
<1>14. Phase = "walk" /\ Phase' = "walk"
    BY <1>2 DEF Phase
<1>15. SlotsInv'
    <2>1. ASSUME NEW t \in Sock
          PROVE  r.ref[t] = (IF Active(r, t) THEN 1 ELSE 0)
                            + (IF t = Bus THEN 2 ELSE IF t \in pb' THEN 1 ELSE 0)
        <3>1. sk.ref[t] = (IF Active(sk, t) THEN 1 ELSE 0)
                          + (IF t = Bus THEN 2 ELSE IF t \in pb THEN 1 ELSE 0)
            BY <1>1, <1>14 DEF SlotsInv, Refs
        <3>2. t \in pb' <=> t \in pb /\ ~(t = p /\ hup /\ p \in pb)
            BY <1>6
        <3>3. p # Bus
            BY NoneIsNoSocket
        <3>4. Active(r, t) <=> Active(c, t)
            BY <1>12 DEF Active
        <3> QED
            BY <1>10, <1>12, <3>1, <3>2, <3>3, <3>4
    <2>2. \A t \in Sock : sk'.ref[t] = Refs(sk, t)'
        BY <1>12, <1>14, <2>1 DEF Refs
    <2> QED
        BY <1>10, <1>12, <2>2 DEF SlotsInv
<1>16. StableInv'
    <2>1. \A i \in DOMAIN pfd : i \in DOMAIN sk.slots /\ sk.slots[i] \in {None, pfd[i]}
        BY <1>1, <1>14 DEF StableInv, Polled
    <2>2. \A i \in DOMAIN pfd : i \in DOMAIN r.slots /\ r.slots[i] \in {None, pfd[i]}
        BY <1>10, <1>12, <2>1 DEF Keeps
    <2> QED
        BY <1>2, <1>12, <2>2 DEF StableInv
<1>17. MessagesInv' /\ QueueInv'
    BY <1>1, <1>2, MessagesFrame, QueueFrame DEF Arrived
<1>18. FreshInv'
    <2>1. \A q \in Proc : q \in ToSet(sk'.slots) => q \in ToSet(sk.slots)
        BY <1>10, <1>12 DEF Active, Sock
    <2>2. unsent' \cup ToSet(Arrived') = unsent \cup ToSet(Arrived)
        BY <1>2 DEF Arrived
    <2>3. pb' \subseteq pb
        BY <1>6
    <2> QED
        BY <1>1, <1>2, <2>1, <2>2, <2>3, FreshFrame
<1> QED
    BY <1>13, <1>15, <1>16, <1>17, <1>18 DEF LoopInv

\* The connection is held while what it received is dispatched.
LEMMA WalkBusStep ==
    ASSUME LoopInv, WalkBus \/ Received
    PROVE  LoopInv'
<1>1. LoopTypeOK /\ SlotsInv /\ StableInv /\ MessagesInv /\ FreshInv /\ QueueInv
    BY DEF LoopInv
<1>2. sk \in Table /\ Distinct(sk.slots, {None}) /\ Bus \in Sock
    BY <1>1 DEF LoopTypeOK, SlotsInv, Sock
<1>3. CASE WalkBus /\ rev[idx] = {}
    <2>1. /\ UNCHANGED <<pc, ret, sk, pfd, rev, tmo, timer, inbox, unsent, kid, held, queue,
                         pb, heap, waitq, exiting, sig, intr>>
          /\ idx' = idx + 1
        BY <1>3 DEF WalkBus, children
    <2>2. LoopTypeOK'
        BY <1>1, <2>1 DEF LoopTypeOK, Return
    <2>3. Phase' = Phase
        BY <2>1 DEF Phase
    <2> QED
        BY <2>1, <2>2, <2>3, QuietStep DEF Arrived
<1>4. ASSUME UNCHANGED <<unsent, kid, heap, waitq, pb, exiting, pfd>>, Arrived' = Arrived, LoopTypeOK',
             Phase \in Polled, sk'.slots = sk.slots,
             \A t \in Sock : sk'.ref[t] = sk.ref[t]
                 + (IF t = Bus /\ Phase' = "received" THEN 1 ELSE 0)
                 - (IF t = Bus /\ Phase = "received" THEN 1 ELSE 0)
      PROVE  LoopInv'
    <2>1. SlotsInv'
        <3>1. \A t \in Sock : Active(sk', t) <=> Active(sk, t)
            BY <1>4 DEF Active
        <3>2. \A t \in Sock : sk'.ref[t] = Refs(sk, t)'
            BY <1>1, <1>4, <3>1 DEF SlotsInv, Refs
        <3> QED
            BY <1>2, <1>4, <3>2 DEF SlotsInv
    <2>2. StableInv'
        BY <1>1, <1>4 DEF StableInv
    <2>3. MessagesInv' /\ QueueInv'
        BY <1>1, <1>4, MessagesFrame, QueueFrame
    <2>4. FreshInv'
        BY <1>1, <1>4, FreshFrame
    <2> QED
        BY <1>4, <2>1, <2>2, <2>3, <2>4 DEF LoopInv
<1>5. CASE WalkBus /\ rev[idx] # {}
    <2>1. /\ UNCHANGED <<idx, pfd, rev, tmo, timer, unsent, kid, held,
                         pb, heap, waitq, exiting, sig, intr>>
          /\ \E n \in (IF inbox = <<>> THEN 0 ELSE 1) .. Len(inbox) : Fetch(n)
          /\ sk' = [sk EXCEPT !.ref[Bus] = @ + 1]
          /\ pc = "walk" /\ pc' = "dispatching" /\ ret' = "received"
        BY <1>5 DEF WalkBus, children
    <2>2. Arrived' = Arrived /\ queue' \in Seq(Message) /\ inbox' \in Seq(Message)
        <3>1. \E n \in 0 .. Len(inbox) : Fetch(n)
            BY <2>1
        <3> QED
            BY <1>1, <3>1, SyncCallKeeps
    <2>3. sk' = [sk EXCEPT !.ref = [sk.ref EXCEPT ![Bus] = sk.ref[Bus] + 1]]
        BY <2>1
    <2>4. sk'.slots = sk.slots /\ sk'.ref = [sk.ref EXCEPT ![Bus] = sk.ref[Bus] + 1] /\ sk' \in Table
        BY <1>2, <2>3 DEF Table
    <2>5. \A t \in Sock : sk'.ref[t] = sk.ref[t] + (IF t = Bus THEN 1 ELSE 0) /\ sk.ref[t] \in Int
        BY <1>2, <2>4 DEF Table
    <2>6. LoopTypeOK'
        BY <1>1, <2>1, <2>2, <2>4 DEF LoopTypeOK, Return
    <2>7. Phase = "walk" /\ Phase' = "received"
        BY <2>1 DEF Phase
    <2>8. \A t \in Sock : sk'.ref[t] = sk.ref[t]
                 + (IF t = Bus /\ Phase' = "received" THEN 1 ELSE 0)
                 - (IF t = Bus /\ Phase = "received" THEN 1 ELSE 0)
        BY <2>5, <2>7
    <2> QED
        BY <1>4, <2>1, <2>2, <2>4, <2>6, <2>7, <2>8 DEF Polled
<1>6. CASE Received
    <2>1. /\ UNCHANGED <<ret, pfd, rev, tmo, timer, inbox, unsent, queue, kid, held,
                         pb, heap, waitq, exiting, sig, intr>>
          /\ sk' = release(sk, Bus) /\ idx' = idx + 1 /\ pc = "received" /\ pc' = "walk"
        BY <1>6 DEF Received, kernel, children
    <2>2. /\ sk' \in Table /\ sk'.slots = sk.slots
          /\ \A t \in Sock : sk'.ref[t] = sk.ref[t] - (IF t = Bus THEN 1 ELSE 0)
        BY <1>2, <2>1, ReleaseFacts
    <2>3. LoopTypeOK'
        BY <1>1, <2>1, <2>2 DEF LoopTypeOK, Return
    <2>4. Phase = "received" /\ Phase' = "walk"
        BY <2>1 DEF Phase
    <2>5. \A t \in Sock : sk'.ref[t] = sk.ref[t]
                 + (IF t = Bus /\ Phase' = "received" THEN 1 ELSE 0)
                 - (IF t = Bus /\ Phase = "received" THEN 1 ELSE 0)
        <3>1. \A t \in Sock : sk.ref[t] \in Int
            BY <1>2 DEF Table
        <3> QED
            BY <2>2, <2>4, <3>1
    <2> QED
        BY <1>4, <2>1, <2>2, <2>3, <2>4, <2>5 DEF Polled, Arrived
<1> QED
    BY <1>3, <1>5, <1>6

-----------------------------------------------------------------------------
(* Messages, the kernel and the master                                     *)

\* Taking the first element of the first of two sequences.
LEMMA TailOfConcat ==
    ASSUME NEW S, NEW q \in Seq(S), NEW r \in Seq(S), q # <<>>
    PROVE  /\ Tail(q) \in Seq(S) /\ q \o r # <<>>
           /\ Head(q \o r) = Head(q) /\ Tail(q \o r) = Tail(q) \o r
<1>1. PICK h \in S : h = Head(q)
    BY HeadTailProperties
<1>2. PICK t \in Seq(S) : t = Tail(q)
    BY HeadTailProperties
<1>3. PICK a : a = q \o r
    OBVIOUS
<1>4. PICK b : b = t \o r
    OBVIOUS
<1>5. /\ Len(q) \in Nat /\ Len(q) >= 1 /\ Len(r) \in Nat /\ Len(t) = Len(q) - 1
      /\ \A i \in 1 .. Len(q) - 1 : t[i] = q[i + 1]
    BY <1>2, HeadTailProperties, SeqFacts, EmptySeq
<1>6. /\ a \in Seq(S) /\ Len(a) = Len(q) + Len(r)
      /\ \A i \in 1 .. Len(q) + Len(r) : a[i] = IF i <= Len(q) THEN q[i] ELSE r[i - Len(q)]
    BY <1>3, ConcatProperties
<1>7. /\ b \in Seq(S) /\ Len(b) = Len(t) + Len(r)
      /\ \A i \in 1 .. Len(t) + Len(r) : b[i] = IF i <= Len(t) THEN t[i] ELSE r[i - Len(t)]
    BY <1>4, ConcatProperties
<1>8. a # <<>>
    <2>1. Len(a) # 0
        BY <1>5, <1>6
    <2> QED
        BY <2>1, EmptySeq
<1>9. Head(a) = h
    <2>1. Head(a) = a[1] /\ h = q[1]
        BY <1>1, <1>6, <1>8
    <2> QED
        BY <1>5, <1>6, <2>1
<1>10. PICK c \in Seq(S) : c = Tail(a)
    BY <1>6, <1>8, HeadTailProperties
<1>11. Len(c) = Len(a) - 1 /\ \A i \in 1 .. Len(a) - 1 : c[i] = a[i + 1]
    BY <1>6, <1>8, <1>10, HeadTailProperties
<1>12. Len(c) = Len(b)
    BY <1>5, <1>6, <1>7, <1>11
<1>13. ASSUME NEW i \in 1 .. Len(c)
       PROVE  c[i] = b[i]
    <2>1. c[i] = IF i + 1 <= Len(q) THEN q[i + 1] ELSE r[(i + 1) - Len(q)]
        BY <1>5, <1>6, <1>11
    <2>2. b[i] = IF i <= Len(q) - 1 THEN q[i + 1] ELSE r[i - (Len(q) - 1)]
        BY <1>5, <1>7, <1>12
    <2>3. i \in Int /\ (i + 1) - Len(q) = i - (Len(q) - 1)
        BY <1>5
    <2> QED
        BY <1>5, <2>1, <2>2, <2>3
<1>14. c = b
    BY <1>7, <1>12, <1>13, SeqEqual
<1> QED
    BY <1>1, <1>2, <1>3, <1>4, <1>8, <1>9, <1>10, <1>14

\* The message that is handled was in no other place.
LEMMA MessageTaken ==
    ASSUME LoopTypeOK, MessagesInv, queue # <<>>, Arrived' = Tail(queue) \o inbox, unsent' = unsent
    PROVE  /\ Head(queue) \in Message /\ Head(queue) \in ToSet(Arrived)
           /\ ToSet(Arrived') = ToSet(Arrived) \ {Head(queue)}
           /\ MessagesInv'
<1>1. PICK a \in Seq(Message) : a = Arrived
    BY ArrivedType
<1>2. queue \in Seq(Message) /\ inbox \in Seq(Message)
    BY DEF LoopTypeOK
<1>3. a # <<>> /\ Head(a) = Head(queue) /\ Tail(a) = Arrived'
    BY <1>1, <1>2, TailOfConcat DEF Arrived
<1>4. Distinct(a, {}) /\ ToSet(a) \cap unsent = {}
    BY <1>1 DEF MessagesInv
<1>5. PICK h : h = Head(a)
    OBVIOUS
<1>6. PICK t : t = Tail(a)
    OBVIOUS
<1>7. h \in Message /\ Distinct(t, {}) /\ h \in ToSet(a) /\ ToSet(t) = ToSet(a) \ {h}
    BY <1>3, <1>4, <1>5, <1>6, TailDistinct
<1>8. MessagesInv'
    BY <1>3, <1>4, <1>6, <1>7 DEF MessagesInv
<1> QED
    BY <1>1, <1>3, <1>5, <1>6, <1>7, <1>8

\* A process is started, or freed before or after it was queued.
LEMMA HandleRunStep ==
    ASSUME LoopInv, HandleRun
    PROVE  LoopInv'
<1>1. LoopTypeOK /\ SlotsInv /\ StableInv /\ MessagesInv /\ FreshInv /\ QueueInv
    BY DEF LoopInv
<1>2. /\ UNCHANGED <<pc, ret, pfd, rev, idx, tmo, timer, unsent, held, exiting, sig, intr>>
      /\ pc = "dispatching" /\ queue # <<>> /\ Head(queue)[1] = "run"
    BY DEF HandleRun, poll
<1>3. Arrived' = Tail(queue) \o inbox /\ queue' \in Seq(Message) /\ inbox' \in Seq(Message)
    <2>1. PICK n \in 0 .. Len(inbox) :
              /\ queue' = Tail(queue) \o SubSeq(inbox, 1, n)
              /\ inbox' = SubSeq(inbox, n + 1, Len(inbox))
        BY DEF HandleRun
    <2>2. PICK b \in Seq(Message) : b = inbox
        BY <1>1 DEF LoopTypeOK
    <2>3. PICK t \in Seq(Message) : t = Tail(queue)
        BY <1>1, <1>2, HeadTailProperties DEF LoopTypeOK
    <2>4. /\ t \o SubSeq(b, 1, n) \in Seq(Message) /\ SubSeq(b, n + 1, Len(b)) \in Seq(Message)
          /\ (t \o SubSeq(b, 1, n)) \o SubSeq(b, n + 1, Len(b)) = t \o b
        BY <2>2, FetchKeeps
    <2> QED
        BY <2>1, <2>2, <2>3, <2>4 DEF Arrived
<1>4. PICK p \in Proc : Head(queue) = <<"run", p>>
    <2>1. Head(queue) \in Message
        BY <1>1, <1>2, <1>3, MessageTaken
    <2> QED
        BY <1>2, <2>1 DEF Message
<1>5. /\ <<"run", p>> \in ToSet(Arrived) /\ ToSet(Arrived') = ToSet(Arrived) \ {<<"run", p>>}
      /\ MessagesInv'
    BY <1>1, <1>2, <1>3, <1>4, MessageTaken
<1>6. /\ kid[p] = "none" /\ heap[p] = "none" /\ p \notin pb
      /\ p \notin ToSet(waitq) /\ p \notin ToSet(sk.slots)
    BY <1>1, <1>5 DEF FreshInv
<1>7. \/ /\ heap' = [heap EXCEPT ![p] = "freed"]
         /\ UNCHANGED <<sk, kid, pb, waitq>>
      \/ /\ p \in NoForkFor
         /\ waitq' = <<p>> \o waitq
         /\ heap' = [heap EXCEPT ![p] = "freed"]
         /\ UNCHANGED <<sk, kid, pb>>
      \/ /\ waitq' = <<p>> \o waitq
         /\ heap' = [heap EXCEPT ![p] = "live"]
         /\ kid' = [kid EXCEPT ![p] = "running"]
         /\ sk' = attach_parent(sk, p) /\ pb' = pb \cup {p}
    <2>1. Head(queue)[2] = p
        BY <1>4
    <2> QED
        BY <2>1 DEF HandleRun, add_waitq
<1>8. /\ waitq \in Seq(Proc) /\ Distinct(waitq, {})
      /\ kid \in [Proc -> {"none", "running", "zombie", "gone"}]
      /\ heap \in [Proc -> {"none", "live", "freed"}]
      /\ pb \subseteq Proc /\ sk \in Table /\ Distinct(sk.slots, {None})
    BY <1>1 DEF LoopTypeOK, QueueInv, SlotsInv
<1>9. /\ waitq' \in Seq(Proc) /\ Distinct(waitq', {})
      /\ waitq' = waitq \/ ToSet(waitq') = ToSet(waitq) \cup {p}
    <2>1. <<p>> \o waitq \in Seq(Proc) /\ Distinct(<<p>> \o waitq, {})
          /\ ToSet(<<p>> \o waitq) = ToSet(waitq) \cup {p}
        BY <1>6, <1>8, PrependDistinct
    <2> QED
        BY <1>7, <1>8, <2>1
<1>10. /\ kid' \in [Proc -> {"none", "running", "zombie", "gone"}]
       /\ heap' \in [Proc -> {"none", "live", "freed"}]
       /\ \A q \in Proc : q # p => kid'[q] = kid[q] /\ heap'[q] = heap[q]
    BY <1>7, <1>8
<1>11. /\ sk' \in Table /\ Distinct(sk'.slots, {None}) /\ Keeps(sk, sk')
       /\ \/ UNCHANGED <<sk, pb>>
          \/ /\ pb' = pb \cup {p}
             /\ \A t \in Sock : /\ Active(sk', t) <=> Active(sk, t) \/ t = p
                                /\ sk'.ref[t] = IF t = p THEN 2 ELSE sk.ref[t]
    <2>1. CASE UNCHANGED <<sk, pb>>
        BY <1>8, <2>1 DEF Keeps
    <2>2. CASE sk' = attach_parent(sk, p) /\ pb' = pb \cup {p}
        <3>1. ~Active(sk, p)
            BY <1>6 DEF Active
        <3>2. PICK k : k = attach_parent(sk, p)
            OBVIOUS
        <3>3. /\ k \in Table /\ Distinct(k.slots, {None}) /\ Keeps(sk, k)
              /\ \A t \in Sock : /\ Active(k, t) <=> Active(sk, t) \/ t = p
                                 /\ k.ref[t] = IF t = p THEN 2 ELSE sk.ref[t]
            BY <1>8, <3>1, <3>2, AttachFacts
        <3> QED
            BY <2>2, <3>2, <3>3
    <2> QED
        BY <1>7, <2>1, <2>2
<1>12. LoopTypeOK'
    <2>1. pb' \in SUBSET Proc
        BY <1>8, <1>11
    <2> QED
        BY <1>1, <1>2, <1>3, <1>9, <1>10, <1>11, <2>1 DEF LoopTypeOK, Return
<1>13. Phase' = Phase
    BY <1>2 DEF Phase
<1>14. SlotsInv'
    <2>1. CASE UNCHANGED <<sk, pb>>
        BY <1>1, <1>13, <2>1, SlotsFrame
    <2>2. CASE /\ pb' = pb \cup {p}
               /\ \A t \in Sock : /\ Active(sk', t) <=> Active(sk, t) \/ t = p
                                  /\ sk'.ref[t] = IF t = p THEN 2 ELSE sk.ref[t]
        <3>1. p # Bus /\ p \in Sock
            BY NoneIsNoSocket DEF Sock
        <3>2. \A t \in Sock : sk'.ref[t] = Refs(sk, t)'
            BY <1>1, <1>13, <2>2, <3>1 DEF SlotsInv, Refs
        <3> QED
            BY <1>11, <3>2 DEF SlotsInv
    <2> QED
        BY <1>11, <2>1, <2>2
<1>15. StableInv'
    <2>1. ASSUME Phase \in Polled
          PROVE  \A i \in DOMAIN pfd : i \in DOMAIN sk'.slots /\ sk'.slots[i] \in {None, pfd[i]}
        BY <1>1, <1>11, <2>1 DEF StableInv, Keeps
    <2> QED
        BY <1>2, <1>13, <2>1 DEF StableInv
<1>16. FreshInv'
    <2> SUFFICES ASSUME NEW q \in Proc, <<"run", q>> \in unsent' \cup ToSet(Arrived')
                 PROVE  /\ kid'[q] = "none" /\ heap'[q] = "none" /\ q \notin pb'
                        /\ q \notin ToSet(waitq') /\ q \notin ToSet(sk'.slots)
        BY DEF FreshInv
    <2>1. q # p
        <3>1. <<"run", p>> \notin unsent
            BY <1>1, <1>5 DEF MessagesInv
        <3> QED
            BY <1>2, <1>5, <3>1
    <2>2. /\ kid[q] = "none" /\ heap[q] = "none" /\ q \notin pb
          /\ q \notin ToSet(waitq) /\ ~Active(sk, q)
        BY <1>1, <1>2, <1>5 DEF FreshInv, Active
    <2>3. q \notin pb' /\ ~Active(sk', q)
        BY <1>11, <2>1, <2>2 DEF Sock
    <2> QED
        BY <1>9, <1>10, <2>1, <2>2, <2>3 DEF Active
<1>17. QueueInv'
    <2>1. /\ kid'[p] \in {"running", "zombie"} => p \in ToSet(waitq') /\ heap'[p] = "live"
          /\ p \in ToSet(waitq') /\ heap'[p] = "freed" => p \in NoForkFor
        <3>1. waitq' = <<p>> \o waitq => p \in ToSet(waitq')
            BY <1>6, <1>8, PrependDistinct
        <3>2. heap'[p] = "live" \/ kid'[p] = "none"
            BY <1>6, <1>7, <1>8
        <3> QED
            BY <1>6, <1>7, <1>8, <3>1, <3>2
    <2>2. ASSUME NEW q \in Proc, q # p
          PROVE  /\ kid'[q] \in {"running", "zombie"} => q \in ToSet(waitq') /\ heap'[q] = "live"
                 /\ q \in ToSet(waitq') /\ heap'[q] = "freed" => q \in NoForkFor
        BY <1>1, <1>9, <1>10, <2>2 DEF QueueInv, WaitQueueSound
    <2>3. ASSUME NEW q \in Proc, exiting' = q
          PROVE  kid'[q] = "gone" /\ q \notin ToSet(waitq')
        <3>1. kid[q] = "gone" /\ q \notin ToSet(waitq)
            BY <1>1, <1>2, <2>3 DEF QueueInv
        <3>2. q # p
            BY <1>6, <3>1
        <3> QED
            BY <1>9, <1>10, <3>1, <3>2
    <2> QED
        BY <1>9, <2>1, <2>2, <2>3 DEF QueueInv, WaitQueueSound
<1> QED
    BY <1>5, <1>12, <1>14, <1>15, <1>16, <1>17 DEF LoopInv

\* Children only end by themselves or are killed.
LEMMA ChildEnds ==
    ASSUME LoopInv, LoopTypeOK', MessagesInv', ToSet(Arrived') \subseteq ToSet(Arrived),
           UNCHANGED <<unsent, sk, pfd, heap, waitq, pb, exiting>>, Phase' = Phase,
           \A p \in Proc : kid'[p] = kid[p] \/ (kid[p] = "running" /\ kid'[p] = "zombie")
    PROVE  LoopInv'
<1>1. LoopTypeOK /\ SlotsInv /\ StableInv /\ MessagesInv /\ FreshInv /\ QueueInv
    BY DEF LoopInv
<1>2. SlotsInv' /\ StableInv'
    BY <1>1, SlotsFrame, StableFrame
<1>3. FreshInv'
    <2> SUFFICES ASSUME NEW q \in Proc, <<"run", q>> \in unsent' \cup ToSet(Arrived')
                 PROVE  /\ kid'[q] = "none" /\ heap'[q] = "none" /\ q \notin pb'
                        /\ q \notin ToSet(waitq') /\ q \notin ToSet(sk'.slots)
        BY DEF FreshInv
    <2>1. /\ kid[q] = "none" /\ heap[q] = "none" /\ q \notin pb
          /\ q \notin ToSet(waitq) /\ q \notin ToSet(sk.slots)
        BY <1>1 DEF FreshInv
    <2> QED
        BY <2>1
<1>4. QueueInv'
    <2>1. ASSUME NEW q \in Proc
          PROVE  /\ kid'[q] \in {"running", "zombie"} => q \in ToSet(waitq') /\ heap'[q] = "live"
                 /\ q \in ToSet(waitq') /\ heap'[q] = "freed" => q \in NoForkFor
                 /\ exiting' = q => kid'[q] = "gone" /\ q \notin ToSet(waitq')
        BY <1>1 DEF QueueInv, WaitQueueSound
    <2>2. Distinct(waitq', {})
        BY <1>1 DEF QueueInv
    <2> QED
        BY <2>1, <2>2 DEF QueueInv, WaitQueueSound
<1> QED
    BY <1>2, <1>3, <1>4 DEF LoopInv

\* The local process of a deleted one is killed.
LEMMA HandleDeleteStep ==
    ASSUME LoopInv, HandleDelete
    PROVE  LoopInv'
<1>1. LoopTypeOK /\ MessagesInv
    BY DEF LoopInv
<1>2. /\ UNCHANGED <<pc, ret, sk, pfd, rev, idx, tmo, timer, inbox, unsent, held,
                     pb, heap, waitq, exiting, intr>>
      /\ pc = "dispatching" /\ queue # <<>> /\ queue' = Tail(queue)
    BY DEF HandleDelete, poll, children
<1>3. Arrived' = Tail(queue) \o inbox /\ queue' \in Seq(Message)
    BY <1>1, <1>2, HeadTailProperties DEF Arrived, LoopTypeOK
<1>4. ToSet(Arrived') \subseteq ToSet(Arrived) /\ MessagesInv'
    BY <1>1, <1>2, <1>3, MessageTaken
<1>5. PICK p : p = Head(queue)[2]
    OBVIOUS
<1>6. /\ kid' = IF kid[p] = "running" /\ heap[p] = "live" THEN [kid EXCEPT ![p] = "zombie"] ELSE kid
      /\ sig' = (sig \/ (kid[p] = "running" /\ heap[p] = "live"))
    BY <1>5 DEF HandleDelete
<1>7. kid \in [Proc -> {"none", "running", "zombie", "gone"}] /\ sig \in BOOLEAN
    BY <1>1 DEF LoopTypeOK
<1>8. /\ kid' \in [Proc -> {"none", "running", "zombie", "gone"}]
      /\ \A q \in Proc : kid'[q] = kid[q] \/ (kid[q] = "running" /\ kid'[q] = "zombie")
    BY <1>6, <1>7
<1>9. sig' \in BOOLEAN
    BY <1>6, <1>7
<1>10. LoopTypeOK'
    BY <1>1, <1>2, <1>3, <1>8, <1>9 DEF LoopTypeOK, Return
<1>11. Phase' = Phase
    BY <1>2 DEF Phase
<1> QED
    BY <1>2, <1>4, <1>8, <1>10, <1>11, ChildEnds

\* A child ends.
LEMMA KidExitsStep ==
    ASSUME LoopInv, NEW p \in Proc, KidExits(p)
    PROVE  LoopInv'
<1>1. LoopTypeOK /\ MessagesInv
    BY DEF LoopInv
<1>2. /\ UNCHANGED <<pc, ret, sk, pfd, rev, idx, tmo, timer, inbox, queue, unsent,
                     pb, heap, waitq, exiting>>
      /\ kid[p] = "running" /\ kid' = [kid EXCEPT ![p] = "zombie"]
      /\ held' \in {held, held \cup {p}} /\ sig' = TRUE /\ intr' = (intr \/ pc = "poll")
    BY DEF KidExits, poll, children
<1>3. kid \in [Proc -> {"none", "running", "zombie", "gone"}] /\ held \subseteq Proc /\ intr \in BOOLEAN
    BY <1>1 DEF LoopTypeOK
<1>4. /\ kid' \in [Proc -> {"none", "running", "zombie", "gone"}]
      /\ \A q \in Proc : kid'[q] = kid[q] \/ (kid[q] = "running" /\ kid'[q] = "zombie")
    BY <1>2, <1>3
<1>5. held' \in SUBSET Proc /\ intr' \in BOOLEAN
    BY <1>2, <1>3
<1>6. sig' \in BOOLEAN
    BY <1>2, Zenon
<1>7. LoopTypeOK'
    <2>1. UNCHANGED <<pc, ret, sk, pfd, rev, idx, tmo, timer, inbox, queue, unsent,
                      pb, heap, waitq, exiting>>
        BY <1>2
    <2> QED
        BY <1>1, <1>4, <1>5, <1>6, <2>1 DEF LoopTypeOK, Return
<1>8. Phase' = Phase /\ Arrived' = Arrived
    BY <1>2 DEF Phase, Arrived
<1>9. MessagesInv'
    BY <1>1, <1>2, <1>8, MessagesFrame
<1> QED
    BY <1>2, <1>4, <1>7, <1>8, <1>9, ChildEnds

\* The master sends a message it has not sent before.
LEMMA MasterSendsStep ==
    ASSUME LoopInv, NEW m \in Message, MasterSends(m)
    PROVE  LoopInv'
<1>1. LoopTypeOK /\ SlotsInv /\ StableInv /\ MessagesInv /\ FreshInv /\ QueueInv
    BY DEF LoopInv
<1>2. /\ UNCHANGED <<pc, ret, sk, pfd, rev, idx, tmo, timer, queue, kid, held,
                     pb, heap, waitq, exiting, sig, intr>>
      /\ m \in unsent /\ inbox' = Append(inbox, m) /\ unsent' = unsent \ {m}
    BY DEF MasterSends, poll, children
<1>3. inbox \in Seq(Message) /\ queue \in Seq(Message) /\ unsent \subseteq Message
    BY <1>1 DEF LoopTypeOK
<1>4. PICK a \in Seq(Message) : a = Arrived
    BY <1>1, ArrivedType
<1>5. Arrived' = Append(a, m) /\ inbox' \in Seq(Message)
    <2>1. PICK r \in Seq(Message) : r = <<m>>
        <3>1. <<m>> \in Seq(Message)
            BY SingletonSeq
        <3> QED
            BY <3>1
    <2>2. inbox' = inbox \o r
        BY <1>2, <1>3, <2>1, AppendIsConcat
    <2>3. queue \o (inbox \o r) = (queue \o inbox) \o r /\ inbox \o r \in Seq(Message)
        <3>1. PICK x \in Seq(Message) : x = queue
            BY <1>3
        <3>2. PICK y \in Seq(Message) : y = inbox
            BY <1>3
        <3>3. x \o (y \o r) = (x \o y) \o r /\ y \o r \in Seq(Message)
            BY ConcatAssociative, ConcatProperties, SMTT(40)
        <3> QED
            BY <3>1, <3>2, <3>3
    <2>4. Append(a, m) = a \o r
        BY <2>1, AppendIsConcat
    <2> QED
        BY <1>2, <1>4, <2>2, <2>3, <2>4 DEF Arrived
<1>6. Distinct(a, {}) /\ ToSet(a) \cap unsent = {}
    BY <1>1, <1>4 DEF MessagesInv
<1>7. PICK b : b = Append(a, m)
    OBVIOUS
<1>8. Distinct(b, {}) /\ ToSet(b) = ToSet(a) \cup {m}
    <2>1. m \notin ToSet(a)
        BY <1>2, <1>6
    <2> QED
        BY <1>6, <1>7, <2>1, AppendDistinct
<1>9. MessagesInv'
    BY <1>2, <1>5, <1>6, <1>7, <1>8 DEF MessagesInv
<1>10. LoopTypeOK'
    <2>1. unsent' \in SUBSET Message
        BY <1>2, <1>3
    <2> QED
        BY <1>1, <1>2, <1>5, <2>1 DEF LoopTypeOK, Return
<1>11. SlotsInv' /\ StableInv' /\ QueueInv'
    <2>1. Phase' = Phase
        BY <1>2 DEF Phase
    <2> QED
        BY <1>1, <1>2, <2>1, SlotsFrame, StableFrame, QueueFrame
<1>12. FreshInv'
    <2>1. unsent' \cup ToSet(Arrived') \subseteq unsent \cup ToSet(Arrived)
        BY <1>2, <1>4, <1>5, <1>7, <1>8
    <2> QED
        BY <1>1, <1>2, <2>1, FreshFrame
<1> QED
    BY <1>9, <1>10, <1>11, <1>12 DEF LoopInv

-----------------------------------------------------------------------------
(* The theorems                                                            *)

\* Only the connection is in the table, and nothing was asked for.
LEMMA LoopInitHolds ==
    ASSUME LoopInit
    PROVE  LoopInv
<1>1. /\ pc = "main" /\ ret = "main" /\ sk = NoSockets
      /\ pfd = <<>> /\ rev = <<>> /\ idx = 0 /\ tmo = -1 /\ timer = Period
      /\ inbox = <<>> /\ queue = <<>> /\ unsent = Message
      /\ kid = [p \in Proc |-> "none"] /\ held = {}
      /\ pb = {} /\ heap = [p \in Proc |-> "none"] /\ waitq = <<>> /\ exiting = None
    BY DEF LoopInit
<1>2. sig \in BOOLEAN /\ intr \in BOOLEAN
    <2>1. sig = FALSE /\ intr = FALSE
        BY DEF LoopInit
    <2> QED
        BY <2>1, Zenon
<1>3. PICK b : b = <<Bus>>
    OBVIOUS
<1>4. b \in Slots /\ DOMAIN b = {1} /\ b[1] = Bus
    BY <1>3 DEF Slots, Sock
<1>5. sk.slots = b /\ sk.ref = [s \in Sock |-> IF s = Bus THEN 3 ELSE 0] /\ sk \in Table
    BY <1>1, <1>3, <1>4 DEF NoSockets, Table
<1>6. LoopTypeOK
    <2>1. /\ pfd \in Seq(Sock) /\ rev \in Seq(SUBSET {"in", "hup"}) /\ waitq \in Seq(Proc)
          /\ inbox \in Seq(Message) /\ queue \in Seq(Message)
        BY <1>1, EmptySeq
    <2>2. idx \in Nat /\ tmo \in Int /\ timer \in Nat
        BY <1>1, EventLoopAssumption
    <2> QED
        BY <1>1, <1>2, <1>5, <2>1, <2>2 DEF LoopTypeOK, Return
<1>7. \A s \in Sock : Active(sk, s) <=> s = Bus
    BY <1>4, <1>5 DEF Active, ToSet
<1>8. SlotsInv
    <2>1. Phase = "main"
        BY <1>1 DEF Phase
    <2>2. \A s \in Sock : sk.ref[s] = Refs(sk, s)
        BY <1>1, <1>5, <1>7, <2>1 DEF Refs
    <2> QED
        BY <1>4, <1>5, <2>2 DEF SlotsInv, Distinct
<1>9. StableInv
    BY <1>1 DEF StableInv
<1>10. ToSet(Arrived) = {} /\ Distinct(Arrived, {})
    <2>1. Arrived = <<>>
        BY <1>1, EmptySeq, ConcatEmptySeq DEF Arrived
    <2> QED
        BY <2>1 DEF ToSet, Distinct
<1>11. MessagesInv
    BY <1>10 DEF MessagesInv
<1>12. ToSet(waitq) = {} /\ Distinct(waitq, {})
    BY <1>1 DEF ToSet, Distinct
<1>13. FreshInv
    <2>1. \A p \in Proc : p \notin ToSet(sk.slots)
        BY <1>7, NoneIsNoSocket DEF Active, Sock
    <2> QED
        BY <1>1, <1>12, <2>1 DEF FreshInv
<1>14. QueueInv
    <2>1. \A p \in Proc : exiting # p
        BY <1>1, NoneIsNoSocket
    <2> QED
        BY <1>1, <1>12, <2>1 DEF QueueInv, WaitQueueSound
<1> QED
    BY <1>6, <1>8, <1>9, <1>11, <1>13, <1>14 DEF LoopInv

\* Stuttering changes nothing.
LEMMA LoopStutter ==
    ASSUME LoopInv, UNCHANGED loopVars
    PROVE  LoopInv'
    BY DEF loopVars, LoopInv, LoopTypeOK, SlotsInv, Refs, Active, StableInv, Phase, MessagesInv,
           Arrived, FreshInv, QueueInv, WaitQueueSound

\* Every reachable state of the event loop satisfies the invariant, for any set
\* of processes and any order of signals, messages and callbacks.
THEOREM LoopInvariant == LoopSpec => []LoopInv
<1>1. LoopInit => LoopInv
    BY LoopInitHolds
<1>2. LoopInv /\ [LoopNext]_loopVars => LoopInv'
    <2> SUFFICES ASSUME LoopInv, [LoopNext]_loopVars
                 PROVE  LoopInv'
        OBVIOUS
    <2>1. CASE \/ FireTimer \/ NextTimeout \/ PollReturns \/ PollInterrupted
               \/ ReapChildren \/ NoMoreChildren \/ ExitCallback
               \/ WalkSkip \/ WalkDone \/ Dispatched \/ Tick
        BY <2>1, PhaseSteps
    <2>2. CASE Prepare
        BY <2>2, PrepareStep
    <2>3. CASE \E p \in Proc : Waitpid(p)
        BY <2>3, WaitpidStep
    <2>4. CASE ExitFree
        BY <2>4, ExitFreeStep
    <2>5. CASE WalkOutput
        BY <2>5, WalkOutputStep
    <2>6. CASE WalkBus \/ Received
        BY <2>6, WalkBusStep
    <2>7. CASE HandleRun
        BY <2>7, HandleRunStep
    <2>8. CASE HandleDelete
        BY <2>8, HandleDeleteStep
    <2>9. CASE \E m \in Message : MasterSends(m)
        BY <2>9, MasterSendsStep
    <2>10. CASE \E p \in Proc : KidExits(p)
        BY <2>10, KidExitsStep
    <2>11. CASE UNCHANGED loopVars
        BY <2>11, LoopStutter
    <2> QED
        BY <2>1, <2>2, <2>3, <2>4, <2>5, <2>6, <2>7, <2>8, <2>9, <2>10, <2>11
           DEF LoopNext, LoopStep, Environment
<1> QED
    BY <1>1, <1>2, PTL DEF LoopSpec

\* What poll() reported at a position is applied to the socket it was asked about
\* or to none, and no socket is freed while it is in the table, nor leaked.
THEOREM EventsAlwaysReachTheirSocket == LoopSpec => []EventsReachTheirSocket
<1>1. LoopInv => EventsReachTheirSocket
    <2> SUFFICES ASSUME LoopInv
                 PROVE  EventsReachTheirSocket
        OBVIOUS
    <2>1. LoopTypeOK /\ SlotsInv /\ StableInv
        BY DEF LoopInv
    <2>2. ASSUME pc \in {"reap", "waitpid", "exit", "exited", "walk", "received"},
                 NEW i \in DOMAIN pfd
          PROVE  i \in DOMAIN sk.slots /\ sk.slots[i] \in {None, pfd[i]}
        <3>1. Phase \in Polled
            BY <2>2 DEF Phase, Polled
        <3> QED
            BY <2>1, <3>1 DEF StableInv
    <2>3. \A s \in Sock : Cardinality({i \in DOMAIN sk.slots : sk.slots[i] = s}) =
                          IF Active(sk, s) THEN 1 ELSE 0
        <3> SUFFICES ASSUME NEW s \in Sock
                     PROVE  Cardinality({i \in DOMAIN sk.slots : sk.slots[i] = s}) =
                            IF Active(sk, s) THEN 1 ELSE 0
            OBVIOUS
        <3>1. CASE Active(sk, s)
            <4>1. PICK i \in DOMAIN sk.slots : sk.slots[i] = s
                BY <3>1 DEF Active, ToSet
            <4>2. {j \in DOMAIN sk.slots : sk.slots[j] = s} = {i}
                BY <2>1, <4>1, NoneIsNoSocket DEF SlotsInv, Distinct
            <4> QED
                BY <3>1, <4>2, FS_Singleton
        <3>2. CASE ~Active(sk, s)
            <4>1. {j \in DOMAIN sk.slots : sk.slots[j] = s} = {}
                BY <3>2 DEF Active, ToSet
            <4> QED
                BY <3>2, <4>1, FS_EmptySet
        <3> QED
            BY <3>1, <3>2
    <2>4. Phase = "received" <=> pc = "received" \/ (pc = "dispatching" /\ ret = "received")
        BY DEF Phase
    <2>5. \A s \in Sock :
              sk.ref[s] = Cardinality({i \in DOMAIN sk.slots : sk.slots[i] = s})
                          + (IF s = Bus THEN 2 ELSE IF s \in pb THEN 1 ELSE 0)
                          + (IF s = Bus /\ (pc = "received" \/ (pc = "dispatching" /\ ret = "received"))
                             THEN 1 ELSE 0)
        BY <2>1, <2>3, <2>4 DEF SlotsInv, Refs
    <2> QED
        BY <2>2, <2>5 DEF EventsReachTheirSocket
<1> QED
    BY <1>1, LoopInvariant, PTL

\* A child's process object is on the queue from the fork until it is reaped, and
\* a freed one only when fork() had failed for it.
THEOREM WaitQueueIsSound == LoopSpec => []WaitQueueSound
<1>1. LoopInv => WaitQueueSound
    BY DEF LoopInv, QueueInv
<1> QED
    BY <1>1, LoopInvariant, PTL

-----------------------------------------------------------------------------
(* The buffers of D-Bus arrays                                              *)

(* The inductive invariant: BufferFits and the types it needs.             *)
BufferTypes ==
    /\ elements \in Seq(Keys)
    /\ allocated \in Nat
    /\ highest \in Nat

BufferInv == BufferTypes /\ BufferFits

(* Integer division, as rounding down to a multiple.                       *)
LEMMA Division ==
    ASSUME NEW n \in Nat, NEW c \in Nat \ {0}
    PROVE  /\ n \div c \in Nat
           /\ (n \div c) * c <= n
           /\ n < (n \div c) * c + c
  BY SMT

(* NI_DBUS_ARRAY_ALLOCATION rounds up, by less than a chunk.               *)
LEMMA AllocationBounds ==
    ASSUME NEW n \in Nat
    PROVE  /\ ARRAY_ALLOCATION(n) \in Nat
           /\ n <= ARRAY_ALLOCATION(n)
           /\ ARRAY_ALLOCATION(n) < n + Chunk
  <1> DEFINE q == (n + Chunk - 1) \div Chunk
  <1>1. n + Chunk - 1 \in Nat
    BY ChunkAssumption
  <1>2. q \in Nat /\ q * Chunk <= n + Chunk - 1 /\ n + Chunk - 1 < q * Chunk + Chunk
    BY <1>1, Division, ChunkAssumption
  <1>3. q * Chunk \in Nat
    BY <1>2, ChunkAssumption
  <1> QED
    BY <1>2, <1>3, ChunkAssumption DEF ARRAY_ALLOCATION

(* Fewer elements never have more room.                                    *)
LEMMA AllocationMonotone ==
    ASSUME NEW m \in Nat, NEW n \in Nat, m <= n
    PROVE  ARRAY_ALLOCATION(m) <= ARRAY_ALLOCATION(n)
  <1> DEFINE p == (m + Chunk - 1) \div Chunk
             q == (n + Chunk - 1) \div Chunk
  <1>1. p \in Nat /\ p * Chunk <= m + Chunk - 1
    BY Division, ChunkAssumption
  <1>2. q \in Nat /\ n + Chunk - 1 < q * Chunk + Chunk
    BY Division, ChunkAssumption
  <1> HIDE DEF p, q
  <1>3. p * Chunk < (q + 1) * Chunk
    BY <1>1, <1>2, ChunkAssumption
  <1>4. p <= q
    BY <1>1, <1>2, <1>3, ChunkAssumption
  <1>5. p * Chunk <= q * Chunk
    BY <1>1, <1>2, <1>4, ChunkAssumption
  <1> QED
    BY <1>5 DEF p, q, ARRAY_ALLOCATION

(* Rounding up what was rounded up changes nothing.                        *)
LEMMA AllocationStable ==
    ASSUME NEW n \in Nat
    PROVE  ARRAY_ALLOCATION(ARRAY_ALLOCATION(n)) = ARRAY_ALLOCATION(n)
  <1> DEFINE q == (n + Chunk - 1) \div Chunk
             a == q * Chunk
             r == (a + Chunk - 1) \div Chunk
  <1>1. q \in Nat
    BY Division, ChunkAssumption
  <1> HIDE DEF q
  <1>2. a \in Nat /\ a + Chunk - 1 \in Nat
    BY <1>1, ChunkAssumption
  <1> HIDE DEF a
  <1>3. r \in Nat /\ r * Chunk <= a + Chunk - 1 /\ a + Chunk - 1 < r * Chunk + Chunk
    BY <1>2, Division, ChunkAssumption
  <1> HIDE DEF r
  <1>4. r * Chunk < (q + 1) * Chunk /\ q * Chunk < (r + 1) * Chunk
    BY <1>1, <1>3, ChunkAssumption DEF a
  <1>5. r = q
    BY <1>1, <1>3, <1>4, ChunkAssumption
  <1> QED
    BY <1>5 DEF q, a, r, ARRAY_ALLOCATION

(* An empty array has no buffer.                                           *)
LEMMA AllocationOfNothing == ARRAY_ALLOCATION(0) = 0
  <1> DEFINE q == (Chunk - 1) \div Chunk
  <1>1. q \in Nat /\ q * Chunk <= Chunk - 1
    BY Division, ChunkAssumption
  <1> HIDE DEF q
  <1>2. q * Chunk < 1 * Chunk
    BY <1>1, ChunkAssumption
  <1>3. q = 0
    BY <1>1, <1>2, ChunkAssumption
  <1>4. 0 + Chunk - 1 = Chunk - 1
    BY ChunkAssumption
  <1> QED
    BY <1>3, <1>4, ChunkAssumption DEF q, ARRAY_ALLOCATION

(* __ni_dbus_array_grow makes room for the elements it is asked for, and   *)
(* the size worked out from the new length is there.                       *)
LEMMA GrowFits ==
    ASSUME NEW len \in Nat, NEW size \in Nat, NEW by \in Nat,
           ARRAY_ALLOCATION(len) <= size
    PROVE  /\ array_grow(len, size, by) \in Nat
           /\ len + by <= array_grow(len, size, by)
           /\ ARRAY_ALLOCATION(len + by) <= array_grow(len, size, by)
  <1>1. CASE len + by >= ARRAY_ALLOCATION(len)
    BY <1>1, AllocationBounds DEF array_grow
  <1>2. CASE len + by < ARRAY_ALLOCATION(len)
    <2>1. ARRAY_ALLOCATION(len) \in Nat
      BY AllocationBounds
    <2>2. ARRAY_ALLOCATION(len + by) <= ARRAY_ALLOCATION(ARRAY_ALLOCATION(len))
      BY <1>2, <2>1, AllocationMonotone
    <2>3. ARRAY_ALLOCATION(len + by) <= ARRAY_ALLOCATION(len)
      BY <2>2, AllocationStable
    <2>4. ARRAY_ALLOCATION(len + by) \in Nat
      BY AllocationBounds
    <2> QED
      BY <1>2, <2>1, <2>3, <2>4 DEF array_grow
  <1> QED
    BY <1>1, <1>2, AllocationBounds

(* Growing never takes room away: a new buffer is no smaller than what is  *)
(* worked out from the length, and holds the element that is written.      *)
LEMMA WrittenFits ==
    ASSUME BufferInv, Written(array_grow(Len(elements), allocated, 1), Len(elements))
    PROVE  /\ allocated' \in Nat
           /\ highest' \in Nat
           /\ highest' <= allocated'
           /\ ARRAY_ALLOCATION(Len(elements) + 1) <= allocated'
           /\ ARRAY_ALLOCATION(Len(elements)) <= allocated'
  <1> DEFINE len == Len(elements)
             size == array_grow(len, allocated, 1)
  <1>1. len \in Nat /\ allocated \in Nat /\ highest \in Nat /\ highest <= allocated
    BY DEF BufferInv, BufferTypes, BufferFits
  <1>2. ARRAY_ALLOCATION(len) <= allocated
    BY DEF BufferInv, BufferFits
  <1>3. size \in Nat /\ len + 1 <= size /\ ARRAY_ALLOCATION(len + 1) <= size
    BY <1>1, <1>2, GrowFits
  <1>4. len + 1 \in Nat /\ len <= len + 1
    BY <1>1
  <1>5. /\ ARRAY_ALLOCATION(len) <= ARRAY_ALLOCATION(len + 1)
        /\ ARRAY_ALLOCATION(len) \in Nat
        /\ ARRAY_ALLOCATION(len + 1) \in Nat
    <2> HIDE DEF len, size
    <2> QED BY <1>1, <1>4, AllocationMonotone, AllocationBounds
  <1>6. /\ allocated' = size
        /\ highest' = IF len + 1 > highest \/ size # allocated THEN len + 1 ELSE highest
    BY DEF Written
  <1> HIDE DEF len, size
  <1>7. highest' \in Nat /\ highest' <= size
    BY <1>1, <1>3, <1>6
  <1> QED
    BY <1>3, <1>5, <1>6, <1>7 DEF len

(* Nothing is written behind the end of an array's buffer, and the size    *)
(* that __ni_dbus_array_grow works out is there, for every chunk size.     *)
THEOREM BufferAlwaysFits == BufferSpec => []BufferFits
  <1>1. BufferInit => BufferInv
    BY AllocationOfNothing DEF BufferInit, BufferInv, BufferTypes, BufferFits
  <1>2. BufferInv /\ [BufferNext]_bufferVars => BufferInv'
    <2> SUFFICES ASSUME BufferInv, [BufferNext]_bufferVars
                 PROVE  BufferInv'
      OBVIOUS
    <2>0. Len(elements) \in Nat /\ elements \in Seq(Keys)
      BY DEF BufferInv, BufferTypes
    <2>1. ASSUME NEW key \in Keys, AppendElement(key)
          PROVE  BufferInv'
      <3>1. elements' \in Seq(Keys) /\ Len(elements') = Len(elements) + 1
        BY <2>0, <2>1 DEF AppendElement
      <3> QED
        BY <2>1, <3>1, WrittenFits DEF AppendElement, BufferInv, BufferTypes, BufferFits
    <2>2. ASSUME NEW key \in Keys, DeleteEntry(key)
          PROVE  BufferInv'
      <3>1. PICK i \in DOMAIN elements :
              elements' = SubSeq(elements, 1, i - 1) \o SubSeq(elements, i + 1, Len(elements))
        BY <2>2 DEF DeleteEntry
      <3>2. i \in 1..Len(elements)
        BY <2>0
      <3>3. elements' \in Seq(Keys) /\ Len(elements') = Len(elements) - 1
        <4> DEFINE before == SubSeq(elements, 1, i - 1)
                   behind == SubSeq(elements, i + 1, Len(elements))
        <4>1. before \in Seq(Keys) /\ Len(before) = i - 1
          BY <2>0, <3>2
        <4>2. behind \in Seq(Keys) /\ Len(behind) = Len(elements) - i
          BY <2>0, <3>2
        <4> HIDE DEF before, behind
        <4>3. before \o behind \in Seq(Keys) /\ Len(before \o behind) = Len(elements) - 1
          BY <2>0, <3>2, <4>1, <4>2
        <4> QED
          BY <3>1, <4>3 DEF before, behind
      <3> DEFINE len == Len(elements)
      <3>4. len \in Nat /\ len - 1 \in Nat /\ len - 1 <= len
        BY <2>0, <3>2
      <3> HIDE DEF len
      <3>5. /\ ARRAY_ALLOCATION(len - 1) <= ARRAY_ALLOCATION(len)
            /\ ARRAY_ALLOCATION(len) \in Nat
            /\ ARRAY_ALLOCATION(len - 1) \in Nat
        BY <3>4, AllocationMonotone, AllocationBounds
      <3>6. allocated' = allocated /\ highest' = highest
        BY <2>2 DEF DeleteEntry
      <3>7. ARRAY_ALLOCATION(Len(elements')) <= allocated
        BY <3>3, <3>5 DEF len, BufferInv, BufferTypes, BufferFits
      <3> QED
        BY <3>3, <3>5, <3>6, <3>7 DEF BufferInv, BufferTypes, BufferFits
    <2>3. CASE AppendRefused
      BY <2>3, WrittenFits DEF AppendRefused, BufferInv, BufferTypes, BufferFits
    <2>4. ASSUME NEW len \in 0..MaxLength, SetArray(len)
          PROVE  BufferInv'
      <3>1. len \in Nat /\ ARRAY_ALLOCATION(0) <= 0
        BY AllocationOfNothing, MaxLengthAssumption
      <3>2. elements' \in Seq(Keys) /\ Len(elements') = len
        BY <2>4, <3>1, KeysAssumption DEF SetArray
      <3>3. /\ array_grow(0, 0, len) \in Nat
            /\ len <= array_grow(0, 0, len)
            /\ ARRAY_ALLOCATION(len) <= array_grow(0, 0, len)
        BY <3>1, GrowFits
      <3> QED
        BY <2>4, <3>1, <3>2, <3>3 DEF SetArray, BufferInv, BufferTypes, BufferFits
    <2>5. CASE Destroyed
      BY <2>5, AllocationOfNothing DEF Destroyed, BufferInv, BufferTypes, BufferFits
    <2>6. CASE UNCHANGED bufferVars
      BY <2>6 DEF bufferVars, BufferInv, BufferTypes, BufferFits
    <2> QED
      BY <2>1, <2>2, <2>3, <2>4, <2>5, <2>6 DEF BufferNext
  <1>3. BufferInv => BufferFits
    BY DEF BufferInv
  <1> QED
    BY <1>1, <1>2, <1>3, PTL DEF BufferSpec
=============================================================================
