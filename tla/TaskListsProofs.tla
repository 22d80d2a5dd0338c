------------------------- MODULE TaskListsProofs -------------------------
(* What the operations of lib/list.c do to one list. *)
EXTENDS TaskLists, TLAPS

\* list_del keeps a list a list of tasks.
LEMMA UnlinkType ==
    ASSUME NEW S, NEW s \in Seq(S), NEW x
    PROVE  Unlink(s, x) \in Seq(S)
  <1>1. CASE x \notin Range(s)
    BY <1>1 DEF Unlink
  <1>2. CASE x \in Range(s)
    <2> DEFINE n == Len(s) - 1
    <2>1. Len(s) \in Nat \ {0}
      BY <1>2 DEF Range
    <2>2. Unlink(s, x) = [i \in 1..n |->
                            IF i < IndexOf(s, x) THEN s[i] ELSE s[i + 1]]
      BY <1>2 DEF Unlink
    <2>3. \A i \in 1..n : s[i] \in S /\ s[i + 1] \in S
      BY <2>1
    <2>4. n \in Nat
      BY <2>1
    <2> HIDE DEF n
    <2>5. Unlink(s, x) \in [1..n -> S]
      BY <2>2, <2>3
    <2> QED BY <2>4, <2>5
  <1> QED BY <1>1, <1>2

\* list_del removes the task and nothing else from a list without repetition.
LEMMA UnlinkOnce ==
    ASSUME NEW S, NEW s \in Seq(S), NEW x, IsInjective(s)
    PROVE  /\ Range(Unlink(s, x)) = Range(s) \ {x}
           /\ IsInjective(Unlink(s, x))
  <1>1. CASE x \notin Range(s)
    BY <1>1 DEF Unlink
  <1>2. CASE x \in Range(s)
    <2> DEFINE k == IndexOf(s, x)
               u == Unlink(s, x)
               n == Len(s) - 1
    <2>1. k \in 1..Len(s) /\ s[k] = x
      BY <1>2 DEF Range, IndexOf
    <2>2. u = [i \in 1..n |-> IF i < k THEN s[i] ELSE s[i + 1]]
      BY <1>2 DEF Unlink
    <2>3. Len(s) \in Nat /\ n \in Nat /\ DOMAIN s = 1..Len(s)
      BY <2>1
    <2>4. \A i, j \in 1..Len(s) : s[i] = s[j] => i = j
      BY <2>3 DEF IsInjective
    <2> HIDE DEF k, u
    <2>5. DOMAIN u = 1..n
      BY <2>2
    <2>6. \A i \in 1..n : u[i] = IF i < k THEN s[i] ELSE s[i + 1]
      BY <2>2
    <2>7. \A i \in 1..n : u[i] \in Range(s) \ {x}
      BY <2>1, <2>3, <2>4, <2>6 DEF Range
    <2>8. ASSUME NEW y \in Range(s) \ {x} PROVE y \in Range(u)
      <3>1. PICK j \in 1..Len(s) : s[j] = y
        BY <2>3 DEF Range
      <3>2. CASE j < k
        <4>1. j \in 1..n /\ u[j] = y
          BY <2>1, <2>3, <2>6, <3>1, <3>2
        <4> QED BY <2>5, <4>1 DEF Range
      <3>3. CASE j > k
        <4>1. j - 1 \in 1..n /\ u[j - 1] = y
          BY <2>1, <2>3, <2>6, <3>1, <3>3
        <4> QED BY <2>5, <4>1 DEF Range
      <3>4. j # k
        BY <2>1, <3>1
      <3> QED BY <2>1, <3>1, <3>2, <3>3, <3>4
    <2>9. Range(u) = Range(s) \ {x}
      BY <2>5, <2>7, <2>8 DEF Range
    <2>10. ASSUME NEW i \in 1..n, NEW j \in 1..n, u[i] = u[j]
           PROVE i = j
      BY <2>1, <2>3, <2>4, <2>6, <2>10
    <2>11. IsInjective(u)
      BY <2>5, <2>10 DEF IsInjective
    <2> QED BY <2>9, <2>11 DEF u
  <1> QED BY <1>1, <1>2

\* Rotating a run queue permutes it.
LEMMA RotateOnce ==
    ASSUME NEW S, NEW s \in Seq(S)
    PROVE  /\ Rotate(s) \in Seq(S)
           /\ Range(Rotate(s)) = Range(s)
           /\ IsInjective(s) => IsInjective(Rotate(s))
           /\ s # <<>> => Head(Rotate(s)) \in Range(s)
  <1>1. CASE s = <<>>
    BY <1>1 DEF Rotate
  <1>2. CASE s # <<>>
    <2> DEFINE r == Rotate(s)
               n == Len(s)
    <2>1. n \in Nat \ {0} /\ DOMAIN s = 1..n
      BY <1>2
    <2>2. r = Append(Tail(s), Head(s))
      BY <1>2 DEF Rotate
    <2>3. r \in Seq(S) /\ Len(r) = n
      BY <1>2, <2>1, <2>2
    <2>4. \A i \in 1..n : r[i] = IF i = n THEN s[1] ELSE s[i + 1]
      <3>1. /\ Tail(s) \in Seq(S) /\ Len(Tail(s)) = n - 1 /\ Head(s) = s[1]
            /\ \A i \in 1..(n - 1) : Tail(s)[i] = s[i + 1]
        BY <1>2, <2>1
      <3>2. \A i \in 1..(n - 1) : r[i] = Tail(s)[i]
        BY <2>1, <2>2, <3>1
      <3>3. r[n] = Head(s)
        BY <2>1, <2>2, <3>1
      <3> HIDE DEF r, n
      <3>4. \A i \in 1..n : i = n \/ i \in 1..(n - 1)
        BY <2>1
      <3>5. \A i \in 1..(n - 1) : i # n
        BY <2>1
      <3> QED BY <3>1, <3>2, <3>3, <3>4, <3>5
    <2>5. DOMAIN r = 1..n
      BY <2>3
    <2> HIDE DEF r, n
    <2>6. Range(r) = Range(s)
      <3>1. \A i \in 1..n : r[i] \in Range(s)
        BY <2>1, <2>4 DEF Range
      <3>2. ASSUME NEW j \in 1..n PROVE s[j] \in Range(r)
        <4>1. CASE j = 1
          BY <2>1, <2>4, <2>5, <4>1 DEF Range
        <4>2. CASE j # 1
          <5>1. j - 1 \in 1..n /\ r[j - 1] = s[j]
            BY <2>1, <2>4, <4>2
          <5> QED BY <2>5, <5>1 DEF Range
        <4> QED BY <4>1, <4>2
      <3> QED BY <2>1, <2>5, <3>1, <3>2 DEF Range
    <2>7. ASSUME IsInjective(s) PROVE IsInjective(r)
      <3>1. \A i, j \in 1..n : s[i] = s[j] => i = j
        BY <2>1, <2>7 DEF IsInjective
      <3>2. ASSUME NEW i \in 1..n, NEW j \in 1..n, r[i] = r[j]
            PROVE i = j
        BY <2>1, <2>4, <3>1, <3>2
      <3> QED BY <2>5, <3>2 DEF IsInjective
    <2>8. Head(r) \in Range(s)
      <3>1. r # <<>> /\ Head(r) = r[1]
        BY <2>1, <2>3
      <3>2. r[1] \in Range(r)
        BY <2>1, <2>5 DEF Range
      <3> QED BY <2>6, <3>1, <3>2
    <2> QED BY <2>3, <2>6, <2>7, <2>8 DEF r
  <1> QED BY <1>1, <1>2

\* list_add adds the task at the tail.
LEMMA AppendOnce ==
    ASSUME NEW S, NEW s \in Seq(S), NEW x \in S
    PROVE  /\ Append(s, x) \in Seq(S)
           /\ Range(Append(s, x)) = Range(s) \cup {x}
           /\ IsInjective(s) /\ x \notin Range(s) => IsInjective(Append(s, x))
  <1> DEFINE a == Append(s, x)
             n == Len(s)
  <1>1. /\ a \in Seq(S) /\ n \in Nat /\ DOMAIN s = 1..n
        /\ DOMAIN a = 1..(n + 1)
        /\ \A i \in 1..n : a[i] = s[i]
        /\ a[n + 1] = x
    OBVIOUS
  <1> HIDE DEF a, n
  <1>2. \A i \in 1..(n + 1) : i \in 1..n \/ i = n + 1
    BY <1>1
  <1>3. 1..n \subseteq 1..(n + 1) /\ n + 1 \in 1..(n + 1) /\ n + 1 \notin 1..n
    BY <1>1
  <1>4. Range(a) = Range(s) \cup {x}
    BY <1>1, <1>2, <1>3 DEF Range
  <1>5. ASSUME IsInjective(s), x \notin Range(s) PROVE IsInjective(a)
    BY <1>1, <1>2, <1>3, <1>5 DEF IsInjective, Range
  <1> QED BY <1>1, <1>4, <1>5 DEF a

\* The first entry of a list is on it, and deleting it leaves the tail.
LEMMA UnlinkHead ==
    ASSUME NEW S, NEW s \in Seq(S), s # <<>>
    PROVE  /\ Head(s) \in Range(s) /\ Head(s) \in S
           /\ IsInjective(s) => Unlink(s, Head(s)) = Tail(s)
  <1>1. Len(s) \in Nat \ {0} /\ DOMAIN s = 1..Len(s) /\ Head(s) = s[1]
    OBVIOUS
  <1>2. Head(s) \in Range(s) /\ Head(s) \in S
    BY <1>1 DEF Range
  <1>3. ASSUME IsInjective(s) PROVE Unlink(s, Head(s)) = Tail(s)
    <2>1. IndexOf(s, Head(s)) = 1
      BY <1>1, <1>3 DEF IndexOf, IsInjective
    <2>2. Unlink(s, Head(s)) = [i \in 1..(Len(s) - 1) |-> s[i + 1]]
      <3>1. \A i \in 1..(Len(s) - 1) : ~ (i < 1)
        BY <1>1
      <3> QED BY <1>2, <2>1, <3>1 DEF Unlink
    <2> QED BY <1>1, <2>2
  <1> QED BY <1>2, <1>3

\* In a list without repetition an entry's index is where it is.
LEMMA IndexOfAt ==
    ASSUME NEW S, NEW s \in Seq(S), IsInjective(s), NEW i \in 1..Len(s)
    PROVE  IndexOf(s, s[i]) = i /\ s[i] \in Range(s)
  <1>1. DOMAIN s = 1..Len(s) /\ \A j \in 1..Len(s) : s[j] = s[i] => j = i
    BY DEF IsInjective
  <1>2. IndexOf(s, s[i]) \in 1..Len(s) /\ s[IndexOf(s, s[i])] = s[i]
    BY DEF IndexOf
  <1> QED BY <1>1, <1>2 DEF Range

\* The entries of a list are at its indices.
LEMMA RangeAt ==
    ASSUME NEW S, NEW s \in Seq(S)
    PROVE  /\ Range(s) = {s[i] : i \in 1..Len(s)}
           /\ \A x \in Range(s) : x \in S /\ \E i \in 1..Len(s) : s[i] = x
           /\ s = <<>> <=> Range(s) = {}
           /\ s = <<>> <=> Len(s) = 0
  <1>1. DOMAIN s = 1..Len(s) /\ Len(s) \in Nat
    OBVIOUS
  <1>2. s = <<>> <=> Len(s) = 0
    OBVIOUS
  <1>3. Range(s) = {s[i] : i \in 1..Len(s)}
    BY <1>1 DEF Range
  <1>4. Range(s) = {} <=> Len(s) = 0
    <2>1. CASE Len(s) = 0
      <3>1. 1..Len(s) = {}
        BY <2>1
      <3> QED BY <1>3, <2>1, <3>1
    <2>2. CASE Len(s) # 0
      <3>1. 1 \in 1..Len(s)
        BY <1>1, <2>2
      <3> QED BY <1>3, <2>2, <3>1
    <2> QED BY <2>1, <2>2
  <1> QED BY <1>2, <1>3, <1>4

\* list_del shortens the list that holds the node.
LEMMA UnlinkLen ==
    ASSUME NEW S, NEW s \in Seq(S), NEW x \in Range(s)
    PROVE  Len(Unlink(s, x)) = Len(s) - 1 /\ Len(s) \in Nat \ {0}
  <1>1. Len(s) \in Nat \ {0}
    BY RangeAt
  <1>2. Unlink(s, x) = [i \in 1..(Len(s) - 1) |->
                           IF i < IndexOf(s, x) THEN s[i] ELSE s[i + 1]]
    BY DEF Unlink
  <1>3. Len(s) - 1 \in Nat /\ DOMAIN Unlink(s, x) = 1..(Len(s) - 1)
    BY <1>1, <1>2
  <1> QED BY <1>1, <1>3, UnlinkType

\* node->next of the head and of a linked node.
LEMMA NodeAfterAt ==
    ASSUME NEW S, NEW s \in Seq(S), IsInjective(s), NEW h, h \notin S
    PROVE  /\ NodeAfter(h, s, h) = IF s = <<>> THEN h ELSE s[1]
           /\ \A i \in 1..Len(s) :
                NodeAfter(h, s, s[i]) = IF i = Len(s) THEN h ELSE s[i + 1]
  <1>1. NodeAfter(h, s, h) = IF s = <<>> THEN h ELSE s[1]
    BY DEF NodeAfter
  <1>2. ASSUME NEW i \in 1..Len(s)
        PROVE  NodeAfter(h, s, s[i]) = IF i = Len(s) THEN h ELSE s[i + 1]
    <2>1. s[i] # h /\ s[i] \in Range(s) /\ IndexOf(s, s[i]) = i
      BY IndexOfAt
    <2> QED BY <2>1 DEF NodeAfter
  <1> QED BY <1>1, <1>2

\* node->next is a node of the ring.
LEMMA NodeAfterType ==
    ASSUME NEW S, NEW s \in Seq(S), NEW h, NEW x \in S \cup {h}
    PROVE  NodeAfter(h, s, x) \in S \cup {h}
  <1>1. CASE x = h
    BY <1>1 DEF NodeAfter
  <1>2. CASE x # h /\ x \notin Range(s)
    BY <1>2 DEF NodeAfter
  <1>3. CASE x # h /\ x \in Range(s)
    <2>1. IndexOf(s, x) \in 1..Len(s)
      BY <1>3, RangeAt DEF IndexOf
    <2>2. IndexOf(s, x) # Len(s) => s[IndexOf(s, x) + 1] \in S
      BY <2>1
    <2> QED BY <1>3, <2>2 DEF NodeAfter
  <1> QED BY <1>1, <1>2, <1>3
=============================================================================
