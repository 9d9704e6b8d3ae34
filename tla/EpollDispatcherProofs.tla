------------------------ MODULE EpollDispatcherProofs ------------------------
(* epoll_wait's ready list never loses or repeats a descriptor, for any      *)
(* number of descriptors and any batch size, and the dispatcher built on it  *)
(* implements the abstract Dispatcher.                                       *)
EXTENDS EpollDispatcher, SequenceTheorems, FiniteSetTheorems, TLAPS

ListTypes ==
  /\ ready \in [Fds -> Conditions]
  /\ interestList \in [Registered -> {Events(FALSE), Events(TRUE)}]
  /\ readyList \in Seq(Fds)

EpollInv == ListTypes /\ ListsAreSound

-----------------------------------------------------------------------------
(* Keep: the kept positions are numbered from 1 without a gap.               *)

LEMMA KeepKeeps ==
  ASSUME NEW T, NEW q \in Seq(T), NEW S
  PROVE  /\ Keep(q, S) \in Seq(T)
         /\ Range(Keep(q, S)) = Range(q) \cap S
         /\ IsInjective(q) => IsInjective(Keep(q, S))
<1> DEFINE kept == {i \in DOMAIN q : q[i] \in S}
           upto(i) == {j \in kept : j <= i}
           place(i) == Cardinality(upto(i))
           N == Cardinality(kept)
           at(n) == CHOOSE i \in kept : place(i) = n
           P == [i \in kept |-> place(i)]
<1>1. DOMAIN q = 1..Len(q) /\ Len(q) \in Nat
  BY LenProperties
<1>2. kept \subseteq Nat /\ IsFiniteSet(kept) /\ N \in Nat
  <2>1. IsFiniteSet(1..Len(q))
    BY <1>1, FS_Interval, 1 \in Int
  <2>2. kept \in SUBSET (1..Len(q))
    BY <1>1
  <2>3. IsFiniteSet(kept)
    <3> HIDE DEF kept
    <3> QED BY <2>1, <2>2, FS_Subset
  <2> QED BY <2>2, <2>3, FS_CardinalityType
<1> HIDE DEF kept
<1>3. ASSUME NEW i \in kept
      PROVE  IsFiniteSet(upto(i)) /\ place(i) \in 1..N
  <2>1. upto(i) \in SUBSET kept /\ i \in upto(i)
    BY <1>2
  <2> HIDE DEF upto
  <2>2. IsFiniteSet(upto(i)) /\ place(i) <= N
    BY <1>2, <2>1, FS_Subset
  <2>3. place(i) \in Nat /\ place(i) # 0
    BY <2>1, <2>2, FS_CardinalityType, FS_EmptySet
  <2> QED BY <1>2, <2>2, <2>3
<1>4. ASSUME NEW i \in kept, NEW j \in kept, i < j
      PROVE  place(i) # place(j)
  <2>1. upto(i) \in SUBSET upto(j) /\ j \in upto(j) /\ j \notin upto(i)
    <3>1. i \in Nat /\ j \in Nat /\ ~(j <= i) /\ j <= j
      BY <1>2, <1>4
    <3>2. \A k \in kept : k <= i => k <= j
      BY <1>2, <1>4, <3>1
    <3> QED BY <3>1, <3>2
  <2>2. IsFiniteSet(upto(j))
    BY <1>3
  <2> HIDE DEF upto
  <2> QED BY <2>1, <2>2, FS_Subset
<1>5. \A i, j \in kept : place(i) = place(j) => i = j
  <2> SUFFICES ASSUME NEW i \in kept, NEW j \in kept, place(i) = place(j), i # j
               PROVE  FALSE
    OBVIOUS
  <2>1. i < j \/ j < i
    BY <1>2
  <2> HIDE DEF place
  <2> QED BY <1>4, <2>1
<1>6. \A n \in 1..N : \E i \in kept : place(i) = n
  <2>1. P \in Injection(kept, 1..N)
    <3> HIDE DEF place
    <3> QED BY <1>3, <1>5 DEF Injection, IsInjective
  <2>2. IsFiniteSet(1..N) /\ Cardinality(1..N) = N
    BY <1>2, FS_Interval, 1 \in Int
  <2>3. P \in Surjection(kept, 1..N)
    <3> HIDE DEF P
    <3> QED BY <2>1, <2>2, FS_Injection
  <2> HIDE DEF place
  <2> QED BY <2>3 DEF Surjection
<1>7. \A n \in 1..N : at(n) \in kept /\ place(at(n)) = n
  <2> HIDE DEF place
  <2> QED BY <1>6
<1>8. Keep(q, S) = [n \in 1..N |-> q[at(n)]]
  BY DEF Keep, kept
<1> HIDE DEF place, at
<1>9. \A i \in kept : at(place(i)) = i
  BY <1>3, <1>5, <1>7
<1>10. \A i \in kept : i \in DOMAIN q /\ q[i] \in T \cap S
  BY <1>1, ElementOfSeq DEF kept
<1> QED
  <2>1. Keep(q, S) \in Seq(T)
    <3>1. \A n \in 1..N : q[at(n)] \in T
      BY <1>7, <1>10
    <3> QED BY <1>2, <1>8, <3>1, IsASeq
  <2>2. DOMAIN Keep(q, S) = 1..N
    BY <1>8
  <2>3. Range(Keep(q, S)) \subseteq Range(q) \cap S
    BY <1>7, <1>8, <1>10, <2>2 DEF Range
  <2>4. ASSUME NEW x \in Range(q) \cap S PROVE x \in Range(Keep(q, S))
    <3>1. PICK i \in kept : q[i] = x
      BY DEF Range, kept
    <3> QED BY <1>3, <1>8, <1>9, <2>2, <3>1 DEF Range
  <2>5. ASSUME IsInjective(q) PROVE IsInjective(Keep(q, S))
    <3> SUFFICES ASSUME NEW a \in 1..N, NEW b \in 1..N, q[at(a)] = q[at(b)]
                 PROVE  a = b
      BY <1>8, <2>2 DEF IsInjective
    <3>1. at(a) = at(b)
      BY <1>7, <1>10, <2>5 DEF IsInjective
    <3> QED BY <1>7, <3>1
  <2> QED BY <2>1, <2>3, <2>4, <2>5

-----------------------------------------------------------------------------
(* The ready list.                                                           *)

(* Appending what is not in a sequence yet repeats nothing.                  *)
LEMMA AppendNew ==
  ASSUME NEW q \in Seq(Fds), IsInjective(q), NEW fd \in Fds \ Range(q)
  PROVE  /\ Append(q, fd) \in Seq(Fds)
         /\ Range(Append(q, fd)) = Range(q) \cup {fd}
         /\ IsInjective(Append(q, fd))
<1> DEFINE a == Append(q, fd)
           n == Len(q)
<1>1. /\ a \in Seq(Fds) /\ Len(a) = n + 1
      /\ \A i \in 1..n : a[i] = q[i]
      /\ a[n + 1] = fd
  BY AppendProperties
<1>2. n \in Nat /\ DOMAIN q = 1..n /\ DOMAIN a = 1..(n + 1)
  BY <1>1, LenProperties
<1>3. \A i \in 1..n : q[i] # fd
  BY <1>2 DEF Range
<1> HIDE DEF a
<1>4. Range(a) = Range(q) \cup {fd}
  <2>1. Range(a) \subseteq Range(q) \cup {fd}
    BY <1>1, <1>2 DEF Range
  <2>2. Range(q) \subseteq Range(a)
    BY <1>1, <1>2 DEF Range
  <2>3. fd \in Range(a)
    BY <1>1, <1>2 DEF Range
  <2> QED BY <2>1, <2>2, <2>3
<1>5. IsInjective(a)
  <2> SUFFICES ASSUME NEW i \in 1..(n + 1), NEW j \in 1..(n + 1), a[i] = a[j]
               PROVE  i = j
    BY <1>2 DEF IsInjective
  <2>1. CASE i = n + 1 /\ j # n + 1
    BY <1>1, <1>2, <1>3, <2>1
  <2>2. CASE i # n + 1 /\ j = n + 1
    BY <1>1, <1>2, <1>3, <2>2
  <2>3. CASE i # n + 1 /\ j # n + 1
    <3>1. i \in 1..n /\ j \in 1..n
      BY <1>2, <2>3
    <3> QED BY <1>1, <1>2, <3>1 DEF IsInjective
  <2> QED BY <2>1, <2>2, <2>3
<1> QED BY <1>1, <1>4, <1>5 DEF a

(* A call that concerns fd leaves every ready descriptor listed once, if the *)
(* others were.                                                              *)
LEMMA KernelKeepsLists ==
  ASSUME NEW fd \in Fds, NEW list, NEW conditions, NEW q \in Seq(Fds),
         Kernel(fd, list, conditions, q),
         DOMAIN list \subseteq Fds, Range(q) \subseteq DOMAIN list, IsInjective(q),
         \A f \in DOMAIN list \ {fd} : Revents(f, list, conditions) # {} => f \in Range(q)
  PROVE  readyList' \in Seq(Fds) /\ ListsAreSound'
<1>1. interestList' = list /\ ready' = conditions
  BY DEF Kernel
<1>2. CASE fd \in DOMAIN list \ Range(q) /\ Revents(fd, list, conditions) # {}
  <2>1. readyList' = Append(q, fd)
    BY <1>2 DEF Kernel
  <2>2. /\ readyList' \in Seq(Fds) /\ IsInjective(readyList')
        /\ Range(readyList') = Range(q) \cup {fd}
    BY <1>2, <2>1, AppendNew
  <2> QED BY <1>1, <1>2, <2>2 DEF ListsAreSound, Registered, IsReady
<1>3. CASE ~(fd \in DOMAIN list \ Range(q) /\ Revents(fd, list, conditions) # {})
  <2>1. readyList' = q
    BY <1>3 DEF Kernel
  <2> QED BY <1>1, <1>3, <2>1 DEF ListsAreSound, Registered, IsReady
<1> QED BY <1>2, <1>3

(* Two sequences that repeat and share nothing, one behind the other.        *)
LEMMA Behind ==
  ASSUME NEW T, NEW q \in Seq(T), NEW r \in Seq(T), IsInjective(q), IsInjective(r),
         Range(q) \cap Range(r) = {}
  PROVE  /\ q \o r \in Seq(T) /\ IsInjective(q \o r)
         /\ Range(q \o r) = Range(q) \cup Range(r)
<1>1. PICK m, n \in Nat : m = Len(q) /\ n = Len(r)
  BY LenProperties
<1>2. DOMAIN q = 1..m /\ DOMAIN r = 1..n
  BY <1>1, LenProperties
<1>3. PICK c : c = q \o r
  OBVIOUS
<1>4. /\ c \in Seq(T) /\ Len(c) = m + n
      /\ \A i \in 1..(m + n) : c[i] = IF i <= m THEN q[i] ELSE r[i - m]
  BY <1>1, <1>3, ConcatProperties, ZenonT(60)
<1>5. DOMAIN c = 1..(m + n)
  BY <1>4, LenProperties
<1>6. ASSUME NEW i \in DOMAIN c
      PROVE  \/ i \in DOMAIN q /\ c[i] = q[i] /\ c[i] \in Range(q)
             \/ i - m \in DOMAIN r /\ c[i] = r[i - m] /\ c[i] \in Range(r)
  <2>1. CASE i <= m
    <3>1. i \in 1..m /\ c[i] = q[i]
      BY <1>4, <1>5, <2>1
    <3> QED BY <1>2, <3>1 DEF Range
  <2>2. CASE ~(i <= m)
    <3>1. i - m \in 1..n /\ c[i] = r[i - m]
      BY <1>4, <1>5, <2>2
    <3> QED BY <1>2, <3>1 DEF Range
  <2> QED BY <2>1, <2>2
<1>7. IsInjective(c)
  <2> SUFFICES ASSUME NEW i \in DOMAIN c, NEW j \in DOMAIN c, c[i] = c[j]
               PROVE  i = j
    BY DEF IsInjective
  <2>1. CASE i \in DOMAIN q /\ j \in DOMAIN q /\ q[i] = q[j]
    BY <2>1 DEF IsInjective
  <2>2. CASE i - m \in DOMAIN r /\ j - m \in DOMAIN r /\ r[i - m] = r[j - m]
    <3>1. i - m = j - m
      BY <2>2 DEF IsInjective
    <3> QED BY <1>5, <3>1
  <2> QED BY <1>6, <2>1, <2>2
<1>8. Range(c) = Range(q) \cup Range(r)
  <2>1. Range(c) \subseteq Range(q) \cup Range(r)
    <3> SUFFICES ASSUME NEW x \in Range(c) PROVE x \in Range(q) \cup Range(r)
      OBVIOUS
    <3>1. PICK i \in DOMAIN c : c[i] = x
      BY DEF Range
    <3> QED BY <1>6, <3>1
  <2>2. ASSUME NEW x \in Range(q) PROVE x \in Range(c)
    <3>1. PICK i \in 1..m : q[i] = x
      BY <1>2 DEF Range
    <3>2. i \in DOMAIN c /\ c[i] = x
      BY <1>4, <1>5, <3>1
    <3> QED BY <3>2 DEF Range
  <2>3. ASSUME NEW x \in Range(r) PROVE x \in Range(c)
    <3>1. PICK i \in 1..n : r[i] = x
      BY <1>2 DEF Range
    <3>2. m + i \in 1..(m + n) /\ ~(m + i <= m) /\ m + i - m = i
      OBVIOUS
    <3>3. m + i \in DOMAIN c /\ c[m + i] = x
      BY <1>4, <1>5, <3>1, <3>2
    <3> QED BY <3>3 DEF Range
  <2> QED BY <2>1, <2>2, <2>3
<1> QED BY <1>3, <1>4, <1>7, <1>8

(* The first n members of a sequence that repeats nothing, and the others.   *)
LEMMA Split ==
  ASSUME NEW T, NEW q \in Seq(T), IsInjective(q), NEW n \in 1..Len(q)
  PROVE  LET front == SubSeq(q, 1, n)
             back  == SubSeq(q, n + 1, Len(q))
         IN  /\ front \in Seq(T) /\ IsInjective(front)
             /\ back \in Seq(T) /\ IsInjective(back)
             /\ Range(front) \cap Range(back) = {}
             /\ Range(front) \cup Range(back) = Range(q)
             /\ Cardinality(Range(front)) = n
             /\ n = Len(q) => Range(back) = {}
<1>f. PICK front, back : front = SubSeq(q, 1, n) /\ back = SubSeq(q, n + 1, Len(q))
  OBVIOUS
<1>1. PICK L \in Nat : L = Len(q)
  BY LenProperties
<1>2. /\ n \in Nat /\ n <= L /\ 1 <= n
      /\ DOMAIN q = 1..L
      /\ \A i \in 1..L : q[i] \in T
  BY <1>1, LenProperties, ElementOfSeq
<1>3. /\ front \in Seq(T) /\ Len(front) = n
      /\ \A i \in 1..n : front[i] = q[i]
  <2>1. 1 \in Int /\ n \in Int /\ \A i \in 1..n : q[i] \in T
    BY <1>2
  <2>2. /\ front \in Seq(T) /\ Len(front) = (IF 1 <= n THEN n - 1 + 1 ELSE 0)
        /\ \A i \in 1..(n - 1 + 1) : front[i] = q[1 + i - 1]
    BY <1>f, <2>1, SubSeqProperties
  <2>3. n - 1 + 1 = n /\ \A i \in 1..n : 1 + i - 1 = i
    BY <1>2
  <2> QED BY <1>2, <2>2, <2>3
<1>4. /\ back \in Seq(T) /\ Len(back) = L - n
      /\ \A i \in 1..(L - n) : back[i] = q[n + i]
  <2>1. n + 1 \in Int /\ L \in Int /\ \A i \in (n + 1)..L : q[i] \in T
    BY <1>2
  <2>2. /\ back \in Seq(T)
        /\ Len(back) = (IF n + 1 <= L THEN L - (n + 1) + 1 ELSE 0)
        /\ \A i \in 1..(L - (n + 1) + 1) : back[i] = q[n + 1 + i - 1]
    BY <1>1, <1>f, <2>1, SubSeqProperties
  <2>3. L - (n + 1) + 1 = L - n /\ \A i \in 1..(L - n) : n + 1 + i - 1 = n + i
    BY <1>2
  <2>4. (IF n + 1 <= L THEN L - (n + 1) + 1 ELSE 0) = L - n
    BY <1>2
  <2> QED BY <2>2, <2>3, <2>4
<1>5. DOMAIN front = 1..n /\ DOMAIN back = 1..(L - n)
  BY <1>3, <1>4, LenProperties
<1>6. \A i, j \in 1..L : q[i] = q[j] => i = j
  BY <1>2 DEF IsInjective
<1>7. (\A i \in 1..n : i \in 1..L) /\ (\A i \in 1..(L - n) : n + i \in 1..L)
  BY <1>2
<1>8. IsInjective(front) /\ IsInjective(back)
  <2>1. ASSUME NEW i \in 1..n, NEW j \in 1..n, front[i] = front[j]
        PROVE  i = j
    <3>1. i \in 1..L /\ j \in 1..L /\ q[i] = q[j]
      BY <1>3, <1>7, <2>1
    <3> QED BY <1>6, <3>1
  <2>2. ASSUME NEW i \in 1..(L - n), NEW j \in 1..(L - n), back[i] = back[j]
        PROVE  i = j
    <3>1. n + i \in 1..L /\ n + j \in 1..L /\ q[n + i] = q[n + j]
      BY <1>4, <1>7, <2>2
    <3>2. n + i = n + j
      BY <1>6, <3>1
    <3> QED BY <1>2, <3>2
  <2> QED BY <1>5, <2>1, <2>2 DEF IsInjective
<1>9. Range(front) \cap Range(back) = {}
  <2>1. ASSUME NEW i \in 1..n, NEW j \in 1..(L - n), front[i] = back[j]
        PROVE  FALSE
    <3>1. i = n + j
      <4>1. i \in 1..L /\ n + j \in 1..L /\ q[i] = q[n + j]
        BY <1>3, <1>4, <1>7, <2>1
      <4> QED BY <1>6, <4>1
    <3> QED BY <1>2, <3>1
  <2>2. ASSUME NEW x \in Range(front), x \in Range(back)
        PROVE  FALSE
    <3>1. PICK i \in 1..n : front[i] = x
      BY <1>5 DEF Range
    <3>2. PICK j \in 1..(L - n) : back[j] = x
      BY <1>5, <2>2 DEF Range
    <3> QED BY <2>1, <3>1, <3>2
  <2> QED BY <2>2
<1>10. Range(front) \cup Range(back) = Range(q)
  <2>1. Range(front) \subseteq Range(q) /\ Range(back) \subseteq Range(q)
    BY <1>2, <1>3, <1>4, <1>5, <1>7 DEF Range
  <2>2. ASSUME NEW x \in Range(q) PROVE x \in Range(front) \cup Range(back)
    <3>1. PICK k \in 1..L : q[k] = x
      BY <1>2 DEF Range
    <3>2. CASE k <= n
      <4>1. k \in 1..n
        BY <1>2, <3>2
      <4> QED BY <1>3, <1>5, <3>1, <4>1 DEF Range
    <3>3. CASE ~(k <= n)
      <4>1. k - n \in 1..(L - n) /\ n + (k - n) = k
        BY <1>2, <3>3
      <4> QED BY <1>4, <1>5, <3>1, <4>1 DEF Range
    <3> QED BY <3>2, <3>3
  <2> QED BY <2>1, <2>2
<1>11. Cardinality(Range(front)) = n
  <2>1. front \in Bijection(1..n, Range(front))
    <3>1. front \in [1..n -> Range(front)]
      <4>1. front = [i \in DOMAIN front |-> front[i]]
        BY <1>3
      <4>2. \A i \in DOMAIN front : front[i] \in Range(front)
        BY DEF Range
      <4> QED BY <1>5, <4>1, <4>2
    <3> QED BY <1>5, <1>8, <3>1 DEF Bijection, Injection, Surjection, Range, IsInjective
  <2>2. IsFiniteSet(1..n) /\ Cardinality(1..n) = n
    BY <1>2, FS_Interval, 1 \in Int
  <2> QED BY <2>1, <2>2, FS_Bijection DEF ExistsBijection
<1>12. n = L => Range(back) = {}
  <2>1. n = L => 1..(L - n) = {}
    BY <1>2
  <2> QED BY <1>5, <2>1 DEF Range
<1> QED BY <1>1, <1>f, <1>3, <1>4, <1>8, <1>9, <1>10, <1>11, <1>12

(* q with its first n members, front, put behind the others is r.            *)
Rotated(q, n, front, r) ==
  /\ r \in Seq(Fds) /\ IsInjective(r) /\ Range(r) = Range(q)
  /\ Range(front) \subseteq Range(q)
  /\ n = Len(q) => Range(front) = Range(q)
  /\ Cardinality(Range(front)) = n /\ Range(front) # {}

(* No mask has EPOLLET, so taking the first n descriptors and putting them   *)
(* behind the others repeats and loses none, and n descriptors are taken.    *)
LEMMA RequeueRotates ==
  ASSUME EpollInv, NEW q \in Seq(Fds), IsInjective(q), Range(q) \subseteq Registered,
         NEW n \in 1..Len(q), NEW front, front = SubSeq(q, 1, n)
  PROVE  Rotated(q, n, front, Requeue(SubSeq(q, n + 1, Len(q)), front))
<1>1. PICK back : back = SubSeq(q, n + 1, Len(q))
  OBVIOUS
<1>2. PICK level : level = {fd \in Registered : "et" \notin interestList[fd]}
  OBVIOUS
<1>3. PICK again : again = Keep(front, level)
  OBVIOUS
<1>4. /\ front \in Seq(Fds) /\ IsInjective(front)
      /\ back \in Seq(Fds) /\ IsInjective(back)
      /\ Range(front) \cap Range(back) = {}
      /\ Range(front) \cup Range(back) = Range(q)
      /\ Cardinality(Range(front)) = n
      /\ n = Len(q) => Range(back) = {}
  BY <1>1, Split
<1>5. level = Registered
  <2>1. \A fd \in Registered : interestList[fd] \in {Events(FALSE), Events(TRUE)}
    BY DEF EpollInv, ListTypes
  <2>2. "et" \notin Events(FALSE) /\ "et" \notin Events(TRUE)
    BY DEF Events
  <2> QED BY <1>2, <2>1, <2>2
<1>6. again \in Seq(Fds) /\ IsInjective(again) /\ Range(again) = Range(front)
  <2>1. /\ Keep(front, level) \in Seq(Fds)
        /\ Range(Keep(front, level)) = Range(front) \cap level
        /\ IsInjective(front) => IsInjective(Keep(front, level))
    <3>1. front \in Seq(Fds)
      BY <1>4
    <3> QED BY <3>1, KeepKeeps
  <2> QED BY <1>3, <1>4, <1>5, <2>1
<1>7. PICK r : r = back \o again
  OBVIOUS
<1>8. r \in Seq(Fds) /\ IsInjective(r) /\ Range(r) = Range(q)
  <2>1. Range(back) \cap Range(again) = {}
    BY <1>4, <1>6
  <2>2. /\ back \o again \in Seq(Fds) /\ IsInjective(back \o again)
        /\ Range(back \o again) = Range(back) \cup Range(again)
    <3>1. /\ back \in Seq(Fds) /\ IsInjective(back)
          /\ again \in Seq(Fds) /\ IsInjective(again)
      BY <1>4, <1>6
    <3> QED BY <2>1, <3>1, Behind
  <2> QED BY <1>4, <1>6, <1>7, <2>2
<1>9. n # 0
  BY LenProperties
<1>10. Rotated(q, n, front, r)
  BY <1>4, <1>8, <1>9, FS_EmptySet DEF Rotated
<1> QED BY <1>1, <1>2, <1>3, <1>7, <1>10 DEF Requeue

(* What epoll_wait reports and what it leaves listed.                        *)
LEMMA WaitEffect ==
  ASSUME EpollInv, Wait
  PROVE  LET due == {fd \in Registered : IsReady(fd)}
         IN  /\ readyList' \in Seq(Fds) /\ IsInjective(readyList')
             /\ Range(readyList') = due
             /\ \E reported \in SUBSET due :
                  /\ reported # {}
                  /\ reported = due \/ Cardinality(reported) = MaxEvents
                  /\ batch' = {ReadyEvent(fd, Revents(fd, interestList, ready)) :
                                 fd \in reported}
             /\ UNCHANGED <<interestList, ready, call>>
<1> DEFINE due == {fd \in Registered : IsReady(fd)}
<1>1. PICK q : q = Keep(readyList, due)
  OBVIOUS
<1>2. PICK n : n = IF Len(q) < MaxEvents THEN Len(q) ELSE MaxEvents
  OBVIOUS
<1>3. PICK front : front = SubSeq(q, 1, n)
  OBVIOUS
<1>4. /\ n > 0
      /\ batch' = {ReadyEvent(fd, Revents(fd, interestList, ready)) : fd \in Range(front)}
      /\ readyList' = Requeue(SubSeq(q, n + 1, Len(q)), front)
      /\ UNCHANGED <<interestList, ready, call>>
  BY <1>1, <1>2, <1>3 DEF Wait
<1> HIDE DEF due
<1>5. q \in Seq(Fds) /\ IsInjective(q) /\ Range(q) = due
  <2>1. readyList \in Seq(Fds) /\ IsInjective(readyList) /\ due \subseteq Range(readyList)
    BY DEF EpollInv, ListTypes, ListsAreSound, due
  <2>2. /\ q \in Seq(Fds)
        /\ Range(q) = Range(readyList) \cap due
        /\ IsInjective(readyList) => IsInjective(q)
    BY <1>1, <2>1, KeepKeeps
  <2> QED BY <2>1, <2>2
<1>6. n \in 1..Len(q) /\ (n = Len(q) \/ n = MaxEvents)
  <2>1. Len(q) \in Nat /\ MaxEvents \in Nat \ {0}
    BY <1>5, LenProperties, DispatcherConstants DEF DispatcherConstants
  <2> QED BY <1>2, <1>4, <2>1
<1>7. /\ Range(front) \subseteq Range(q)
      /\ n = Len(q) => Range(front) = Range(q)
      /\ Cardinality(Range(front)) = n /\ Range(front) # {}
      /\ readyList' \in Seq(Fds) /\ IsInjective(readyList') /\ Range(readyList') = Range(q)
  <2>1. /\ q \in Seq(Fds) /\ IsInjective(q) /\ n \in 1..Len(q)
        /\ Range(q) \subseteq Registered
    BY <1>5, <1>6 DEF due
  <2>2. readyList' = Requeue(SubSeq(q, n + 1, Len(q)), front)
    BY <1>4
  <2>3. Rotated(q, n, front, readyList')
    BY <1>3, <2>1, <2>2, RequeueRotates
  <2> QED BY <2>3 DEF Rotated
<1>9. /\ Range(front) \in SUBSET due /\ Range(front) # {}
      /\ Range(front) = due \/ Cardinality(Range(front)) = MaxEvents
  BY <1>5, <1>6, <1>7
<1> QED BY <1>4, <1>5, <1>7, <1>9 DEF due

-----------------------------------------------------------------------------
(* The calls keep the invariant.                                             *)

LEMMA Types ==
  ASSUME EpollInv
  PROVE  /\ ready \in [Fds -> Conditions] /\ readyList \in Seq(Fds)
         /\ interestList \in [Registered -> {Events(FALSE), Events(TRUE)}]
         /\ Registered \subseteq Fds /\ DOMAIN interestList = Registered
         /\ Range(readyList) \subseteq Registered /\ IsInjective(readyList)
         /\ \A f \in Registered : Revents(f, interestList, ready) # {} => f \in Range(readyList)
BY DEF EpollInv, ListTypes, ListsAreSound, IsReady, Registered

(* list is the interest list with an event mask for fd.                      *)
Masked(list, fd, enabled) ==
  /\ DOMAIN list = Registered \cup {fd} /\ DOMAIN list \subseteq Fds
  /\ list \in [DOMAIN list -> {Events(FALSE), Events(TRUE)}]
  /\ list[fd] = Events(enabled)
  /\ \A f \in Registered \ {fd} : list[f] = interestList[f]

LEMMA WithEventsMasks ==
  ASSUME EpollInv, NEW fd \in Fds, NEW enabled \in BOOLEAN,
         NEW list, list = WithEvents(fd, enabled)
  PROVE  Masked(list, fd, enabled)
<1>1. Events(enabled) \in {Events(FALSE), Events(TRUE)}
  <2>1. enabled = TRUE \/ enabled = FALSE
    OBVIOUS
  <2> QED BY <2>1, Zenon
<1>2. list = [f \in Registered \cup {fd} |->
                IF f = fd THEN Events(enabled) ELSE interestList[f]]
  BY DEF WithEvents
<1> QED BY <1>1, <1>2, Types DEF Masked

(* The same for both calls that set a mask.                                  *)
LEMMA MaskKeepsInv ==
  ASSUME EpollInv, NEW fd \in Fds, NEW enabled \in BOOLEAN,
         Kernel(fd, WithEvents(fd, enabled), ready, readyList)
  PROVE  EpollInv'
<1>1. PICK list : list = WithEvents(fd, enabled)
  OBVIOUS
<1>2. /\ DOMAIN list = Registered \cup {fd} /\ DOMAIN list \subseteq Fds
      /\ list \in [DOMAIN list -> {Events(FALSE), Events(TRUE)}]
      /\ \A f \in Registered \ {fd} : list[f] = interestList[f]
  <2>1. Masked(list, fd, enabled)
    BY <1>1, WithEventsMasks
  <2> QED BY <2>1 DEF Masked
<1>3. Kernel(fd, list, ready, readyList)
  BY <1>1
<1>4. ASSUME NEW f \in DOMAIN list \ {fd}, Revents(f, list, ready) # {}
      PROVE  f \in Range(readyList)
  <2>1. f \in Registered \ {fd} /\ list[f] = interestList[f]
    BY <1>2
  <2>2. Revents(f, interestList, ready) # {}
    BY <1>4, <2>1 DEF Revents
  <2> QED BY <2>1, <2>2, Types
<1>5. readyList' \in Seq(Fds) /\ ListsAreSound'
  <2>1. readyList \in Seq(Fds) /\ IsInjective(readyList) /\ Range(readyList) \subseteq DOMAIN list
    BY <1>2, Types
  <2> QED BY <1>2, <1>3, <1>4, <2>1, KernelKeepsLists
<1>6. interestList' = list /\ ready' = ready
  BY <1>3 DEF Kernel
<1> QED BY <1>2, <1>5, <1>6, Types DEF EpollInv, ListTypes, Registered

LEMMA RemoveKeepsInv ==
  ASSUME EpollInv, NEW fd \in Fds, Remove(fd)
  PROVE  EpollInv'
<1>1. PICK list : list = Without(fd)
  OBVIOUS
<1>2. PICK q : q = Keep(readyList, Fds \ {fd})
  OBVIOUS
<1>3. Kernel(fd, list, ready, q)
  BY <1>1, <1>2 DEF Remove
<1>4. /\ DOMAIN list = Registered \ {fd}
      /\ list \in [DOMAIN list -> {Events(FALSE), Events(TRUE)}]
      /\ \A f \in DOMAIN list : list[f] = interestList[f]
  BY <1>1, Types DEF Without
<1>5. /\ q \in Seq(Fds) /\ IsInjective(q)
      /\ Range(q) = Range(readyList) \cap (Fds \ {fd})
  <2>1. /\ q \in Seq(Fds) /\ Range(q) = Range(readyList) \cap (Fds \ {fd})
        /\ IsInjective(readyList) => IsInjective(q)
    BY <1>2, Types, KeepKeeps
  <2> QED BY <2>1, Types
<1>6. DOMAIN list \subseteq Fds /\ Range(q) \subseteq DOMAIN list
  BY <1>4, <1>5, Types
<1>7. ASSUME NEW f \in DOMAIN list \ {fd}, Revents(f, list, ready) # {}
      PROVE  f \in Range(q)
  <2>1. f \in Registered /\ f \in Fds \ {fd} /\ Revents(f, interestList, ready) # {}
    BY <1>4, <1>7, Types DEF Revents
  <2> QED BY <1>5, <2>1, Types
<1>8. readyList' \in Seq(Fds) /\ ListsAreSound'
  BY <1>3, <1>5, <1>6, <1>7, KernelKeepsLists
<1>9. interestList' = list /\ ready' = ready
  BY <1>3 DEF Kernel
<1> QED BY <1>4, <1>8, <1>9, Types DEF EpollInv, ListTypes, Registered

LEMMA ChangeKeepsInv ==
  ASSUME EpollInv, NEW fd \in Fds, NEW c \in Conditions, SocketChanges(fd, c)
  PROVE  EpollInv'
<1>1. PICK conditions : conditions = [ready EXCEPT ![fd] = c]
  OBVIOUS
<1>2. Kernel(fd, interestList, conditions, readyList)
  BY <1>1 DEF SocketChanges
<1>3. conditions \in [Fds -> Conditions] /\ \A f \in Fds \ {fd} : conditions[f] = ready[f]
  BY <1>1, Types
<1>4. ASSUME NEW f \in DOMAIN interestList \ {fd}, Revents(f, interestList, conditions) # {}
      PROVE  f \in Range(readyList)
  <2>1. f \in Registered /\ f \in Fds \ {fd}
    BY Types
  <2>2. Revents(f, interestList, ready) # {}
    BY <1>3, <1>4, <2>1 DEF Revents
  <2> QED BY <2>1, <2>2, Types
<1>5. readyList' \in Seq(Fds) /\ ListsAreSound'
  <2>1. /\ readyList \in Seq(Fds) /\ IsInjective(readyList)
        /\ DOMAIN interestList \subseteq Fds /\ Range(readyList) \subseteq DOMAIN interestList
    BY Types
  <2> QED BY <1>2, <1>4, <2>1, KernelKeepsLists
<1>6. interestList' = interestList /\ ready' = conditions
  BY <1>2 DEF Kernel
<1> QED BY <1>3, <1>5, <1>6, Types DEF EpollInv, ListTypes, Registered

LEMMA EpollInvStep ==
  ASSUME EpollInv, [Next]_vars
  PROVE  EpollInv'
<1>1. ASSUME NEW fd \in Fds, Add(fd) PROVE EpollInv'
  BY <1>1, MaskKeepsInv DEF Add
<1>2. ASSUME NEW fd \in Fds, Remove(fd) PROVE EpollInv'
  BY <1>2, RemoveKeepsInv
<1>3. ASSUME NEW fd \in Fds, NEW enabled \in BOOLEAN, SetWriteInterest(fd, enabled) PROVE EpollInv'
  BY <1>3, MaskKeepsInv DEF SetWriteInterest
<1>4. ASSUME NEW fd \in Fds, NEW c \in Conditions, SocketChanges(fd, c) PROVE EpollInv'
  BY <1>4, ChangeKeepsInv
<1>5. ASSUME UNCHANGED <<interestList, readyList, ready>> PROVE EpollInv'
  BY <1>5 DEF EpollInv, ListTypes, ListsAreSound, Registered, IsReady
<1>6. CASE Wait
  <2>1. /\ readyList' \in Seq(Fds) /\ IsInjective(readyList')
        /\ Range(readyList') = {fd \in Registered : IsReady(fd)}
        /\ UNCHANGED <<interestList, ready>>
    BY <1>6, WaitEffect
  <2>2. /\ Registered' = Registered
        /\ \A fd : IsReady(fd)' <=> IsReady(fd)
    BY <2>1 DEF Registered, IsReady
  <2>3. ListsAreSound'
    BY <2>1, <2>2, Types DEF ListsAreSound
  <2> QED BY <2>1, <2>2, <2>3, Types DEF EpollInv, ListTypes
<1>7. ASSUME NEW fd \in Fds, Missing(fd) \/ ControlFails(fd)
      PROVE  UNCHANGED <<interestList, readyList, ready>>
  BY <1>7 DEF Missing, ControlFails
<1>8. CASE WaitInterrupted \/ UNCHANGED vars
  BY <1>5, <1>8 DEF WaitInterrupted, vars
<1> QED BY <1>1, <1>2, <1>3, <1>4, <1>5, <1>6, <1>7, <1>8 DEF Next

LEMMA InitLists ==
  ASSUME Init
  PROVE  EpollInv
<1>1. /\ interestList = [f \in {} |-> {}] /\ readyList = <<>> /\ ready = [f \in Fds |-> {}]
  BY DEF Init
<1>2. Registered = {} /\ Range(readyList) = {} /\ IsInjective(readyList)
  BY <1>1 DEF Registered, Range, IsInjective
<1>3. readyList \in Seq(Fds) /\ ready \in [Fds -> Conditions]
  BY <1>1, DispatcherConstants DEF DispatcherConstants
<1>4. interestList \in [Registered -> {Events(FALSE), Events(TRUE)}]
  BY <1>1, <1>2
<1> QED BY <1>2, <1>3, <1>4 DEF EpollInv, ListTypes, ListsAreSound

(* The kernel's lists stay right, after any sequence of calls: no ready      *)
(* descriptor of the server is forgotten and none it closed is reported.     *)
THEOREM ListsStaySound == Spec => []ListsAreSound
<1>1. Init => EpollInv
  BY InitLists
<1>2. EpollInv /\ [Next]_vars => EpollInv'
  BY EpollInvStep
<1>3. EpollInv => ListsAreSound
  BY DEF EpollInv
<1> QED BY <1>1, <1>2, <1>3, PTL DEF Spec

-----------------------------------------------------------------------------
(* The refinement.                                                           *)

(* The mask says whether write readiness is wanted.                          *)
LEMMA MaskTellsInterest ==
  ASSUME NEW enabled \in BOOLEAN
  PROVE  ("out" \in Events(enabled)) = enabled
BY DEF Events

(* epoll reports fd exactly when the loop has work for it.  EPOLLRDHUP adds  *)
(* nothing: a FIN makes the socket readable too.                             *)
LEMMA ReportIsWork ==
  ASSUME EpollInv, NEW fd \in Registered
  PROVE  /\ ReadyEvent(fd, Revents(fd, interestList, ready)) = D!WorkFor(fd)
         /\ D!NeedsWork(fd) <=> IsReady(fd)
<1>1. PICK mask, c : mask = interestList[fd] /\ c = ready[fd]
  OBVIOUS
<1>2. mask \in {Events(FALSE), Events(TRUE)} /\ fd \in Fds /\ c \in Conditions
  BY <1>1, Types
<1>3. /\ {"in", "rdhup"} \subseteq mask /\ mask \subseteq {"in", "rdhup", "out"}
      /\ c \subseteq {"in", "out", "rdhup", "hup"}
      /\ "rdhup" \in c => "in" \in c
  BY <1>2, DispatcherConstants DEF Events, DispatcherConstants
<1>4. PICK events : events = Revents(fd, interestList, ready)
  OBVIOUS
<1>5. events = c \cap (mask \cup {"hup"})
  BY <1>1, <1>4 DEF Revents
<1>6. (events \cap {"in", "rdhup", "hup"} # {}) = (c \cap {"in", "hup"} # {})
  BY <1>3, <1>5
<1>7. ("out" \in events) = ("out" \in c /\ "out" \in mask)
  BY <1>5
<1>8. (WriteInterest[fd]) = ("out" \in mask)
  BY <1>1 DEF WriteInterest
<1>9. D!WorkFor(fd) = [fd |-> fd, read |-> c \cap {"in", "hup"} # {},
                       write |-> "out" \in c /\ "out" \in mask]
  BY <1>1, <1>8 DEF D!WorkFor
<1>10. ReadyEvent(fd, events) = D!WorkFor(fd)
  BY <1>6, <1>7, <1>9 DEF ReadyEvent
<1>11. D!NeedsWork(fd) <=> events # {}
  <2>1. D!NeedsWork(fd) <=> c \cap {"in", "hup"} # {} \/ ("out" \in c /\ "out" \in mask)
    <3>1. PICK rd, wr : /\ rd = (c \cap {"in", "hup"} # {})
                        /\ wr = ("out" \in c /\ "out" \in mask)
      OBVIOUS
    <3>2. D!WorkFor(fd) = [fd |-> fd, read |-> rd, write |-> wr]
      BY <1>9, <3>1
    <3>3. D!WorkFor(fd).read = rd /\ D!WorkFor(fd).write = wr
      BY <3>2
    <3>4. D!NeedsWork(fd) <=> rd \/ wr
      BY <3>3, Zenon DEF D!NeedsWork
    <3> QED BY <3>1, <3>4, Zenon
  <2>2. events # {} <=> events \cap {"in", "rdhup", "hup"} # {} \/ "out" \in events
    BY <1>3, <1>5
  <2> QED BY <1>6, <1>7, <2>1, <2>2
<1> QED BY <1>4, <1>10, <1>11 DEF IsReady

(* Each call on the interest list is the call of the interface.              *)
LEMMA EpollStepImplements ==
  ASSUME EpollInv, [Next]_vars
  PROVE  [D!Next]_(D!vars)
<1>0. D!Registered = Registered
  BY DEF WriteInterest, D!Registered
<1>1. ASSUME NEW fd \in Fds, NEW enabled \in BOOLEAN, interestList' = WithEvents(fd, enabled)
      PROVE  WriteInterest' = [f \in Registered \cup {fd} |->
                                 IF f = fd THEN enabled ELSE WriteInterest[f]]
  <2>1. PICK list : list = WithEvents(fd, enabled)
    OBVIOUS
  <2>2. /\ DOMAIN list = Registered \cup {fd} /\ list[fd] = Events(enabled)
        /\ \A f \in Registered \ {fd} : list[f] = interestList[f]
    <3>1. Masked(list, fd, enabled)
      BY <2>1, WithEventsMasks
    <3> QED BY <3>1 DEF Masked
  <2>3. WriteInterest' = [f \in DOMAIN list |-> "out" \in list[f]]
    BY <1>1, <2>1 DEF WriteInterest, Registered
  <2>4. ASSUME NEW f \in Registered \cup {fd}
        PROVE  ("out" \in list[f]) = IF f = fd THEN enabled ELSE WriteInterest[f]
    BY <2>2, MaskTellsInterest DEF WriteInterest
  <2> QED BY <2>2, <2>3, <2>4
<1>2. ASSUME NEW fd \in Fds, Add(fd) PROVE D!Add(fd)
  <2>1. fd \notin Registered /\ interestList' = WithEvents(fd, FALSE)
        /\ call' = Call("add", fd, FALSE, TRUE) /\ UNCHANGED <<ready, batch>>
    BY <1>2 DEF Add, Kernel
  <2>2. WriteInterest' = [f \in Registered \cup {fd} |-> IF f = fd THEN FALSE ELSE WriteInterest[f]]
    BY <1>1, <2>1
  <2> QED BY <1>0, <2>1, <2>2 DEF D!Add, D!Call, Call
<1>3. ASSUME NEW fd \in Fds, Remove(fd) PROVE D!Remove(fd)
  <2>1. fd \in Registered /\ interestList' = Without(fd)
        /\ call' = Call("remove", fd, FALSE, TRUE) /\ UNCHANGED <<ready, batch>>
    BY <1>3 DEF Remove, Kernel
  <2>2. WriteInterest' = [f \in Registered \ {fd} |-> WriteInterest[f]]
    BY <2>1 DEF WriteInterest, Registered, Without
  <2> QED BY <1>0, <2>1, <2>2 DEF D!Remove, D!Call, Call
<1>4. ASSUME NEW fd \in Fds, NEW enabled \in BOOLEAN, SetWriteInterest(fd, enabled)
      PROVE  D!SetWriteInterest(fd, enabled)
  <2>1. fd \in Registered /\ interestList' = WithEvents(fd, enabled)
        /\ call' = Call("setWriteInterest", fd, enabled, TRUE) /\ UNCHANGED <<ready, batch>>
    BY <1>4 DEF SetWriteInterest, Kernel
  <2>2. Registered \cup {fd} = Registered
    BY <2>1
  <2>3. WriteInterest' = [WriteInterest EXCEPT ![fd] = enabled]
    <3>1. DOMAIN WriteInterest = Registered
      BY DEF WriteInterest
    <3>2. WriteInterest' = [f \in Registered |-> IF f = fd THEN enabled ELSE WriteInterest[f]]
      BY <1>1, <2>1, <2>2
    <3> QED BY <3>1, <3>2
  <2> QED BY <1>0, <2>1, <2>3 DEF D!SetWriteInterest, D!Call, Call
<1>5. ASSUME NEW fd \in Fds, Missing(fd)
      PROVE  D!Remove(fd) \/ \E enabled \in BOOLEAN : D!SetWriteInterestFails(fd, enabled)
  <2>1. fd \notin Registered /\ WriteInterest' = WriteInterest /\ UNCHANGED <<ready, batch>>
    BY <1>5 DEF Missing, WriteInterest, Registered
  <2>2. (fd \in D!Registered) = FALSE
    BY <1>0, <2>1
  <2>3. WriteInterest = [f \in Registered |-> WriteInterest[f]]
    BY DEF WriteInterest
  <2>4. CASE call' = Call("remove", fd, FALSE, FALSE)
    <3>1. WriteInterest' = [f \in Registered \ {fd} |-> WriteInterest[f]]
      BY <2>1, <2>3
    <3> QED BY <1>0, <2>1, <2>2, <2>4, <3>1 DEF D!Remove, D!Call, Call
  <2>5. ASSUME NEW enabled \in BOOLEAN, call' = Call("setWriteInterest", fd, enabled, FALSE)
        PROVE  D!SetWriteInterestFails(fd, enabled)
    BY <2>1, <2>5 DEF D!SetWriteInterestFails, D!Call, Call
  <2> QED BY <1>5, <2>4, <2>5 DEF Missing
<1>10. ASSUME NEW fd \in Fds, ControlFails(fd)
       PROVE  D!AddFails(fd) \/ \E enabled \in BOOLEAN : D!SetWriteInterestFails(fd, enabled)
  <2>1. WriteInterest' = WriteInterest /\ UNCHANGED <<ready, batch>>
    BY <1>10 DEF ControlFails, WriteInterest, Registered
  <2>2. CASE fd \notin Registered /\ call' = Call("add", fd, FALSE, FALSE)
    BY <1>0, <2>1, <2>2 DEF D!AddFails, D!Call, Call
  <2>3. ASSUME NEW enabled \in BOOLEAN, call' = Call("setWriteInterest", fd, enabled, FALSE)
        PROVE  D!SetWriteInterestFails(fd, enabled)
    BY <2>1, <2>3 DEF D!SetWriteInterestFails, D!Call, Call
  <2> QED BY <1>10, <2>2, <2>3 DEF ControlFails
<1>6. ASSUME NEW fd \in Fds, NEW c \in Conditions, SocketChanges(fd, c)
      PROVE  D!SocketChanges(fd, c)
  <2>1. interestList' = interestList /\ ready' = [ready EXCEPT ![fd] = c]
        /\ UNCHANGED <<batch, call>>
    BY <1>6 DEF SocketChanges, Kernel
  <2> QED BY <2>1 DEF D!SocketChanges, WriteInterest, Registered
<1>7. CASE Wait
  <2> DEFINE due == {fd \in Registered : IsReady(fd)}
  <2>1. /\ UNCHANGED <<interestList, ready, call>>
        /\ \E reported \in SUBSET due :
             /\ reported # {}
             /\ reported = due \/ Cardinality(reported) = MaxEvents
             /\ batch' = {ReadyEvent(fd, Revents(fd, interestList, ready)) : fd \in reported}
    BY <1>7, WaitEffect
  <2>2. due = {fd \in D!Registered : D!NeedsWork(fd)}
    BY <1>0, ReportIsWork
  <2> HIDE DEF due
  <2>3. PICK reported \in SUBSET due :
           /\ reported # {}
           /\ reported = due \/ Cardinality(reported) = MaxEvents
           /\ batch' = {ReadyEvent(fd, Revents(fd, interestList, ready)) : fd \in reported}
    BY <2>1
  <2>4. batch' = {D!WorkFor(fd) : fd \in reported}
    <3>1. \A fd \in reported :
            ReadyEvent(fd, Revents(fd, interestList, ready)) = D!WorkFor(fd)
      BY <1>0, <2>2, ReportIsWork
    <3> QED BY <2>3, <3>1
  <2>5. (\A fd \in D!Registered \ reported : ~D!NeedsWork(fd)) \/ Cardinality(reported) = MaxEvents
    BY <2>2, <2>3
  <2>6. WriteInterest' = WriteInterest
    BY <2>1 DEF WriteInterest, Registered
  <2>7. reported \in SUBSET {fd \in D!Registered : D!NeedsWork(fd)}
    BY <2>2
  <2>8. D!Wait
    <3>1. \/ \A fd \in D!Registered \ reported : ~D!NeedsWork(fd)
          \/ Cardinality(reported) = MaxEvents
      BY <2>5
    <3>2. UNCHANGED <<WriteInterest, ready, call>>
      BY <2>1, <2>6
    <3>3. \E S \in SUBSET {fd \in D!Registered : D!NeedsWork(fd)} :
            /\ S # {}
            /\ \/ \A fd \in D!Registered \ S : ~D!NeedsWork(fd)
               \/ Cardinality(S) = MaxEvents
            /\ batch' = {D!WorkFor(fd) : fd \in S}
            /\ UNCHANGED <<WriteInterest, ready, call>>
      BY <2>3, <2>4, <2>7, <3>1, <3>2, Zenon
    <3>4. \A S : D!Cardinality(S) = Cardinality(S)
      BY DEF D!Cardinality, Cardinality
    <3> QED BY <3>3, <3>4 DEF D!Wait
  <2> QED BY <2>8 DEF D!Next
<1>8. CASE WaitInterrupted
  BY <1>8 DEF WaitInterrupted, D!WaitInterrupted, D!Next, WriteInterest, Registered
<1>9. CASE UNCHANGED vars
  BY <1>9 DEF vars, D!vars, WriteInterest, Registered
<1> QED BY <1>2, <1>3, <1>4, <1>5, <1>6, <1>7, <1>8, <1>9, <1>10 DEF Next, D!Next

(* The epoll dispatcher implements the interface the chat server is written  *)
(* against, the one poll implements, for any number of descriptors.          *)
THEOREM EpollImplementsDispatcher == Spec => ImplementsDispatcher
<1>1. Init => D!Init
  BY DEF Init, D!Init, WriteInterest, Registered, Call, D!Call
<1>2. EpollInv /\ [Next]_vars => [D!Next]_(D!vars)
  BY EpollStepImplements
<1>3. Init => EpollInv
  BY InitLists
<1>4. EpollInv /\ [Next]_vars => EpollInv'
  BY EpollInvStep
<1> QED BY <1>1, <1>2, <1>3, <1>4, PTL DEF Spec, D!Spec, ImplementsDispatcher

=============================================================================
