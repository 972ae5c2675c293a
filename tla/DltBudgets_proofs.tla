--------------------------- MODULE DltBudgets_proofs ---------------------------
(***************************************************************************)
(* Two bounds, for every value of the constants, by a budget each.         *)
(*                                                                         *)
(* The retry loop is bounded: how often a poison message comes back to the *)
(* DLT.  Each message brings an entry of its own and one for every cycle;  *)
(* a forward hands on what is left of it, and a second forward is paid for *)
(* extra.                                                                  *)
(*                                                                         *)
(* Duplicates are paid for by faults: what may be forwarded a second time  *)
(* is there already, and a step that no fault is behind adds nothing to    *)
(* it; a forward that is a duplicate uses one up.                          *)
(***************************************************************************)
EXTENDS DltDrain_proofs, FiniteSetTheorems

------------------------------------------------------------------------------
(* The retry loop: counting. *)

\* A column of pairs has as many elements as the interval it is made of.
LEMMA Column ==
    ASSUME NEW x, NEW a \in Int, NEW b \in Int, a <= b + 1
    PROVE  IsFiniteSet({x} \X (a..b)) /\ Cardinality({x} \X (a..b)) = b + 1 - a
<1>1. IsFiniteSet(a..b) /\ Cardinality(a..b) = b + 1 - a
  BY FS_Interval
<1>2. IsFiniteSet({x}) /\ Cardinality({x}) = 1
  BY FS_Singleton
<1>3. ASSUME NEW S, NEW T, IsFiniteSet(S), IsFiniteSet(T), Cardinality(S) = 1
      PROVE  IsFiniteSet(S \X T) /\ Cardinality(S \X T) = Cardinality(T)
  <2>1. Cardinality(T) \in Nat
    BY <1>3, FS_CardinalityType
  <2>2. IsFiniteSet(S \X T) /\ Cardinality(S \X T) = 1 * Cardinality(T)
    BY <1>3, FS_Product
  <2> QED BY <2>1, <2>2
<1> QED
  BY <1>1, <1>2, <1>3

\* Of two finite sets without a common element the union has as many as both.
LEMMA Together2 ==
    ASSUME NEW S, NEW T, IsFiniteSet(S), IsFiniteSet(T), S \cap T = {}
    PROVE  /\ IsFiniteSet(S \cup T)
           /\ Cardinality(S \cup T) = Cardinality(S) + Cardinality(T)
           /\ Cardinality(S) \in Nat /\ Cardinality(T) \in Nat
BY FS_Union, FS_EmptySet, FS_CardinalityType

\* The budget of a message, and what a duplicate adds to it.
LEMMA Budget ==
    ASSUME NEW e \in Nat, NEW d \in Nat
    PROVE  /\ (e + 1) * (MaxCycles + 1) = e * (MaxCycles + 1) + MaxCycles + 1
           /\ (d + 1) * (MaxCycles - MinCount) = d * (MaxCycles - MinCount) + MaxCycles - MinCount
           /\ e * (MaxCycles + 1) \in Nat /\ d * (MaxCycles - MinCount) \in Nat
<1>1. PICK m \in Nat : m = MaxCycles - MinCount
  BY RouterAssumption, WorldAssumption
<1>2. (d + 1) * m = d * m + m /\ d * m \in Nat
  OBVIOUS
<1>3. MaxCycles \in Nat /\ MinCount \in Int
  BY RouterAssumption, WorldAssumption
<1>4. PICK n \in Nat : n = MaxCycles + 1
  BY <1>3
<1>5. (e + 1) * n = e * n + n /\ e * n \in Nat
  OBVIOUS
<1> QED BY <1>1, <1>2, <1>3, <1>4, <1>5

\* The counts that may be left.
LEMMA CycleBounds ==
    /\ MaxCycles \in Nat /\ MaxCycles \in Int /\ MinCount \in Int /\ MinCount <= 0
    /\ \A k : k \in Cycles <=> k \in Int /\ MinCount < k /\ k <= MaxCycles
BY RouterAssumption, WorldAssumption DEF Cycles

------------------------------------------------------------------------------
(* What a step adds and takes. *)

\* A record that is appended to the DLT is an entry, and leaves one for each of its
\* cycles.
LEMMA EntryAdded ==
    ASSUME TypeOK, LoopPaid, NEW p \in Partitions, NEW r \in Record,
           dlt' = [dlt EXCEPT ![p] = Append(@, r)], sent \subseteq sent',
           NEW c \in Int, c >= MinCount, c = ReadCycleCount(r.header)
    PROVE  /\ IsFiniteSet(Entries') /\ Cardinality(Entries') <= Cardinality(Entries) + 1
           /\ IsFiniteSet(LeftInDlt')
           /\ c <= MaxCycles => Cardinality(LeftInDlt') <= Cardinality(LeftInDlt) + MaxCycles - c
           /\ c >= MaxCycles => Cardinality(LeftInDlt') <= Cardinality(LeftInDlt)
<1> DEFINE x == <<p, Len(dlt[p]) + 1>>
<1>1. dlt \in [Partitions -> Seq(Record)] /\ MaxCycles \in Nat /\ MaxCycles \in Int
  BY CycleBounds DEF TypeOK, WorldTypeOK
<1>2. /\ Len(dlt'[p]) = Len(dlt[p]) + 1 /\ dlt'[p][Len(dlt[p]) + 1] = r
      /\ \A o \in 1..Len(dlt[p]) : dlt'[p][o] = dlt[p][o]
      /\ \A q \in Partitions : q # p => dlt'[q] = dlt[q]
      /\ Len(dlt[p]) \in Nat
  BY <1>1
<1>3. Entries' = Entries \cup {x}
  BY <1>2 DEF Entries
<1>4. LeftInDlt' \subseteq LeftInDlt \cup ({x} \X ((c + 1)..MaxCycles))
  <2> SUFFICES ASSUME NEW e \in LeftInDlt', e[1] # x
               PROVE  e \in LeftInDlt
    <3>1. ASSUME NEW e \in LeftInDlt', e[1] = x
          PROVE  e \in {x} \X ((c + 1)..MaxCycles)
      BY <1>1, <1>2, <3>1, CycleBounds DEF LeftInDlt, Entries
    <3> QED BY <3>1
  <2>1. PICK q \in Partitions : \E o \in 1..Len(dlt'[q]), k \in Cycles : e = <<<<q, o>>, k>>
    BY DEF LeftInDlt, Entries
  <2>2. PICK o \in 1..Len(dlt'[q]), k \in Cycles : e = <<<<q, o>>, k>> /\ <<q, o>> # x
    BY <2>1
  <2>3. dlt'[q][o] = dlt[q][o] /\ <<q, o>> \in Entries
    <3>1. <<q, o>> \in Entries' /\ <<q, o>> # x
      BY <2>2 DEF Entries
    <3>2. <<q, o>> \in Entries
      BY <1>3, <3>1
    <3>3. o \in 1..Len(dlt[q])
      BY <3>2 DEF Entries
    <3> QED BY <1>2, <3>2, <3>3
  <2>4. e[1] = <<q, o>> /\ e[2] = k /\ e[1][1] = q /\ e[1][2] = o
    BY <2>2
  <2>5. <<q, o>> \notin sent /\ ReadCycleCount(dlt[q][o].header) < k
    BY <2>3, <2>4 DEF LeftInDlt, ReadCycleCount
  <2> QED BY <2>2, <2>3, <2>4, <2>5 DEF LeftInDlt
<1>5. IsFiniteSet(Entries) /\ IsFiniteSet(LeftInDlt)
  BY DEF LoopPaid
<1> HIDE DEF x
<1>6. /\ IsFiniteSet(Entries \cup {x}) /\ Cardinality(Entries \cup {x}) <= Cardinality(Entries) + 1
  <2>1. /\ IsFiniteSet(Entries \cup {x})
        /\ Cardinality(Entries \cup {x})
             = IF x \in Entries THEN Cardinality(Entries) ELSE Cardinality(Entries) + 1
    BY <1>5, FS_AddElement
  <2>2. Cardinality(Entries) \in Nat
    BY <1>5, FS_CardinalityType
  <2> QED BY <2>1, <2>2
<1>7. CASE c <= MaxCycles
  <2> DEFINE col == {x} \X ((c + 1)..MaxCycles)
  <2>1. IsFiniteSet(col) /\ Cardinality(col) = MaxCycles - c
    <3>1. PICK a \in Int : a = c + 1
      OBVIOUS
    <3>2. a <= MaxCycles + 1 /\ MaxCycles + 1 - a = MaxCycles - c
      BY <1>1, <1>7, <3>1
    <3>3. IsFiniteSet({x} \X (a..MaxCycles)) /\ Cardinality({x} \X (a..MaxCycles)) = MaxCycles + 1 - a
      BY <1>1, <3>2, Column
    <3> QED BY <3>1, <3>2, <3>3
  <2> HIDE DEF col
  <2>2. /\ IsFiniteSet(LeftInDlt \cup col)
        /\ Cardinality(LeftInDlt \cup col)
              = Cardinality(LeftInDlt) + Cardinality(col) - Cardinality(LeftInDlt \cap col)
        /\ Cardinality(LeftInDlt \cap col) \in Nat /\ Cardinality(LeftInDlt) \in Nat
    BY <1>5, <2>1, FS_Union, FS_Intersection, FS_CardinalityType
  <2>3. IsFiniteSet(LeftInDlt') /\ Cardinality(LeftInDlt') <= Cardinality(LeftInDlt \cup col)
    BY <1>4, <2>2, FS_Subset DEF col
  <2>4. Cardinality(LeftInDlt') \in Nat
    BY <2>3, FS_CardinalityType
  <2>5. c = MaxCycles => MaxCycles - c = 0
    BY <1>1
  <2> QED BY <1>1, <1>3, <1>6, <2>1, <2>2, <2>3, <2>4, <2>5
<1>8. CASE c > MaxCycles
  <2>1. LeftInDlt' \subseteq LeftInDlt
    BY <1>1, <1>4, <1>8
  <2>2. IsFiniteSet(LeftInDlt') /\ Cardinality(LeftInDlt') <= Cardinality(LeftInDlt)
    BY <1>5, <2>1, FS_Subset
  <2> QED BY <1>1, <1>3, <1>6, <1>8, <2>2
<1> QED BY <1>1, <1>7, <1>8

\* The next retry record is consumed: what was left to it is free.
LEMMA RetryTaken ==
    ASSUME TypeOK, LoopInv, retry # << >>, retry' = Tail(retry)
    PROVE  /\ Head(retry) \in Cycles
           /\ IsFiniteSet(LeftInRetry')
           /\ Cardinality(LeftInRetry') + MaxCycles + 1 - Head(retry) = Cardinality(LeftInRetry)
<1> USE CycleBounds
<1> DEFINE h == Head(retry)
<1> DEFINE first == {1} \X (h..MaxCycles)
<1> DEFINE rest == {e \in LeftInRetry : e[1] # 1}
<1>1. /\ retry \in Seq(Header) /\ MaxCycles \in Int /\ Len(retry) \in Nat /\ Len(retry) >= 1
      /\ Len(retry') = Len(retry) - 1
      /\ \A i \in 1..Len(retry') : retry'[i] = retry[i + 1]
      /\ h = retry[1]
  BY RouterAssumption DEF TypeOK, WorldTypeOK
<1>2. h \in Cycles
  BY <1>1 DEF LoopInv, WithinCycles
<1> HIDE DEF h
<1>3. IsFiniteSet(first) /\ Cardinality(first) = MaxCycles + 1 - h
  <2>1. h \in Int /\ h <= MaxCycles + 1
    BY <1>1, <1>2
  <2> QED BY <1>1, <2>1, Column
<1>4. LeftInRetry = first \cup rest /\ first \cap rest = {}
  <2>1. \A e : e \in first <=> e \in LeftInRetry /\ e[1] = 1
    BY <1>1, <1>2 DEF LeftInRetry
  <2> QED BY <2>1
<1>5. IsFiniteSet(rest)
  BY FS_Subset DEF LoopInv, LoopPaid
<1>6. Cardinality(LeftInRetry) = Cardinality(first) + Cardinality(rest) /\ Cardinality(rest) \in Nat
  BY <1>3, <1>4, <1>5, Together2
<1>7. ExistsBijection(rest, LeftInRetry')
  <2> DEFINE f == [e \in rest |-> <<e[1] - 1, e[2]>>]
  <2>1. \A e \in rest : f[e] \in LeftInRetry'
    BY <1>1 DEF LeftInRetry
  <2>2. \A d, e \in rest : f[d] = f[e] => d = e
    BY <1>1 DEF LeftInRetry
  <2>3. \A d \in LeftInRetry' : \E e \in rest : f[e] = d
    <3> SUFFICES ASSUME NEW d \in LeftInRetry' PROVE \E e \in rest : f[e] = d
      OBVIOUS
    <3>1. d = <<d[1], d[2]>> /\ d[1] \in 1..Len(retry') /\ d[2] \in Cycles /\ retry'[d[1]] <= d[2]
      BY DEF LeftInRetry
    <3>2. <<d[1] + 1, d[2]>> \in rest
      BY <1>1, <3>1 DEF LeftInRetry
    <3>3. f[<<d[1] + 1, d[2]>>] = d
      BY <1>1, <3>1, <3>2
    <3> QED BY <3>2, <3>3
  <2> HIDE DEF f
  <2>4. f \in [rest -> LeftInRetry']
    BY <2>1 DEF f
  <2> QED BY <2>2, <2>3, <2>4 DEF ExistsBijection, Bijection, Injection, IsInjective, Surjection
<1>8. IsFiniteSet(LeftInRetry') /\ Cardinality(LeftInRetry') = Cardinality(rest)
  BY <1>5, <1>7, FS_Bijection
<1> QED BY <1>1, <1>2, <1>3, <1>6, <1>8 DEF h

\* A forward hands what is left of a record on to its retry record; of a record that was
\* forwarded before, it is a duplicate.
LEMMA ForwardPaid ==
    ASSUME TypeOK, Positions, LoopInv, NEW w \in Workers, wpc[w] = "send", Forward(w),
           UNCHANGED <<dlt, entered, belowZero>>
    PROVE  LoopPaid' /\ \A i \in 1..Len(retry') : retry'[i] \in Cycles
<1> USE CycleBounds
<1> DEFINE c == ReadCycleCount(InHand(w).header)
<1> DEFINE n == Len(retry)
<1> DEFINE added == {n + 1} \X ((c + 1)..MaxCycles)
<1> DEFINE left == {Place(w)} \X ((c + 1)..MaxCycles)
<1>1. /\ MaxCycles \in Int /\ n \in Nat /\ retry \in Seq(Header)
      /\ entered \in Nat /\ dups \in Nat /\ belowZero \in Nat
  BY RouterAssumption DEF TypeOK, WorldTypeOK, GhostTypeOK
<1>2. Busy(w)
  BY DEF Busy
<1>3. c \in Int /\ c >= MinCount /\ c < MaxCycles
  <2>1. InHand(w).header \in Header
    BY <1>2, RecordInHand
  <2>2. c \in Int /\ c >= MinCount
    BY <2>1, CycleCount
  <2>3. ~(c >= MaxCycles)
    BY DEF LoopInv, WithinCycles, Exhausted
  <2> QED BY <1>1, <2>2, <2>3
<1>4. /\ retry' = Append(retry, c + 1)
      /\ sent' = sent \cup {Place(w)}
      /\ dups' = IF Place(w) \in sent THEN dups + 1 ELSE dups
  BY DEF Forward
<1>5. /\ Place(w) = <<cur[w], nxt[w][cur[w]] + 1>> /\ Place(w) \in Entries
      /\ c = ReadCycleCount(dlt[cur[w]][nxt[w][cur[w]] + 1].header)
  BY <1>2, RecordInHand DEF Place, InHand, Entries
<1> HIDE DEF c, n
<1>6. /\ Len(retry') = n + 1 /\ retry'[n + 1] = c + 1
      /\ \A i \in 1..n : retry'[i] = retry[i]
  BY <1>1, <1>4 DEF n
<1>7. \A i \in 1..Len(retry') : retry'[i] \in Cycles
  BY <1>1, <1>3, <1>6 DEF LoopInv, WithinCycles, n
<1>8. ASSUME NEW x
      PROVE  /\ IsFiniteSet({x} \X ((c + 1)..MaxCycles))
             /\ Cardinality({x} \X ((c + 1)..MaxCycles)) = MaxCycles - c
  <2>1. PICK a \in Int : a = c + 1
    BY <1>3
  <2>2. a <= MaxCycles + 1 /\ MaxCycles + 1 - a = MaxCycles - c
    BY <1>1, <1>3, <2>1
  <2>3. /\ IsFiniteSet({x} \X (a..MaxCycles))
        /\ Cardinality({x} \X (a..MaxCycles)) = MaxCycles + 1 - a
    BY <1>1, <2>2, Column
  <2> QED BY <2>1, <2>2, <2>3
<1>9. /\ IsFiniteSet(LeftInRetry')
      /\ Cardinality(LeftInRetry') = Cardinality(LeftInRetry) + MaxCycles - c
      /\ Cardinality(LeftInRetry) \in Nat
  <2>1. LeftInRetry' = LeftInRetry \cup added
    <3>1. ASSUME NEW i \in 1..(n + 1), NEW k \in Cycles
          PROVE  retry'[i] <= k <=> (i \in 1..n /\ retry[i] <= k) \/ (i = n + 1 /\ c + 1 <= k)
      BY <1>1, <1>6
    <3>2. \A e : e \in LeftInRetry' <=>
             \E i \in 1..(n + 1), k \in Cycles : e = <<i, k>> /\ retry'[i] <= k
      BY <1>6 DEF LeftInRetry
    <3>3. \A e : e \in LeftInRetry <=>
             \E i \in 1..n, k \in Cycles : e = <<i, k>> /\ retry[i] <= k
      BY DEF LeftInRetry, n
    <3>4. \A e : e \in added <=>
             \E i \in 1..(n + 1), k \in Cycles : e = <<i, k>> /\ i = n + 1 /\ c + 1 <= k
      BY <1>1, <1>3
    <3> HIDE DEF added
    <3>5. 1..n \subseteq 1..(n + 1)
      BY <1>1
    <3> QED BY <3>1, <3>2, <3>3, <3>4, <3>5
  <2>2. LeftInRetry \cap added = {}
    BY <1>1 DEF LeftInRetry, n
  <2>3. IsFiniteSet(added) /\ Cardinality(added) = MaxCycles - c
    BY <1>8
  <2> HIDE DEF added
  <2> QED BY <1>1, <1>3, <2>1, <2>2, <2>3, Together2 DEF LoopInv, LoopPaid
<1>10. UNCHANGED Entries
  BY DEF Entries
<1>11. CASE Place(w) \in sent
  <2>1. UNCHANGED LeftInDlt
    BY <1>4, <1>10, <1>11 DEF LeftInDlt, ReadCycleCount
  <2>2. dups' = dups + 1
    BY <1>4, <1>11
  <2>3. Cardinality(LeftInDlt) \in Nat /\ Cardinality(Entries) \in Nat
    BY FS_CardinalityType DEF LoopInv, LoopPaid
  <2>4. dups' * (MaxCycles - MinCount) = dups * (MaxCycles - MinCount) + MaxCycles - MinCount
        /\ dups * (MaxCycles - MinCount) \in Nat
        /\ entered * (MaxCycles + 1) \in Nat
    BY <1>1, <2>2, Budget
  <2> QED BY <1>1, <1>3, <1>7, <1>9, <1>10, <2>1, <2>3, <2>4 DEF LoopInv, LoopPaid, Allowance
<1>12. CASE Place(w) \notin sent
  <2>1. LeftInDlt = LeftInDlt' \cup left /\ LeftInDlt' \cap left = {}
    <3>1. ASSUME NEW e \in Entries \X Cycles
          PROVE  /\ e \in LeftInDlt' <=> e \in LeftInDlt /\ e[1] # Place(w)
                 /\ e \in left <=> e \in LeftInDlt /\ e[1] = Place(w)
      <4>1. e = <<e[1], e[2]>> /\ e[1] \in Entries /\ e[2] \in Cycles
        OBVIOUS
      <4>2. e \in left <=> e[1] = Place(w) /\ e[2] > c
        BY <1>1, <1>3, <4>1
      <4>3. e \in LeftInDlt <=>
               e[1] \notin sent /\ ReadCycleCount(dlt[e[1][1]][e[1][2]].header) < e[2]
        BY DEF LeftInDlt
      <4>4. e \in LeftInDlt' <=>
               e[1] \notin sent' /\ ReadCycleCount(dlt[e[1][1]][e[1][2]].header) < e[2]
        BY <1>10 DEF LeftInDlt, ReadCycleCount
      <4>5. e[1] = Place(w) => (ReadCycleCount(dlt[e[1][1]][e[1][2]].header) < e[2] <=> e[2] > c)
        BY <1>3, <1>5, <4>1
      <4> HIDE DEF left
      <4> QED BY <1>4, <1>12, <4>2, <4>3, <4>4, <4>5
    <3>2. LeftInDlt \subseteq Entries \X Cycles /\ LeftInDlt' \subseteq Entries \X Cycles
      BY <1>10 DEF LeftInDlt
    <3>3. left \subseteq Entries \X Cycles
      <4>1. ((c + 1)..MaxCycles) \subseteq Cycles
        BY <1>1, <1>3
      <4>2. {Place(w)} \subseteq Entries
        BY <1>5
      <4> QED BY <4>1, <4>2
    <3> HIDE DEF left
    <3> QED BY <3>1, <3>2, <3>3
  <2>2. IsFiniteSet(left) /\ Cardinality(left) = MaxCycles - c
    BY <1>8
  <2> HIDE DEF left
  <2>3. IsFiniteSet(LeftInDlt')
    BY <2>1, FS_Subset DEF LoopInv, LoopPaid
  <2>4. /\ Cardinality(LeftInDlt) = Cardinality(LeftInDlt') + MaxCycles - c
        /\ Cardinality(LeftInDlt') \in Nat
    BY <1>1, <1>3, <2>1, <2>2, <2>3, Together2
  <2>5. dups' = dups /\ Cardinality(Entries) \in Nat
    BY <1>4, <1>12, FS_CardinalityType DEF LoopInv, LoopPaid
  <2>6. dups * (MaxCycles - MinCount) \in Nat /\ entered * (MaxCycles + 1) \in Nat
    BY <1>1, Budget
  <2> QED BY <1>1, <1>3, <1>7, <1>9, <1>10, <2>3, <2>4, <2>5, <2>6 DEF LoopInv, LoopPaid, Allowance
<1> QED BY <1>11, <1>12

\* Every step that is not of the world and no forward leaves the budget alone.
LEMMA LoopKept ==
    ASSUME LoopInv, UNCHANGED <<dlt, retry, entered, belowZero, sent, dups>>
    PROVE  LoopPaid' /\ \A i \in 1..Len(retry') : retry'[i] \in Cycles
<1>1. UNCHANGED Entries
  BY DEF Entries
<1>2. UNCHANGED LeftInDlt
  BY <1>1 DEF LeftInDlt, ReadCycleCount
<1>3. UNCHANGED LeftInRetry
  BY DEF LeftInRetry
<1> QED
  BY <1>1, <1>2, <1>3 DEF LoopInv, LoopPaid, Allowance, WithinCycles

\* The world pays for a message when it enters, and takes an entry from what is left to
\* its retry record when it comes back.
LEMMA WorldPaid ==
    ASSUME TypeOK, LoopInv, WorldNext, UNCHANGED <<sent, dups>>
    PROVE  LoopPaid' /\ \A i \in 1..Len(retry') : retry'[i] \in Cycles
<1> USE CycleBounds
<1>1. /\ retry \in Seq(Header) /\ entered \in Nat /\ dups \in Nat /\ belowZero \in Nat
      /\ dlt \in [Partitions -> Seq(Record)]
  BY DEF TypeOK, WorldTypeOK, GhostTypeOK
<1>2. /\ Cardinality(Entries) \in Nat /\ Cardinality(LeftInDlt) \in Nat
      /\ Cardinality(LeftInRetry) \in Nat
      /\ dups * (MaxCycles - MinCount) \in Nat /\ entered * (MaxCycles + 1) \in Nat
  BY <1>1, Budget, FS_CardinalityType DEF LoopInv, LoopPaid
<1>3. CASE UNCHANGED <<dlt, retry, entered, belowZero>>
  BY <1>3, LoopKept
<1>4. CASE RetrySucceeds
  <2>1. retry # << >> /\ retry' = Tail(retry) /\ UNCHANGED <<dlt, entered, belowZero>>
    BY <1>4 DEF RetrySucceeds
  <2>2. UNCHANGED <<Entries, LeftInDlt>>
    BY <2>1 DEF Entries, LeftInDlt, ReadCycleCount
  <2>3. /\ IsFiniteSet(LeftInRetry') /\ Head(retry) \in Cycles
        /\ Cardinality(LeftInRetry') + MaxCycles + 1 - Head(retry) = Cardinality(LeftInRetry)
    BY <2>1, RetryTaken
  <2>4. Cardinality(LeftInRetry') \in Nat
    BY <2>3, FS_CardinalityType
  <2>5. \A i \in 1..Len(retry') : retry'[i] \in Cycles
    BY <1>1, <2>1 DEF LoopInv, WithinCycles
  <2> QED BY <1>1, <1>2, <2>1, <2>2, <2>3, <2>4, <2>5 DEF LoopInv, LoopPaid, Allowance
<1>5. ASSUME NEW p \in Partitions, MessageFails(p)
      PROVE  LoopPaid' /\ \A i \in 1..Len(retry') : retry'[i] \in Cycles
  <2>1. PICK h \in AppHeaders : PublishToDlt(p, h) /\ belowZero' = belowZero + Deficit(h)
    BY <1>5 DEF MessageFails
  <2>2. PICK t \in Nat : dlt' = [dlt EXCEPT ![p] = Append(@, [ts |-> t, header |-> h])]
    BY <2>1 DEF PublishToDlt
  <2>3. [ts |-> t, header |-> h] \in Record /\ h \in Header
    BY WorldAssumption DEF Record
  <2>4. PICK c \in Int : c = ReadCycleCount(h) /\ c >= MinCount
    BY <2>3, CycleCount
  <2>10. Deficit(h) \in Nat /\ MaxCycles - c <= MaxCycles + Deficit(h)
    BY <2>3, <2>4, RouterAssumption, WorldAssumption DEF Deficit, ReadCycleCount, Header
  <2>5. /\ IsFiniteSet(Entries') /\ Cardinality(Entries') <= Cardinality(Entries) + 1
        /\ IsFiniteSet(LeftInDlt')
        /\ Cardinality(LeftInDlt') <= Cardinality(LeftInDlt) + MaxCycles + Deficit(h)
    <3>1. PICK r \in Record : r = [ts |-> t, header |-> h]
      BY <2>3
    <3>2. c = ReadCycleCount(r.header) /\ dlt' = [dlt EXCEPT ![p] = Append(@, r)]
      BY <2>2, <2>4, <3>1
    <3>3. /\ IsFiniteSet(Entries') /\ Cardinality(Entries') <= Cardinality(Entries) + 1
          /\ IsFiniteSet(LeftInDlt')
          /\ c <= MaxCycles => Cardinality(LeftInDlt') <= Cardinality(LeftInDlt) + MaxCycles - c
          /\ c >= MaxCycles => Cardinality(LeftInDlt') <= Cardinality(LeftInDlt)
      BY <2>4, <3>2, EntryAdded DEF LoopInv
    <3>4. Cardinality(LeftInDlt') \in Nat
      BY <3>3, FS_CardinalityType
    <3> QED BY <1>1, <1>2, <2>10, <3>3, <3>4
  <2>6. Cardinality(Entries') \in Nat /\ Cardinality(LeftInDlt') \in Nat
    BY <2>5, FS_CardinalityType
  <2>7. entered' = entered + 1 /\ UNCHANGED retry
    BY <1>5 DEF MessageFails
  <2>8. UNCHANGED LeftInRetry /\ \A i \in 1..Len(retry') : retry'[i] \in Cycles
    BY <2>7 DEF LeftInRetry, LoopInv, WithinCycles
  <2>9. entered' * (MaxCycles + 1) = entered * (MaxCycles + 1) + MaxCycles + 1
    BY <1>1, <2>7, Budget
  <2>11. Allowance' = Allowance + MaxCycles + 1 + Deficit(h) /\ Allowance \in Nat
    <3> DEFINE e == entered * (MaxCycles + 1)
               e1 == entered' * (MaxCycles + 1)
               d == dups * (MaxCycles - MinCount)
    <3>1. Allowance = e + belowZero + d /\ Allowance' = e1 + belowZero' + d
      BY DEF Allowance
    <3>2. e \in Nat /\ d \in Nat /\ e1 = e + MaxCycles + 1
      BY <1>2, <2>9
    <3> HIDE DEF e, e1, d
    <3> QED BY <1>1, <2>1, <2>10, <3>1, <3>2
  <2>12. /\ Cardinality(Entries) + Cardinality(LeftInDlt) + Cardinality(LeftInRetry) <= Allowance
         /\ IsFiniteSet(LeftInRetry)
    BY DEF LoopInv, LoopPaid
  <2>13. Cardinality(Entries') + Cardinality(LeftInDlt') + Cardinality(LeftInRetry') <= Allowance'
    <3>1. Cardinality(LeftInRetry') = Cardinality(LeftInRetry)
      BY <2>8
    <3>2. ASSUME NEW e \in Nat, NEW e1 \in Nat, NEW d \in Nat, NEW d1 \in Nat, NEW l \in Nat,
                 NEW m \in Nat, NEW f \in Nat, NEW a \in Nat, NEW a1 \in Nat,
                 e1 <= e + 1, d1 <= d + m + f, e + d + l <= a, a1 = a + m + 1 + f
          PROVE  e1 + d1 + l <= a1
      BY <3>2
    <3>3. Allowance' \in Nat
      BY <2>10, <2>11
    <3> QED BY <1>2, <2>5, <2>6, <2>10, <2>11, <2>12, <3>1, <3>2, <3>3
  <2> QED BY <2>5, <2>8, <2>12, <2>13 DEF LoopPaid
<1>6. ASSUME NEW p \in Partitions, RetryFails(p)
      PROVE  LoopPaid' /\ \A i \in 1..Len(retry') : retry'[i] \in Cycles
  <2>1. /\ retry # << >> /\ retry' = Tail(retry) /\ UNCHANGED <<entered, belowZero>>
        /\ PublishToDlt(p, Head(retry))
    BY <1>6 DEF RetryFails
  <2>2. PICK h : h = Head(retry)
    OBVIOUS
  <2>3. /\ IsFiniteSet(LeftInRetry') /\ h \in Cycles
        /\ Cardinality(LeftInRetry') + MaxCycles + 1 - h = Cardinality(LeftInRetry)
    BY <2>1, <2>2, RetryTaken
  <2>4. PICK t \in Nat : dlt' = [dlt EXCEPT ![p] = Append(@, [ts |-> t, header |-> h])]
    BY <2>1, <2>2 DEF PublishToDlt
  <2>5. h \in Int /\ h >= MinCount /\ h \in Header /\ ReadCycleCount(h) = h
    BY <2>3, WorldAssumption DEF Header, ReadCycleCount
  <2>6. PICK r \in Record : r = [ts |-> t, header |-> h]
    BY <2>5 DEF Record
  <2>7. h = ReadCycleCount(r.header) /\ dlt' = [dlt EXCEPT ![p] = Append(@, r)]
    BY <2>4, <2>5, <2>6
  <2>8. /\ IsFiniteSet(Entries') /\ Cardinality(Entries') <= Cardinality(Entries) + 1
        /\ IsFiniteSet(LeftInDlt')
        /\ Cardinality(LeftInDlt') <= Cardinality(LeftInDlt) + MaxCycles - h
    <3>1. h <= MaxCycles
      BY <1>1, <2>3
    <3>2. /\ IsFiniteSet(Entries') /\ Cardinality(Entries') <= Cardinality(Entries) + 1
          /\ IsFiniteSet(LeftInDlt')
          /\ h <= MaxCycles => Cardinality(LeftInDlt') <= Cardinality(LeftInDlt) + MaxCycles - h
      BY <2>5, <2>7, EntryAdded DEF LoopInv
    <3> QED BY <3>1, <3>2
  <2>9. /\ Cardinality(Entries') \in Nat /\ Cardinality(LeftInDlt') \in Nat
        /\ Cardinality(LeftInRetry') \in Nat
    BY <2>3, <2>8, FS_CardinalityType
  <2>10. \A i \in 1..Len(retry') : retry'[i] \in Cycles
    BY <1>1, <2>1 DEF LoopInv, WithinCycles
  <2>11. entered' * (MaxCycles + 1) = entered * (MaxCycles + 1)
    BY <2>1
  <2>12. /\ Cardinality(Entries') + Cardinality(LeftInDlt') + Cardinality(LeftInRetry')
               <= Cardinality(Entries) + Cardinality(LeftInDlt) + Cardinality(LeftInRetry)
         /\ dups' * (MaxCycles - MinCount) = dups * (MaxCycles - MinCount)
    <3>1. ASSUME NEW d \in Nat, NEW d1 \in Nat, NEW e \in Nat, NEW e1 \in Nat,
                 NEW l \in Nat, NEW l1 \in Nat, NEW m \in Int, NEW k \in Int,
                 e1 <= e + 1, d1 <= d + m - k, l1 + m + 1 - k = l
          PROVE  e1 + d1 + l1 <= e + d + l
      BY <3>1
    <3>2. h \in Int
      BY <2>5
    <3> QED BY <1>1, <1>2, <2>3, <2>8, <2>9, <3>1, <3>2
  <2>14. Allowance' = Allowance /\ Allowance \in Nat
    <3> DEFINE e == entered * (MaxCycles + 1)
               e1 == entered' * (MaxCycles + 1)
               d == dups * (MaxCycles - MinCount)
    <3>1. Allowance = e + belowZero + d /\ Allowance' = e1 + belowZero' + d
      BY DEF Allowance
    <3>2. e \in Nat /\ d \in Nat /\ e1 = e
      BY <1>2, <2>11
    <3> HIDE DEF e, e1, d
    <3> QED BY <1>1, <2>1, <3>1, <3>2
  <2>15. Cardinality(Entries) + Cardinality(LeftInDlt) + Cardinality(LeftInRetry) <= Allowance
    BY DEF LoopInv, LoopPaid
  <2>16. Cardinality(Entries') + Cardinality(LeftInDlt') + Cardinality(LeftInRetry') <= Allowance'
    BY <1>2, <2>9, <2>12, <2>14, <2>15
  <2> QED BY <2>3, <2>8, <2>10, <2>16 DEF LoopPaid
<1> QED BY <1>3, <1>4, <1>5, <1>6 DEF WorldNext, Tick

------------------------------------------------------------------------------

\* routeRecord sends only what is not at the end of its cycles, and the record in hand
\* stays what it is.
LEMMA SendsWithinCycles ==
    ASSUME TypeOK, Positions, WithinCycles, [Next]_vars,
           NEW w \in Workers, wpc'[w] = "send"
    PROVE  ~Exhausted(InHand(w)')
<1>1. CASE /\ wpc[w] = "send"
           /\ cur'[w] = cur[w] /\ nxt'[w] = nxt[w]
  <2>1. Busy(w) /\ ~Exhausted(InHand(w))
    BY <1>1 DEF Busy, WithinCycles
  <2>2. InHand(w)' = InHand(w)
    BY <1>1, <2>1, RecordInHand, FactsGrow DEF InHand
  <2> QED BY <2>1, <2>2
<1>2. ASSUME NEW p \in Partitions, Deliver(w, p)
      PROVE  ~Exhausted(InHand(w)')
  <2>1. InHand(w)' = dlt[p][nxt[w][p] + 1] /\ wpc'[w] = Route(w, dlt[p][nxt[w][p] + 1])
    BY <1>2 DEF Deliver, InHand, worldVars, TypeOK, WorkerTypeOK
  <2> QED BY <2>1 DEF Route
<1> QED BY <1>1, <1>2, HandFromRoute

\* Every step stays within the budget.
LEMMA LoopStep ==
    ASSUME TypeOK, Positions, LoopInv, [Next]_vars
    PROVE  LoopInv'
<1> DEFINE Goal == LoopPaid' /\ \A i \in 1..Len(retry') : retry'[i] \in Cycles
<1>1. ASSUME World PROVE Goal
  BY <1>1, WorldPaid DEF World, ghostVars
<1>2. ASSUME UNCHANGED vars PROVE Goal
  BY <1>2, LoopKept DEF vars, worldVars, ghostVars
<1>3. ASSUME NEW pod \in Pods,
             ApiStep(pod) \/ CronStep(pod) \/ ShutdownStep(pod) \/ PodEvent(pod)
      PROVE  Goal
  BY <1>3, LoopKept
     DEF ApiStep, CronStep, ShutdownStep, PodEvent, StartSetCutoff, StartCheck,
         StartContainer, CronCheck, CronSetCutoff, CronStart, DestroyBegin, DestroyStop,
         DestroyReturns, Restart, Crash, FreshProcess, worldVars, ghostVars
<1>4. ASSUME NEW w \in Workers, SendOk(w) \/ SendFails(w)
      PROVE  Goal
  <2>1. wpc[w] = "send" /\ UNCHANGED <<dlt, entered, belowZero>>
    BY <1>4 DEF SendOk, SendFails
  <2>2. Forward(w) \/ UNCHANGED <<retry, sent, dups>>
    BY <1>4 DEF SendOk, SendFails
  <2> QED BY <2>1, <2>2, ForwardPaid, LoopKept
<1>5. ASSUME NEW w \in Workers,
             \/ StopAtCutoff(w) \/ StopReturns(w) \/ Idle(w) \/ IdleStop(w) \/ Exit(w)
             \/ AckOk(w) \/ AckFails(w) \/ HandleError(w) \/ Poll(w) \/ Evict(w)
             \/ \E p \in Partitions : Deliver(w, p) \/ Assign(w, p) \/ Revoke(w, p)
      PROVE  Goal
  BY <1>5, LoopKept
     DEF StopAtCutoff, StopReturns, Idle, IdleStop, Exit, AckOk, AckFails, HandleError,
         Poll, Evict, Deliver, Assign, Revoke, worldVars, ghostVars
<1>6. Goal
  BY <1>1, <1>2, <1>3, <1>4, <1>5 DEF Next, WorkerStep, WorkerEvent
<1>7. \A w \in Workers : wpc'[w] = "send" => ~Exhausted(InHand(w)')
  BY SendsWithinCycles DEF LoopInv
<1> QED BY <1>6, <1>7 DEF LoopInv, WithinCycles, Exhausted, ReadCycleCount

\* However often its record fails again and whatever goes wrong on the way, a message
\* enters the DLT no more than MaxCycles + 1 times, -h times more when its header is a
\* number h below zero, and MaxCycles - MinCount times more for each duplicated forward
\* (routeRecord, readCycleCount).
THEOREM RoutingLoopBoundedAlways == Spec => []RoutingLoopBounded
<1>1. Init => LoopInv
  <2> SUFFICES ASSUME Init PROVE LoopInv
    OBVIOUS
  <2>1. /\ Entries = {} /\ LeftInDlt = {} /\ LeftInRetry = {}
    BY DEF Init, WorldInit, Entries, LeftInDlt, LeftInRetry
  <2>2. entered = 0 /\ dups = 0 /\ belowZero = 0 /\ WithinCycles
    BY DEF Init, WorldInit, WithinCycles
  <2>3. entered * (MaxCycles + 1) = 0 /\ dups * (MaxCycles - MinCount) = 0
    BY <2>2, CycleBounds
  <2> QED BY <2>1, <2>2, <2>3, FS_EmptySet DEF LoopInv, LoopPaid, Allowance
<1>2. TypeOK /\ Positions /\ LoopInv /\ [Next]_vars => LoopInv'
  BY LoopStep
<1>3. TypeOK /\ LoopInv => RoutingLoopBounded
  <2> SUFFICES ASSUME TypeOK, LoopInv PROVE RoutingLoopBounded
    OBVIOUS
  <2>1. /\ Cardinality(Entries) \in Nat /\ Cardinality(LeftInDlt) \in Nat
        /\ Cardinality(LeftInRetry) \in Nat
        /\ dups * (MaxCycles - MinCount) \in Nat /\ entered * (MaxCycles + 1) \in Nat
    BY Budget, FS_CardinalityType DEF LoopInv, LoopPaid, TypeOK, WorldTypeOK, GhostTypeOK
  <2>2. belowZero \in Nat
    BY DEF TypeOK, WorldTypeOK
  <2> QED BY <2>1, <2>2 DEF LoopInv, LoopPaid, Allowance, RoutingLoopBounded
<1> QED
  BY <1>1, <1>2, <1>3, TypeCorrect, PTL DEF Spec

------------------------------------------------------------------------------
(* Duplicates: counting. *)

\* The bound is a number, and no fault is without a thread or a partition to meet.
LEMMA TogetherIsANumber ==
    /\ Together \in Nat
    /\ \A w \in Workers, p \in Partitions : Together >= 1
<1>1. /\ Cardinality(Slots) \in Nat /\ Cardinality(Partitions) \in Nat
      /\ \A w \in Workers : Cardinality(Slots) # 0
      /\ \A p \in Partitions : Cardinality(Partitions) # 0
  BY ThreadsFinite, FS_CardinalityType, FS_EmptySet DEF Workers
<1> QED
  BY <1>1 DEF Together

\* A finite set and some of it, or one more.
LEMMA Shrinks ==
    ASSUME NEW S, NEW T, IsFiniteSet(S), T \subseteq S
    PROVE  IsFiniteSet(T) /\ Cardinality(T) <= Cardinality(S) /\ Cardinality(T) \in Nat
BY FS_Subset, FS_CardinalityType

LEMMA Loses ==
    ASSUME NEW S, NEW T, IsFiniteSet(S), NEW x \in S, T \subseteq S \ {x}
    PROVE  /\ IsFiniteSet(T) /\ Cardinality(T) + 1 <= Cardinality(S)
           /\ Cardinality(T) \in Nat
<1>1. IsFiniteSet(S \ {x}) /\ Cardinality(S \ {x}) = Cardinality(S) - 1
  BY FS_RemoveElement
<1>2. Cardinality(S) \in Nat
  BY FS_CardinalityType
<1> QED BY <1>1, <1>2, Shrinks

LEMMA Gains ==
    ASSUME NEW S, NEW T, IsFiniteSet(S), NEW x, T \subseteq S \cup {x}
    PROVE  /\ IsFiniteSet(T) /\ Cardinality(T) <= Cardinality(S) + 1
           /\ Cardinality(T) \in Nat
<1>1. /\ IsFiniteSet(S \cup {x})
      /\ Cardinality(S \cup {x}) = IF x \in S THEN Cardinality(S) ELSE Cardinality(S) + 1
  BY FS_AddElement
<1>2. Cardinality(S) \in Nat
  BY FS_CardinalityType
<1>3. IsFiniteSet(T) /\ Cardinality(T) <= Cardinality(S \cup {x}) /\ Cardinality(T) \in Nat
  BY <1>1, Shrinks
<1> QED BY <1>1, <1>2, <1>3

\* The places of a set of workers that share a pod, each the owner of its partition, are
\* no more than meet one fault.
LEMMA PlacesTogether ==
    ASSUME NEW pod \in Pods, NEW K \in SUBSET Workers,
           \A w \in K : PodOf(w) = pod /\ cur[w] \in Partitions /\ owner[cur[w]] = w,
           NEW P, P = {Place(w) : w \in K}
    PROVE  IsFiniteSet(P) /\ Cardinality(P) <= Together
<1> DEFINE S == {s \in Slots : <<pod, s>> \in K}
           Q == {p \in Partitions : owner[p] \in K /\ cur[owner[p]] = p}
           f == [s \in S |-> Place(<<pod, s>>)]
           g == [p \in Q |-> Place(owner[p])]
<1>1. IsFiniteSet(S) /\ Cardinality(S) <= Cardinality(Slots) /\ Cardinality(S) \in Nat
  BY ThreadsFinite, Shrinks
<1>2. IsFiniteSet(Q) /\ Cardinality(Q) <= Cardinality(Partitions) /\ Cardinality(Q) \in Nat
  BY ThreadsFinite, Shrinks
<1>3. \A w \in K : w = <<pod, w[2]>> /\ w[2] \in S
  BY DEF Workers, PodOf
<1>4. f \in Surjection(S, P)
  <2>1. \A s \in S : f[s] \in P
    OBVIOUS
  <2>2. \A x \in P : \E s \in S : f[s] = x
    <3> SUFFICES ASSUME NEW w \in K PROVE \E s \in S : f[s] = Place(w)
      OBVIOUS
    <3> QED BY <1>3
  <2> HIDE DEF f, S
  <2>3. f \in [S -> P]
    BY <2>1 DEF f
  <2> QED BY <2>2, <2>3 DEF Surjection
<1>5. g \in Surjection(Q, P)
  <2>1. \A p \in Q : g[p] \in P
    OBVIOUS
  <2>2. \A x \in P : \E p \in Q : g[p] = x
    <3>1. ASSUME NEW w \in K
          PROVE  \E p \in Q : g[p] = Place(w)
      <4>1. cur[w] \in Q
        OBVIOUS
      <4>2. g[cur[w]] = Place(w)
        BY <4>1
      <4> QED BY <4>1, <4>2
    <3>2. \A x \in P : \E w \in K : x = Place(w)
      OBVIOUS
    <3> HIDE DEF g, Q
    <3> QED BY <3>1, <3>2
  <2> HIDE DEF g, Q
  <2>3. g \in [Q -> P]
    BY <2>1 DEF g
  <2> QED BY <2>2, <2>3 DEF Surjection
<1> HIDE DEF S, Q, f, g
<1>6. /\ IsFiniteSet(P) /\ Cardinality(P) <= Cardinality(S)
      /\ Cardinality(P) <= Cardinality(Q) /\ Cardinality(P) \in Nat
  BY <1>1, <1>2, <1>4, <1>5, FS_Surjection, FS_CardinalityType
<1>7. Cardinality(Slots) \in Nat /\ Cardinality(Partitions) \in Nat
  BY ThreadsFinite, FS_CardinalityType
<1> QED BY <1>1, <1>2, <1>6, <1>7 DEF Together

------------------------------------------------------------------------------
(* What a step puts at risk. *)

\* The owner of its partition, about to acknowledge.
Acking(w) == wpc[w] = "ack" /\ owner[cur[w]] = w

\* Only the workers in ws do something; the group moves only where one of them owns.
OnlyFor(ws) ==
    /\ \A v \in Workers \ ws :
          /\ wpc'[v] = wpc[v] /\ cur'[v] = cur[v] /\ nxt'[v] = nxt[v] /\ fin'[v] = fin[v]
          /\ \A p \in Partitions : owner'[p] = v <=> owner[p] = v
    /\ \A p \in Partitions :
          /\ committed[p] <= committed'[p]
          /\ committed'[p] # committed[p] => owner'[p] \in ws

\* What a step of theirs puts at risk is at risk already, or theirs.
LEMMA RiskOfOthers ==
    ASSUME TypeOK, Positions, TypeOK', NEW ws \in SUBSET Workers, OnlyFor(ws)
    PROVE  /\ \A x \in Again' : \/ x \in Again \/ x \notin sent
                                \/ \E w \in ws : Acking(w) /\ Place(w) = x
           /\ \A p \in Behind' : p \in Behind \/ owner'[p] \in ws
           /\ \A v \in Workers \ ws : Stale(v)' <=> Stale(v)
           /\ \A v \in Straying' : v \in Straying \/ v \in ws
<1>1. ASSUME NEW x \in Again', x \in sent, x \notin Again
      PROVE  \E w \in ws : Acking(w) /\ Place(w) = x
  <2>1. x[1] \in Partitions /\ x[2] \in Nat
    BY <1>1 DEF TypeOK, GhostTypeOK
  <2>2. committed[x[1]] < x[2]
    BY <1>1, <2>1 DEF Again, OnlyFor, TypeOK, GroupTypeOK
  <2>3. PICK w \in Workers : wpc[w] = "ack" /\ owner[cur[w]] = w /\ Place(w) = x
    BY <1>1, <2>2 DEF Again, Acknowledging
  <2>4. cur[w] \in Partitions
    BY <2>3, RecordInHand DEF Busy
  <2>5. ASSUME w \notin ws PROVE FALSE
    <3>1. wpc'[w] = "ack" /\ owner'[cur'[w]] = w /\ Place(w)' = x
      BY <2>3, <2>4, <2>5 DEF OnlyFor, Place
    <3> QED BY <1>1, <3>1 DEF Again, Acknowledging
  <2> QED BY <2>3, <2>5 DEF Acking
<1>2. ASSUME NEW p \in Behind', owner'[p] \notin ws
      PROVE  p \in Behind
  <2>1. PICK w \in Workers : /\ owner'[p] = w /\ nxt'[w][p] < committed'[p]
                             /\ ~(wpc'[w] = "ack" /\ cur'[w] = p)
    BY <1>2 DEF Behind
  <2>2. p \in Partitions
    BY <1>2 DEF Behind
  <2> QED BY <1>2, <2>1, <2>2 DEF OnlyFor, Behind
<1>3. \A v \in Workers \ ws : Stale(v)' <=> Stale(v)
  BY DEF OnlyFor, Stale
<1>4. ASSUME NEW v \in Straying', v \notin ws
      PROVE  v \in Straying
  BY <1>3, <1>4 DEF Straying, OnlyFor
<1> QED BY <1>1, <1>2, <1>3, <1>4

\* Who was not there before does not own: the loss of a batch stays a loss of all of it.
LEMMA LostStep ==
    ASSUME LostTogether, NEW ws \in SUBSET Workers, OnlyFor(ws),
           \A v \in Workers \ ws : Stale(v)' <=> Stale(v),
           \A w \in ws : Stale(w)' => \A p \in Partitions : owner'[p] # w
    PROVE  LostTogether'
BY DEF LostTogether, OnlyFor

\* The budget after a step, from the one before.
LEMMA Budgeted ==
    ASSUME TypeOK, TypeOK', DuplicatesPaid,
           IsFiniteSet(Again'), IsFiniteSet(Behind'), IsFiniteSet(Straying'),
           UNCHANGED phase,
           \/ /\ faults' = faults
              /\ dups' + Cardinality(Again') + Cardinality(Behind') + Cardinality(Straying')
                    <= dups + Cardinality(Again) + Cardinality(Behind) + Cardinality(Straying)
           \/ /\ faults' = faults + 1
              /\ dups' + Cardinality(Again') + Cardinality(Behind') + Cardinality(Straying')
                    <= dups + Cardinality(Again) + Cardinality(Behind) + Cardinality(Straying)
                          + Together
    PROVE  DuplicatesPaid'
<1>1. Down' = Down
  BY DEF Down
<1>2. /\ Cardinality(Again) \in Nat /\ Cardinality(Behind) \in Nat
      /\ Cardinality(Straying) \in Nat /\ Cardinality(Down) \in Nat
      /\ Cardinality(Again') \in Nat /\ Cardinality(Behind') \in Nat
      /\ Cardinality(Straying') \in Nat
      /\ dups \in Nat /\ dups' \in Nat /\ faults \in Nat /\ Together \in Nat
  BY FS_CardinalityType, TogetherIsANumber
     DEF DuplicatesPaid, TypeOK, WorldTypeOK, GhostTypeOK
<1>3. (faults + 1) * Together = faults * Together + Together
  BY <1>2
<1>4. faults * Together \in Nat /\ Cardinality(Down) * Together \in Nat
  BY <1>2
<1> QED BY <1>1, <1>2, <1>3, <1>4 DEF DuplicatesPaid, Together

\* Nothing more is at risk after the step.
LEMMA NoMore ==
    ASSUME TypeOK, TypeOK', DuplicatesPaid, UNCHANGED <<dups, phase>>,
           faults' = faults \/ faults' = faults + 1,
           Again' \subseteq Again, Behind' \subseteq Behind, Straying' \subseteq Straying
    PROVE  DuplicatesPaid'
<1>1. /\ IsFiniteSet(Again') /\ IsFiniteSet(Behind') /\ IsFiniteSet(Straying')
      /\ Cardinality(Again') <= Cardinality(Again)
      /\ Cardinality(Behind') <= Cardinality(Behind)
      /\ Cardinality(Straying') <= Cardinality(Straying)
      /\ Cardinality(Again) \in Nat /\ Cardinality(Again') \in Nat
      /\ Cardinality(Behind) \in Nat /\ Cardinality(Behind') \in Nat
      /\ Cardinality(Straying) \in Nat /\ Cardinality(Straying') \in Nat
  BY Shrinks, FS_CardinalityType DEF DuplicatesPaid
<1>2. dups \in Nat /\ Together \in Nat
  BY TogetherIsANumber DEF TypeOK, GhostTypeOK
<1> QED BY <1>1, <1>2, Budgeted

\* What is at risk can be counted.
LEMMA Counted ==
    ASSUME DuplicatesPaid
    PROVE  /\ IsFiniteSet(Again) /\ Cardinality(Again) \in Nat
           /\ IsFiniteSet(Behind) /\ Cardinality(Behind) \in Nat
           /\ IsFiniteSet(Straying) /\ Cardinality(Straying) \in Nat
BY FS_CardinalityType DEF DuplicatesPaid

\* A fault that one worker meets pays for one more.
LEMMA OneMore ==
    ASSUME TypeOK, TypeOK', DuplicatesPaid, NEW w \in Workers, NEW p \in Partitions,
           UNCHANGED phase, faults' = faults + 1,
           IsFiniteSet(Again'), IsFiniteSet(Behind'), IsFiniteSet(Straying'),
           dups' + Cardinality(Again') + Cardinality(Behind') + Cardinality(Straying')
              <= dups + Cardinality(Again) + Cardinality(Behind) + Cardinality(Straying) + 1
    PROVE  DuplicatesPaid'
<1>1. /\ Cardinality(Again') \in Nat /\ Cardinality(Behind') \in Nat
      /\ Cardinality(Straying') \in Nat /\ dups' \in Nat /\ dups \in Nat
      /\ Together \in Nat /\ Together >= 1
  BY FS_CardinalityType, TogetherIsANumber DEF TypeOK, GhostTypeOK
<1>2. dups' + Cardinality(Again') + Cardinality(Behind') + Cardinality(Straying')
         <= dups + Cardinality(Again) + Cardinality(Behind) + Cardinality(Straying) + Together
  BY <1>1, Counted
<1> QED BY <1>2, Budgeted

\* A step of one worker that neither commits nor forwards, and that no fault is behind.
LEMMA QuietWorker ==
    ASSUME TypeOK, Positions, TypeOK', LostTogether, DuplicatesPaid,
           NEW w \in Workers, OnlyFor({w}),
           UNCHANGED <<committed, sent, dups, faults, phase>>,
           wpc[w] # "ack", wpc'[w] # "ack",
           \A p \in Partitions : owner'[p] = w =>
               \/ owner[p] = w /\ nxt[w][p] <= nxt'[w][p]
               \/ nxt'[w][p] = committed[p],
           Stale(w)' => /\ Stale(w) /\ wpc[w] \notin {"skip", "failed"}
                        /\ \A p \in Partitions : owner'[p] = w => owner[p] = w
    PROVE  LostTogether' /\ DuplicatesPaid'
<1>1. Again' \subseteq Again
  BY RiskOfOthers DEF Acking, Again
<1>2. Behind' \subseteq Behind
  <2> SUFFICES ASSUME NEW p \in Behind', owner'[p] = w
               PROVE  p \in Behind
    BY RiskOfOthers
  <2>1. /\ p \in Partitions /\ nxt'[w][p] < committed[p]
        /\ nxt'[w][p] \in Nat /\ nxt[w][p] \in Nat /\ committed[p] \in Nat
    BY DEF Behind, TypeOK, WorkerTypeOK, GroupTypeOK
  <2>2. owner[p] = w /\ nxt[w][p] < committed[p]
    BY <2>1
  <2> QED BY <2>1, <2>2 DEF Behind
<1>3. Straying' \subseteq Straying
  BY RiskOfOthers DEF Straying
<1>5. DuplicatesPaid'
  BY <1>1, <1>2, <1>3, NoMore
<1>6. LostTogether'
  BY RiskOfOthers, LostStep DEF LostTogether
<1> QED BY <1>5, <1>6

\* A step that leaves the workers, the group and the forwards alone.
LEMMA QuietPod ==
    ASSUME LostTogether, DuplicatesPaid,
           UNCHANGED <<committed, owner, sent, dups, faults, wpc, cur, nxt, fin>>,
           Down' = Down
    PROVE  LostTogether' /\ DuplicatesPaid'
<1>1. /\ Again' = Again /\ Behind' = Behind
      /\ \A w \in Workers : Stale(w)' <=> Stale(w)
  BY DEF Again, Acknowledging, Place, Behind, Stale
<1>2. Straying' = Straying
  BY <1>1 DEF Straying
<1> QED BY <1>1, <1>2 DEF LostTogether, DuplicatesPaid, Together

------------------------------------------------------------------------------
(* The steps. *)

\* The steps of a worker that nothing goes wrong in and that send and commit nothing.
LEMMA QuietSteps ==
    ASSUME TypeOK, Positions, LostTogether, DuplicatesPaid, [Next]_vars, NEW w \in Workers,
           \/ StopAtCutoff(w) \/ StopReturns(w) \/ Idle(w) \/ IdleStop(w) \/ Poll(w)
           \/ HandleError(w)
           \/ \E p \in Partitions : Deliver(w, p) \/ Assign(w, p) \/ Revoke(w, p)
    PROVE  LostTogether' /\ DuplicatesPaid'
<1>0. TypeOK'
  BY TypeStep
<1> USE DEF TypeOK, WorkerTypeOK, GroupTypeOK
<1>n. /\ \A p \in Partitions : committed[p] \in Nat /\ nxt[w][p] \in Nat /\ fin[w][p] \in Nat
      /\ None \notin Workers
  BY RouterAssumption
<1>1. CASE StopReturns(w) \/ Idle(w) \/ IdleStop(w)
  <2>1. /\ UNCHANGED <<worldVars, groupVars, phase, cur, nxt, fin, tries, ghostVars>>
        /\ wpc[w] \in {"wait", "loop", "idle"} /\ wpc'[w] \in {"loop", "idle", "wait"}
        /\ \A v \in Workers \ {w} : wpc'[v] = wpc[v]
    BY <1>1 DEF StopReturns, Idle, IdleStop, StopCall, podVars, workerVars
  <2>2. OnlyFor({w})
    BY <2>1, <1>n DEF OnlyFor, groupVars
  <2>3. Stale(w)' <=> Stale(w)
    BY <2>1 DEF Stale, groupVars
  <2>4. \A p \in Partitions : owner'[p] = w => owner[p] = w /\ nxt[w][p] <= nxt'[w][p]
    BY <1>n, <2>1 DEF groupVars
  <2> QED
    BY <1>0, <2>1, <2>2, <2>3, <2>4, QuietWorker DEF worldVars, groupVars, ghostVars
<1>2. CASE StopAtCutoff(w)
  <2>1. /\ UNCHANGED <<worldVars, groupVars, phase, cur, fin, ghostVars>> /\ PassInHand(w)
        /\ wpc[w] = "stop" /\ wpc'[w] \in {"loop", "wait"}
        /\ \A v \in Workers \ {w} : wpc'[v] = wpc[v]
    BY <1>2 DEF StopAtCutoff, StopCall
  <2>2. /\ cur[w] \in Partitions
        /\ nxt'[w][cur[w]] = nxt[w][cur[w]] + 1
        /\ \A p \in Partitions : p # cur[w] => nxt'[w][p] = nxt[w][p]
        /\ \A v \in Workers \ {w} : nxt'[v] = nxt[v]
    BY <2>1, RecordInHand DEF PassInHand, Busy
  <2>3. OnlyFor({w})
    BY <2>1, <2>2, <1>n DEF OnlyFor, groupVars
  <2>4. ASSUME NEW p \in Partitions
        PROVE  nxt[w][p] <= nxt'[w][p] /\ nxt'[w][p] \in Nat
    <3>1. nxt[w][p] \in Nat
      BY <1>n
    <3>2. nxt'[w][p] = nxt[w][p] + 1 \/ nxt'[w][p] = nxt[w][p]
      BY <2>2
    <3> QED BY <3>1, <3>2
  <2>5. Stale(w)' => Stale(w)
    BY <1>n, <2>1, <2>4 DEF Stale, groupVars
  <2> QED
    BY <1>0, <2>1, <2>3, <2>4, <2>5, QuietWorker DEF worldVars, groupVars, ghostVars
<1>3. CASE Poll(w)
  <2>1. /\ UNCHANGED <<worldVars, groupVars, podVars, wpc, nxt, ghostVars>>
        /\ wpc[w] = "loop" /\ Drained(w)
        /\ \A v \in Workers \ {w} : cur'[v] = cur[v] /\ fin'[v] = fin[v]
        /\ \A p \in Partitions : fin'[w][p] # fin[w][p] => owner[p] = w
    BY <1>3 DEF Poll
  <2>2. OnlyFor({w})
    BY <2>1, <1>n DEF OnlyFor, groupVars
  <2>3. ~Stale(w)'
    BY <1>n, <2>1 DEF Stale, Drained, groupVars
  <2>4. \A q \in Partitions : owner'[q] = w => owner[q] = w /\ nxt[w][q] <= nxt'[w][q]
    BY <1>n, <2>1 DEF groupVars
  <2> QED
    BY <1>0, <2>1, <2>2, <2>3, <2>4, QuietWorker DEF worldVars, groupVars, ghostVars, podVars
<1>4. CASE HandleError(w)
  <2>1. /\ UNCHANGED <<worldVars, groupVars, podVars, sent, dups>>
        /\ wpc[w] = "failed" /\ wpc'[w] = "loop" /\ fin'[w] = nxt'[w]
        /\ UNCHANGED nxt \/ PassInHand(w)
        /\ \A v \in Workers \ {w} : cur'[v] = cur[v] /\ fin'[v] = fin[v] /\ wpc'[v] = wpc[v]
    BY <1>4 DEF HandleError
  <2>5. cur[w] \in Partitions
    BY <2>1, RecordInHand DEF Busy
  <2>2. /\ \A p \in Partitions : nxt[w][p] <= nxt'[w][p]
        /\ \A v \in Workers \ {w} : nxt'[v] = nxt[v]
    <3>1. CASE UNCHANGED nxt
      BY <1>n, <3>1
    <3>2. CASE PassInHand(w)
      <4>1. \A p \in Partitions : nxt'[w][p] = IF p = cur[w] THEN nxt[w][p] + 1 ELSE nxt[w][p]
        BY <2>5, <3>2 DEF PassInHand
      <4>2. \A v \in Workers \ {w} : nxt'[v] = nxt[v]
        BY <3>2 DEF PassInHand
      <4>3. \A p \in Partitions : nxt[w][p] \in Nat
        BY <1>n
      <4>4. \A p \in Partitions : nxt[w][p] <= nxt'[w][p]
        BY <4>1, <4>3
      <4> QED BY <4>2, <4>4
    <3> QED BY <2>1, <3>1, <3>2
  <2>3. OnlyFor({w})
    BY <2>1, <2>2, <1>n DEF OnlyFor, groupVars
  <2>4. ~Stale(w)'
    BY <1>0, <2>1 DEF Stale
  <2>6. \A p \in Partitions : owner'[p] = w => owner[p] = w /\ nxt[w][p] <= nxt'[w][p]
    BY <2>1, <2>2 DEF groupVars
  <2> QED
    BY <1>0, <2>1, <2>3, <2>4, <2>6, QuietWorker DEF worldVars, groupVars, podVars
<1>5. ASSUME NEW p \in Partitions, Deliver(w, p)
      PROVE  LostTogether' /\ DuplicatesPaid'
  <2>1. /\ UNCHANGED <<worldVars, groupVars, podVars, nxt, fin, sent, dups>>
        /\ wpc[w] = "loop" /\ wpc'[w] \in {"stop", "skip", "send"}
        /\ \A v \in Workers \ {w} : cur'[v] = cur[v] /\ wpc'[v] = wpc[v]
    BY <1>5 DEF Deliver, Route
  <2>2. OnlyFor({w})
    BY <2>1, <1>n DEF OnlyFor, groupVars
  <2>3. Stale(w)' <=> Stale(w)
    BY <2>1 DEF Stale, groupVars
  <2>4. \A q \in Partitions : owner'[q] = w => owner[q] = w /\ nxt[w][q] <= nxt'[w][q]
    BY <1>n, <2>1 DEF groupVars
  <2> QED
    BY <1>0, <2>1, <2>2, <2>3, <2>4, QuietWorker DEF worldVars, groupVars, podVars
<1>6. ASSUME NEW p \in Partitions, Assign(w, p)
      PROVE  LostTogether' /\ DuplicatesPaid'
  <2>1. /\ UNCHANGED <<worldVars, committed, podVars, wpc, cur, ghostVars>>
        /\ wpc[w] = "loop" /\ Drained(w) /\ owner[p] = None
        /\ \A v \in Workers \ {w} : nxt'[v] = nxt[v] /\ fin'[v] = fin[v]
        /\ owner'[p] = w /\ \A q \in Partitions : q # p => owner'[q] = owner[q]
        /\ nxt'[w][p] = committed[p] /\ fin'[w][p] = committed[p]
        /\ \A q \in Partitions : q # p => nxt'[w][q] = nxt[w][q] /\ fin'[w][q] = fin[w][q]
    BY <1>6 DEF Assign
  <2>2. OnlyFor({w})
    BY <2>1, <1>n DEF OnlyFor
  <2>3. ~Stale(w)'
    BY <1>n, <2>1 DEF Stale, Drained
  <2>4. \A q \in Partitions : owner'[q] = w =>
           (owner[q] = w /\ nxt[w][q] <= nxt'[w][q]) \/ nxt'[w][q] = committed[q]
    BY <1>n, <2>1
  <2> QED
    BY <1>0, <2>1, <2>2, <2>3, <2>4, QuietWorker DEF worldVars, ghostVars, podVars
<1>7. ASSUME NEW p \in Partitions, Revoke(w, p)
      PROVE  LostTogether' /\ DuplicatesPaid'
  <2>1. /\ UNCHANGED <<worldVars, committed, podVars, workerVars, ghostVars>>
        /\ wpc[w] = "loop" /\ Drained(w) /\ owner[p] = w
        /\ owner'[p] = None /\ \A q \in Partitions : q # p => owner'[q] = owner[q]
    BY <1>7 DEF Revoke
  <2>2. OnlyFor({w})
    BY <2>1, <1>n DEF OnlyFor, workerVars
  <2>3. ~Stale(w)'
    BY <1>n, <2>1 DEF Stale, Drained, workerVars
  <2>4. \A q \in Partitions : owner'[q] = w => owner[q] = w /\ nxt[w][q] <= nxt'[w][q]
    BY <1>n, <2>1 DEF workerVars
  <2> QED
    BY <1>0, <2>1, <2>2, <2>3, <2>4, QuietWorker DEF worldVars, ghostVars, podVars, workerVars
<1> QED
  BY <1>1, <1>2, <1>3, <1>4, <1>5, <1>6, <1>7

\* The same for the threads of a pod that start its container: a fresh consumer thread
\* has nothing in hand.
LEMMA QuietStart ==
    ASSUME TypeOK, Positions, LostTogether, DuplicatesPaid, [Next]_vars, NEW pod \in Pods,
           ContainerStart(pod),
           UNCHANGED <<worldVars, groupVars, phase, cur, nxt, fin, sent, dups>>
    PROVE  LostTogether' /\ DuplicatesPaid'
<1>0. TypeOK'
  BY TypeStep
<1>1. CASE UNCHANGED wpc
  BY <1>1, QuietPod DEF worldVars, groupVars, Down
<1>2. ASSUME NEW w \in Workers, wpc[w] = "dead", wpc' = [wpc EXCEPT ![w] = "loop"]
      PROVE  LostTogether' /\ DuplicatesPaid'
  <2>1. /\ wpc'[w] = "loop" /\ \A v \in Workers \ {w} : wpc'[v] = wpc[v]
    BY <1>2 DEF TypeOK, WorkerTypeOK
  <2>2. \A p \in Partitions : committed[p] \in Nat /\ nxt[w][p] \in Nat
    BY DEF TypeOK, WorkerTypeOK, GroupTypeOK
  <2>3. OnlyFor({w})
    BY <2>1, <2>2, \A p \in Partitions : committed[p] <= committed[p] DEF OnlyFor, groupVars
  <2>4. Stale(w)' <=> Stale(w)
    BY DEF Stale, groupVars
  <2>5. \A p \in Partitions : owner'[p] = w => owner[p] = w /\ nxt[w][p] <= nxt'[w][p]
    BY <2>2 DEF groupVars
  <2> QED
    BY <1>0, <1>2, <2>1, <2>3, <2>4, <2>5, QuietWorker DEF worldVars, groupVars
<1> QED
  BY <1>1, <1>2 DEF ContainerStart

\* acknowledge() of the owner commits what is in hand and what is before it: none of it
\* is sent again.
LEMMA AckOkPaid ==
    ASSUME TypeOK, Positions, OwnersCaughtUp, LostTogether, DuplicatesPaid, [Next]_vars,
           NEW w \in Workers, AckOk(w)
    PROVE  LostTogether' /\ DuplicatesPaid'
<1>0. TypeOK'
  BY TypeStep
<1>1. /\ UNCHANGED <<worldVars, owner, podVars, cur, fin, ghostVars>>
      /\ wpc[w] \in {"ack", "skip"} /\ wpc'[w] = "loop" /\ owner[cur[w]] = w
      /\ \A v \in Workers \ {w} : wpc'[v] = wpc[v]
      /\ CommitInHand(w) /\ PassInHand(w)
  BY DEF AckOk, CommitInHand, TypeOK, WorkerTypeOK
<1>2. cur[w] \in Partitions /\ Place(w) = <<cur[w], nxt[w][cur[w]] + 1>>
  BY <1>1, RecordInHand DEF Busy, Place
<1>3. /\ committed'[cur[w]] = nxt[w][cur[w]] + 1
      /\ \A p \in Partitions : p # cur[w] => committed'[p] = committed[p]
      /\ \A p \in Partitions : nxt'[w][p] = IF p = cur[w] THEN nxt[w][p] + 1 ELSE nxt[w][p]
      /\ \A v \in Workers \ {w} : nxt'[v] = nxt[v]
  BY <1>1, <1>2 DEF CommitInHand, PassInHand, TypeOK, WorkerTypeOK, GroupTypeOK
<1>4. \A p \in Partitions : /\ committed[p] \in Nat /\ nxt[w][p] \in Nat
                            /\ committed[p] <= committed'[p]
  BY <1>1, <1>2, <1>3 DEF OwnersCaughtUp, TypeOK, WorkerTypeOK, GroupTypeOK
<1>5. OnlyFor({w})
  BY <1>1, <1>2, <1>3, <1>4 DEF OnlyFor
<1>6. Again' \subseteq Again
  <2> SUFFICES ASSUME NEW x \in Again', x \in sent, Place(w) = x
               PROVE  FALSE
    BY <1>0, <1>1, <1>5, RiskOfOthers DEF Again, ghostVars
  <2>1. committed'[x[1]] < x[2] /\ x[1] = cur[w] /\ x[2] = nxt[w][cur[w]] + 1
    BY <1>2 DEF Again
  <2> QED BY <1>2, <1>3, <1>4, <2>1
<1>7. Behind' \subseteq Behind
  <2> SUFFICES ASSUME NEW p \in Behind', owner'[p] = w
               PROVE  p \in Behind
    BY <1>0, <1>5, RiskOfOthers
  <2>1. p \in Partitions /\ owner[p] = w /\ nxt'[w][p] < committed'[p]
    BY <1>1 DEF Behind
  <2>2. p # cur[w]
    BY <1>3, <1>4, <2>1
  <2> QED BY <1>1, <1>3, <2>1, <2>2 DEF Behind
<1>8. ~Stale(w) /\ ~Stale(w)'
  <2>1. ~Stale(w)
    BY <1>1, <1>2 DEF LostTogether
  <2> QED BY <1>1, <1>2, <1>3, <2>1 DEF Stale
<1>9. Straying' \subseteq Straying
  BY <1>0, <1>5, <1>8, RiskOfOthers DEF Straying
<1>11. DuplicatesPaid'
  BY <1>0, <1>1, <1>6, <1>7, <1>9, NoMore DEF worldVars, ghostVars, podVars
<1>12. LostTogether'
  BY <1>0, <1>5, <1>8, RiskOfOthers, LostStep
<1> QED BY <1>11, <1>12

\* acknowledge() throws.  The worker has lost the partition, or the fault leaves one more
\* at risk: the record in hand when nothing was committed, its partition otherwise.
LEMMA AckFailsPaid ==
    ASSUME TypeOK, Positions, OwnersCaughtUp, LostTogether, DuplicatesPaid, [Next]_vars,
           NEW w \in Workers, AckFails(w)
    PROVE  LostTogether' /\ DuplicatesPaid'
<1>0. TypeOK'
  BY TypeStep
<1>1. /\ UNCHANGED <<owner, podVars, cur, nxt, fin, ghostVars>>
      /\ wpc[w] \in {"ack", "skip"} /\ wpc'[w] = "failed"
      /\ \A v \in Workers \ {w} : wpc'[v] = wpc[v]
      /\ UNCHANGED committed \/ CommitInHand(w)
      /\ \/ owner[cur[w]] # w /\ UNCHANGED <<faults, committed>>
         \/ faults' = faults + 1
  BY DEF AckFails, Fault, TypeOK, WorkerTypeOK
<1>2. cur[w] \in Partitions /\ Place(w) = <<cur[w], nxt[w][cur[w]] + 1>>
  BY <1>1, RecordInHand DEF Busy, Place
<1>3. /\ \A p \in Partitions : p # cur[w] => committed'[p] = committed[p]
      /\ \/ UNCHANGED committed
         \/ owner[cur[w]] = w /\ committed'[cur[w]] = nxt[w][cur[w]] + 1
  BY <1>1, <1>2 DEF CommitInHand, TypeOK, GroupTypeOK
<1>4. \A p \in Partitions : /\ committed[p] \in Nat /\ committed'[p] \in Nat /\ nxt[w][p] \in Nat
                            /\ committed[p] <= committed'[p]
  BY <1>0, <1>2, <1>3 DEF OwnersCaughtUp, TypeOK, WorkerTypeOK, GroupTypeOK
<1>5. OnlyFor({w})
  BY <1>1, <1>2, <1>3, <1>4 DEF OnlyFor
<1>6. Again' \subseteq Again \cup {Place(w)}
  BY <1>0, <1>1, <1>5, RiskOfOthers DEF Again, ghostVars
<1>7. committed'[cur[w]] > nxt[w][cur[w]] \/ owner[cur[w]] # w => Again' \subseteq Again
  <2> SUFFICES ASSUME committed'[cur[w]] > nxt[w][cur[w]] \/ owner[cur[w]] # w,
                      NEW x \in Again', x \in sent, Acking(w), Place(w) = x
               PROVE  FALSE
    BY <1>0, <1>1, <1>5, RiskOfOthers DEF Again, ghostVars
  <2>1. committed'[x[1]] < x[2] /\ x[1] = cur[w] /\ x[2] = nxt[w][cur[w]] + 1
    BY <1>2 DEF Again
  <2>2. committed'[cur[w]] < nxt[w][cur[w]] + 1 /\ committed'[cur[w]] > nxt[w][cur[w]]
    BY <2>1 DEF Acking
  <2> QED BY <1>2, <1>4, <2>2
<1>8. Behind' \subseteq Behind \cup {cur[w]}
  <2> SUFFICES ASSUME NEW p \in Behind', owner'[p] = w, p # cur[w]
               PROVE  p \in Behind
    BY <1>0, <1>5, RiskOfOthers
  <2>1. p \in Partitions /\ owner[p] = w /\ nxt[w][p] < committed[p]
    BY <1>1, <1>3 DEF Behind
  <2> QED BY <2>1 DEF Behind
<1>9. ~(committed'[cur[w]] > nxt[w][cur[w]]) \/ owner[cur[w]] # w => Behind' \subseteq Behind
  <2> SUFFICES ASSUME ~(committed'[cur[w]] > nxt[w][cur[w]]) \/ owner[cur[w]] # w,
                      cur[w] \in Behind'
               PROVE  cur[w] \in Behind
    BY <1>8
  <2>1. PICK v \in Workers : owner'[cur[w]] = v /\ nxt'[v][cur[w]] < committed'[cur[w]]
                             /\ ~(wpc'[v] = "ack" /\ cur'[v] = cur[w])
    BY DEF Behind
  <2>2. CASE v = w
    BY <1>1, <1>2, <1>4, <2>1, <2>2
  <2>3. CASE v # w
    <3>1. owner[cur[w]] = v /\ UNCHANGED committed
      BY <1>1, <1>3, <2>1, <2>3
    <3> QED BY <1>1, <1>2, <2>1, <2>3, <3>1 DEF Behind
  <2> QED BY <2>2, <2>3
<1>10. Straying' \subseteq Straying
  BY <1>0, <1>1, <1>5, RiskOfOthers DEF Straying
<1>11. LostTogether'
  <2>1. Stale(w)' <=> Stale(w)
    BY <1>1 DEF Stale
  <2> QED BY <1>0, <1>1, <1>5, <2>1, RiskOfOthers, LostStep DEF LostTogether
<1>12. CASE owner[cur[w]] # w
  BY <1>0, <1>1, <1>7, <1>9, <1>10, <1>11, <1>12, NoMore DEF podVars, ghostVars
<1>13. CASE faults' = faults + 1
  <2>1. /\ IsFiniteSet(Straying') /\ Cardinality(Straying') <= Cardinality(Straying)
        /\ Cardinality(Straying') \in Nat
    BY <1>10, Counted, Shrinks
  <2>2. dups' = dups /\ dups \in Nat /\ UNCHANGED phase
    BY <1>1 DEF podVars, ghostVars, TypeOK, GhostTypeOK
  <2>3. CASE committed'[cur[w]] > nxt[w][cur[w]]
    <3>1. /\ IsFiniteSet(Again') /\ Cardinality(Again') <= Cardinality(Again)
          /\ Cardinality(Again') \in Nat
      BY <1>7, <2>3, Counted, Shrinks
    <3>2. /\ IsFiniteSet(Behind') /\ Cardinality(Behind') <= Cardinality(Behind) + 1
          /\ Cardinality(Behind') \in Nat
      BY <1>8, Counted, Gains
    <3>3. dups' + Cardinality(Again') + Cardinality(Behind') + Cardinality(Straying')
             <= dups + Cardinality(Again) + Cardinality(Behind) + Cardinality(Straying) + 1
      BY <2>1, <2>2, <3>1, <3>2, Counted
    <3> QED BY <1>0, <1>2, <1>11, <1>13, <2>1, <2>2, <3>1, <3>2, <3>3, OneMore
  <2>4. CASE ~(committed'[cur[w]] > nxt[w][cur[w]])
    <3>1. /\ IsFiniteSet(Again') /\ Cardinality(Again') <= Cardinality(Again) + 1
          /\ Cardinality(Again') \in Nat
      BY <1>6, Counted, Gains
    <3>2. /\ IsFiniteSet(Behind') /\ Cardinality(Behind') <= Cardinality(Behind)
          /\ Cardinality(Behind') \in Nat
      BY <1>9, <2>4, Counted, Shrinks
    <3>3. dups' + Cardinality(Again') + Cardinality(Behind') + Cardinality(Straying')
             <= dups + Cardinality(Again) + Cardinality(Behind) + Cardinality(Straying) + 1
      BY <2>1, <2>2, <3>1, <3>2, Counted
    <3> QED BY <1>0, <1>2, <1>11, <1>13, <2>1, <2>2, <3>1, <3>2, <3>3, OneMore
  <2> QED BY <2>3, <2>4
<1> QED
  BY <1>1, <1>12, <1>13

\* What a forward that goes wrong, or right, leaves at risk of all the others.
LEMMA SendRisk ==
    ASSUME TypeOK, Positions, LostTogether, DuplicatesPaid, [Next]_vars,
           NEW w \in Workers, SendOk(w) \/ SendFails(w)
    PROVE  /\ TypeOK' /\ LostTogether' /\ UNCHANGED phase
           /\ cur[w] \in Partitions /\ Place(w) = <<cur[w], nxt[w][cur[w]] + 1>>
           /\ nxt[w][cur[w]] < fin[w][cur[w]] /\ nxt[w][cur[w]] \in Nat
           /\ Again' \subseteq Again \cup {Place(w)}
           /\ Place(w) \in sent \/ UNCHANGED sent => Again' \subseteq Again
           /\ Behind' \subseteq Behind
           /\ Straying' \subseteq Straying
           /\ dups \in Nat /\ (dups' = dups \/ (Place(w) \in sent /\ dups' = dups + 1))
           /\ sent' = sent \/ sent' = sent \cup {Place(w)}
           /\ wpc[w] = "send" /\ wpc'[w] # "send" /\ UNCHANGED <<committed, owner, cur, nxt, fin>>
<1>1. /\ UNCHANGED <<groupVars, podVars, cur, nxt, fin>>
      /\ wpc[w] = "send" /\ wpc'[w] \in {"ack", "failed"}
      /\ \A v \in Workers \ {w} : wpc'[v] = wpc[v]
      /\ sent' = sent \/ sent' = sent \cup {Place(w)}
      /\ dups' = dups \/ (Place(w) \in sent /\ dups' = dups + 1)
  BY DEF SendOk, SendFails, Forward, TypeOK, WorkerTypeOK
<1>2. /\ cur[w] \in Partitions /\ Place(w) = <<cur[w], nxt[w][cur[w]] + 1>>
      /\ nxt[w][cur[w]] < fin[w][cur[w]] /\ nxt[w][cur[w]] \in Nat
  BY <1>1, RecordInHand DEF Busy, Place
<1>3. TypeOK'
  BY TypeStep
<1>4. OnlyFor({w})
  <2>1. \A p \in Partitions : committed[p] <= committed'[p]
    BY <1>1 DEF groupVars, TypeOK, GroupTypeOK
  <2> QED BY <1>1, <2>1 DEF OnlyFor, groupVars
<1>5. /\ Again' \subseteq Again \cup {Place(w)}
      /\ Place(w) \in sent \/ UNCHANGED sent => Again' \subseteq Again
  <2>1. \A x \in Again' : x \in sent'
    BY DEF Again
  <2> QED BY <1>1, <1>3, <1>4, <2>1, RiskOfOthers DEF Acking
<1>6. Behind' \subseteq Behind
  <2> SUFFICES ASSUME NEW p \in Behind', owner'[p] = w
               PROVE  p \in Behind
    BY <1>3, <1>4, RiskOfOthers
  <2>1. p \in Partitions /\ owner[p] = w /\ nxt[w][p] < committed[p]
    BY <1>1 DEF Behind, groupVars
  <2> QED BY <1>1, <2>1 DEF Behind
<1>7. Stale(w)' <=> Stale(w)
  BY <1>1 DEF Stale, groupVars
<1>8. Straying' \subseteq Straying
  BY <1>1, <1>3, <1>4, <1>7, RiskOfOthers DEF Straying
<1>9. LostTogether'
  BY <1>1, <1>3, <1>4, <1>7, RiskOfOthers, LostStep DEF LostTogether, groupVars
<1> QED
  BY <1>1, <1>2, <1>3, <1>5, <1>6, <1>8, <1>9 DEF groupVars, podVars, TypeOK, GhostTypeOK

\* A send that throws: the record may be in the retry topic already, for the first time or
\* once more.
LEMMA SendFailsPaid ==
    ASSUME TypeOK, Positions, LostTogether, DuplicatesPaid, [Next]_vars,
           NEW w \in Workers, SendFails(w)
    PROVE  LostTogether' /\ DuplicatesPaid'
<1>1. /\ IsFiniteSet(Behind') /\ Cardinality(Behind') <= Cardinality(Behind)
      /\ IsFiniteSet(Straying') /\ Cardinality(Straying') <= Cardinality(Straying)
      /\ Cardinality(Behind') \in Nat /\ Cardinality(Straying') \in Nat
  BY SendRisk, Counted, Shrinks
<1>2. /\ IsFiniteSet(Again') /\ Cardinality(Again') \in Nat
      /\ dups' + Cardinality(Again') <= dups + Cardinality(Again) + 1
  <2>1. CASE Place(w) \in sent
    <3>1. /\ IsFiniteSet(Again') /\ Cardinality(Again') <= Cardinality(Again)
          /\ Cardinality(Again') \in Nat
      BY <2>1, SendRisk, Counted, Shrinks
    <3> QED BY <3>1, SendRisk, Counted
  <2>2. CASE Place(w) \notin sent
    <3>1. /\ IsFiniteSet(Again') /\ Cardinality(Again') <= Cardinality(Again) + 1
          /\ Cardinality(Again') \in Nat
      BY SendRisk, Counted, Gains
    <3> QED BY <2>2, <3>1, SendRisk, Counted
  <2> QED BY <2>1, <2>2
<1>3. dups' + Cardinality(Again') + Cardinality(Behind') + Cardinality(Straying')
         <= dups + Cardinality(Again) + Cardinality(Behind) + Cardinality(Straying) + 1
  <2>1. dups \in Nat /\ dups' \in Nat
    BY SendRisk
  <2> QED BY <1>1, <1>2, <2>1, Counted
<1>4. faults' = faults + 1 /\ cur[w] \in Partitions
  BY SendRisk DEF SendFails, Fault
<1> QED
  BY <1>1, <1>2, <1>3, <1>4, OneMore, SendRisk

\* A send that returns.  The owner of its partition is about to acknowledge the record: a
\* duplicate was at risk and is so no longer.  A worker that has lost the partition has
\* used up what was left to it.
LEMMA SendOkPaid ==
    ASSUME TypeOK, Positions, LostTogether, DuplicatesPaid, [Next]_vars,
           NEW w \in Workers, SendOk(w)
    PROVE  LostTogether' /\ DuplicatesPaid'
<1>1. /\ cur[w] \in Partitions /\ dups \in Nat /\ wpc[w] = "send" /\ wpc'[w] = "ack"
      /\ faults' = faults /\ sent' = sent \cup {Place(w)}
      /\ dups' = IF Place(w) \in sent THEN dups + 1 ELSE dups
      /\ UNCHANGED <<committed, owner, cur, nxt, fin, phase>>
      /\ Place(w) = <<cur[w], nxt[w][cur[w]] + 1>> /\ nxt[w][cur[w]] \in Nat
      /\ committed[cur[w]] \in Nat
  BY SendRisk DEF SendOk, Forward, TypeOK, WorkerTypeOK, GroupTypeOK
<1>2. /\ IsFiniteSet(Behind') /\ Cardinality(Behind') <= Cardinality(Behind)
      /\ IsFiniteSet(Straying') /\ Cardinality(Straying') <= Cardinality(Straying)
      /\ Cardinality(Behind') \in Nat /\ Cardinality(Straying') \in Nat
  BY SendRisk, Counted, Shrinks
<1>3. CASE owner[cur[w]] = w
  <2>1. Again' \subseteq Again \ {Place(w)}
    <3>1. Acknowledging(Place(w))'
      BY <1>1, <1>3 DEF Acknowledging, Place
    <3>2. Place(w) \notin Again'
      BY <1>1, <3>1 DEF Again, Acknowledging, Place
    <3> QED BY <3>2, SendRisk
  <2>2. Behind' \subseteq Behind \ {cur[w]}
    <3>1. cur[w] \notin Behind'
      BY <1>1, <1>3 DEF Behind
    <3> QED BY <3>1, SendRisk
  <2>3. CASE Place(w) \notin sent
    <3>1. /\ IsFiniteSet(Again') /\ Cardinality(Again') <= Cardinality(Again)
          /\ Cardinality(Again') \in Nat
      BY <2>1, Counted, Shrinks
    <3>2. dups' + Cardinality(Again') + Cardinality(Behind') + Cardinality(Straying')
             <= dups + Cardinality(Again) + Cardinality(Behind) + Cardinality(Straying)
      BY <1>1, <1>2, <2>3, <3>1, Counted
    <3> QED BY <1>1, <1>2, <3>1, <3>2, Budgeted, SendRisk
  <2>4. CASE Place(w) \in sent /\ committed[cur[w]] <= nxt[w][cur[w]]
    <3>1. Place(w) \in Again
      <4>1. committed[Place(w)[1]] < Place(w)[2]
        BY <1>1, <2>4
      <4>2. ASSUME Acknowledging(Place(w)) PROVE FALSE
        <5>1. PICK v \in Workers : wpc[v] = "ack" /\ owner[cur[v]] = v /\ Place(v) = Place(w)
          BY <4>2 DEF Acknowledging
        <5>2. cur[v] = cur[w]
          BY <5>1 DEF Place
        <5> QED BY <1>1, <1>3, <5>1, <5>2
      <4> QED BY <2>4, <4>1, <4>2 DEF Again
    <3>2. /\ IsFiniteSet(Again') /\ Cardinality(Again') + 1 <= Cardinality(Again)
          /\ Cardinality(Again') \in Nat
      BY <2>1, <3>1, Counted, Loses
    <3>3. dups' + Cardinality(Again') + Cardinality(Behind') + Cardinality(Straying')
             <= dups + Cardinality(Again) + Cardinality(Behind) + Cardinality(Straying)
      BY <1>1, <1>2, <2>4, <3>2, Counted
    <3> QED BY <1>1, <1>2, <3>2, <3>3, Budgeted, SendRisk
  <2>5. CASE Place(w) \in sent /\ ~(committed[cur[w]] <= nxt[w][cur[w]])
    <3>1. cur[w] \in Behind
      BY <1>1, <1>3, <2>5 DEF Behind
    <3>2. /\ IsFiniteSet(Behind') /\ Cardinality(Behind') + 1 <= Cardinality(Behind)
      BY <2>2, <3>1, Counted, Loses
    <3>3. /\ IsFiniteSet(Again') /\ Cardinality(Again') <= Cardinality(Again)
          /\ Cardinality(Again') \in Nat
      BY <2>1, Counted, Shrinks
    <3>4. dups' + Cardinality(Again') + Cardinality(Behind') + Cardinality(Straying')
             <= dups + Cardinality(Again) + Cardinality(Behind) + Cardinality(Straying)
      BY <1>1, <1>2, <2>5, <3>2, <3>3, Counted
    <3> QED BY <1>1, <1>2, <3>3, <3>4, Budgeted, SendRisk
  <2> QED BY <2>3, <2>4, <2>5
<1>4. CASE owner[cur[w]] # w
  <2>1. w \in Straying
    BY <1>1, <1>4, SendRisk DEF Straying, Stale
  <2>2. Straying' \subseteq Straying \ {w}
    <3>1. w \notin Straying'
      BY <1>1 DEF Straying
    <3> QED BY <3>1, SendRisk
  <2>3. IsFiniteSet(Straying') /\ Cardinality(Straying') + 1 <= Cardinality(Straying)
    BY <2>1, <2>2, Counted, Loses
  <2>4. /\ IsFiniteSet(Again') /\ Cardinality(Again') \in Nat
        /\ dups' + Cardinality(Again') <= dups + Cardinality(Again) + 1
    <3>1. CASE Place(w) \in sent
      <4>1. /\ IsFiniteSet(Again') /\ Cardinality(Again') <= Cardinality(Again)
            /\ Cardinality(Again') \in Nat
        BY <3>1, SendRisk, Counted, Shrinks
      <4> QED BY <1>1, <3>1, <4>1, Counted
    <3>2. CASE Place(w) \notin sent
      <4>1. /\ IsFiniteSet(Again') /\ Cardinality(Again') <= Cardinality(Again) + 1
            /\ Cardinality(Again') \in Nat
        BY SendRisk, Counted, Gains
      <4> QED BY <1>1, <3>2, <4>1, Counted
    <3> QED BY <3>1, <3>2
  <2>5. dups' + Cardinality(Again') + Cardinality(Behind') + Cardinality(Straying')
           <= dups + Cardinality(Again) + Cardinality(Behind) + Cardinality(Straying)
    <3>1. dups' \in Nat
      BY <1>1
    <3> QED BY <1>1, <1>2, <2>3, <2>4, <3>1, Counted
  <2> QED BY <1>1, <1>2, <2>4, <2>5, Budgeted, SendRisk
<1> QED
  BY <1>3, <1>4

\* An eviction takes every partition of a worker: what it is about to acknowledge, or what
\* it goes on with, is at risk.
LEMMA EvictPaid ==
    ASSUME TypeOK, Positions, LostTogether, DuplicatesPaid, [Next]_vars,
           NEW w \in Workers, Evict(w)
    PROVE  LostTogether' /\ DuplicatesPaid'
<1>0. TypeOK'
  BY TypeStep
<1>1. /\ UNCHANGED <<committed, podVars, workerVars, ghostVars>>
      /\ faults' = faults + 1
      /\ \A p \in Partitions : owner'[p] = IF owner[p] = w THEN None ELSE owner[p]
      /\ None \notin Workers
  BY RouterAssumption DEF Evict, Fault
<1>2. PICK p \in Partitions : owner[p] = w
  BY DEF Evict
<1>3. OnlyFor({w})
  <2>1. \A q \in Partitions : committed[q] <= committed'[q]
    BY <1>1 DEF TypeOK, GroupTypeOK
  <2> QED BY <1>1, <2>1 DEF OnlyFor, workerVars
<1>4. \A q \in Partitions : owner'[q] # w
  BY <1>1
<1>5. Behind' \subseteq Behind
  <2> SUFFICES ASSUME NEW q \in Behind', owner'[q] = w PROVE FALSE
    BY <1>0, <1>3, RiskOfOthers
  <2> QED BY <1>4 DEF Behind
<1>6. LostTogether'
  BY <1>0, <1>3, <1>4, RiskOfOthers, LostStep
<1>7. dups' = dups /\ dups \in Nat /\ UNCHANGED phase
  BY <1>1 DEF podVars, ghostVars, TypeOK, GhostTypeOK
<1>8. /\ IsFiniteSet(Behind') /\ Cardinality(Behind') <= Cardinality(Behind)
      /\ Cardinality(Behind') \in Nat
  BY <1>5, Counted, Shrinks
<1>9. CASE wpc[w] = "ack"
  <2>1. Again' \subseteq Again \cup {Place(w)}
    BY <1>0, <1>1, <1>3, RiskOfOthers DEF Again, ghostVars
  <2>2. Straying' \subseteq Straying
    BY <1>0, <1>1, <1>3, <1>9, RiskOfOthers DEF Straying, workerVars
  <2>3. /\ IsFiniteSet(Again') /\ Cardinality(Again') <= Cardinality(Again) + 1
        /\ Cardinality(Again') \in Nat
    BY <2>1, Counted, Gains
  <2>4. /\ IsFiniteSet(Straying') /\ Cardinality(Straying') <= Cardinality(Straying)
        /\ Cardinality(Straying') \in Nat
    BY <2>2, Counted, Shrinks
  <2>5. dups' + Cardinality(Again') + Cardinality(Behind') + Cardinality(Straying')
           <= dups + Cardinality(Again) + Cardinality(Behind) + Cardinality(Straying) + 1
    BY <1>7, <1>8, <2>3, <2>4, Counted
  <2> QED BY <1>0, <1>1, <1>2, <1>6, <1>7, <1>8, <2>3, <2>4, <2>5, OneMore
<1>10. CASE wpc[w] # "ack"
  <2>1. Again' \subseteq Again
    BY <1>0, <1>1, <1>3, <1>10, RiskOfOthers DEF Again, Acking, ghostVars
  <2>2. Straying' \subseteq Straying \cup {w}
    BY <1>0, <1>3, RiskOfOthers
  <2>3. /\ IsFiniteSet(Again') /\ Cardinality(Again') <= Cardinality(Again)
        /\ Cardinality(Again') \in Nat
    BY <2>1, Counted, Shrinks
  <2>4. /\ IsFiniteSet(Straying') /\ Cardinality(Straying') <= Cardinality(Straying) + 1
        /\ Cardinality(Straying') \in Nat
    BY <2>2, Counted, Gains
  <2>5. dups' + Cardinality(Again') + Cardinality(Behind') + Cardinality(Straying')
           <= dups + Cardinality(Again) + Cardinality(Behind) + Cardinality(Straying) + 1
    BY <1>7, <1>8, <2>3, <2>4, Counted
  <2> QED BY <1>0, <1>1, <1>2, <1>6, <1>7, <1>8, <2>3, <2>4, <2>5, OneMore
<1> QED
  BY <1>9, <1>10

\* What the end of some workers puts at risk: the records they were about to acknowledge.
LEMMA BuryRisk ==
    ASSUME TypeOK, Positions, LostTogether, [Next]_vars, NEW ws \in SUBSET Workers, Bury(ws),
           UNCHANGED <<committed, ghostVars>>
    PROVE  /\ LostTogether'
           /\ Again' \subseteq Again \cup {Place(w) : w \in {v \in ws : Acking(v)}}
           /\ Behind' \subseteq Behind
           /\ Straying' \subseteq Straying
<1>0. TypeOK'
  BY TypeStep
<1>1. /\ \A p \in Partitions : owner'[p] = IF owner[p] \in ws THEN None ELSE owner[p]
      /\ \A p \in Partitions : owner'[p] \notin ws
      /\ None \notin Workers
  BY RouterAssumption DEF Bury
<1>2. OnlyFor(ws)
  <2>1. \A p \in Partitions : committed[p] <= committed'[p]
    BY DEF TypeOK, GroupTypeOK
  <2>2. \A v \in Workers \ ws :
           wpc'[v] = wpc[v] /\ cur'[v] = cur[v] /\ nxt'[v] = nxt[v] /\ fin'[v] = fin[v]
    BY DEF Bury
  <2> QED BY <1>1, <2>1, <2>2 DEF OnlyFor
<1>3. \A w \in ws : ~Stale(w)'
  <2>1. \A w \in ws : nxt'[w] = Nowhere /\ fin'[w] = Nowhere
    BY DEF Bury
  <2> QED BY <2>1 DEF Stale, Nowhere
<1>4. Again' \subseteq Again \cup {Place(w) : w \in {v \in ws : Acking(v)}}
  BY <1>0, <1>2, RiskOfOthers DEF Again, ghostVars
<1>5. Behind' \subseteq Behind
  BY <1>0, <1>1, <1>2, RiskOfOthers DEF Behind
<1>6. Straying' \subseteq Straying
  BY <1>0, <1>2, <1>3, RiskOfOthers DEF Straying
<1>7. LostTogether'
  BY <1>0, <1>2, <1>3, RiskOfOthers, LostStep
<1> QED
  BY <1>4, <1>5, <1>6, <1>7

\* The thread of a stopped container ends with nothing in hand.
LEMMA ExitPaid ==
    ASSUME TypeOK, Positions, LostTogether, DuplicatesPaid, [Next]_vars,
           NEW w \in Workers, Exit(w)
    PROVE  LostTogether' /\ DuplicatesPaid'
<1>1. /\ Bury({w}) /\ UNCHANGED <<worldVars, committed, podVars, ghostVars>> /\ wpc[w] = "loop"
  BY DEF Exit
<1>2. {v \in {w} : Acking(v)} = {}
  BY <1>1 DEF Acking
<1>3. Again' \subseteq Again /\ Behind' \subseteq Behind /\ Straying' \subseteq Straying
  BY <1>1, <1>2, BuryRisk
<1> QED
  BY <1>1, <1>3, BuryRisk, NoMore, TypeStep DEF worldVars, podVars, ghostVars

\* A process ends, and a new one begins: the fault that killed it, or the shutdown that
\* ended it, pays for the records its threads were about to acknowledge.
LEMMA FreshProcessPaid ==
    ASSUME TypeOK, Positions, LostTogether, DuplicatesPaid, [Next]_vars,
           NEW pod \in Pods, Restart(pod) \/ Crash(pod)
    PROVE  LostTogether' /\ DuplicatesPaid'
<1> DEFINE ws == {w \in Workers : PodOf(w) = pod}
           K == {w \in ws : Acking(w)}
           P == {Place(w) : w \in K}
<1>0. TypeOK'
  BY TypeStep
<1>1. /\ Bury(ws) /\ UNCHANGED <<committed, ghostVars>>
      /\ phase' = [phase EXCEPT ![pod] = "up"]
      /\ (faults' = faults /\ phase[pod] = "down") \/ faults' = faults + 1
  BY DEF Restart, Crash, FreshProcess, Fault
<1>2. \A w \in K : PodOf(w) = pod /\ cur[w] \in Partitions /\ owner[cur[w]] = w
  BY RecordInHand DEF Acking, Busy
<1>3. IsFiniteSet(P) /\ Cardinality(P) <= Together
  BY <1>2, PlacesTogether
<1>4. /\ LostTogether' /\ Again' \subseteq Again \cup P
      /\ Behind' \subseteq Behind /\ Straying' \subseteq Straying
  BY <1>1, BuryRisk
<1> HIDE DEF P
<1>5. /\ IsFiniteSet(Again') /\ Cardinality(Again') <= Cardinality(Again) + Together
      /\ Cardinality(Again') \in Nat
  <2>1. /\ IsFiniteSet(Again \cup P)
        /\ Cardinality(Again \cup P)
              = Cardinality(Again) + Cardinality(P) - Cardinality(Again \cap P)
        /\ Cardinality(Again \cap P) \in Nat /\ Cardinality(P) \in Nat
    BY <1>3, Counted, FS_Union, FS_Intersection, FS_CardinalityType
  <2>2. /\ IsFiniteSet(Again') /\ Cardinality(Again') <= Cardinality(Again \cup P)
        /\ Cardinality(Again') \in Nat
    BY <1>4, <2>1, Shrinks
  <2>3. Together \in Nat
    BY TogetherIsANumber
  <2> QED BY <1>3, <2>1, <2>2, <2>3, Counted
<1>6. /\ IsFiniteSet(Behind') /\ Cardinality(Behind') <= Cardinality(Behind)
      /\ Cardinality(Behind') \in Nat
      /\ IsFiniteSet(Straying') /\ Cardinality(Straying') <= Cardinality(Straying)
      /\ Cardinality(Straying') \in Nat
  BY <1>4, Counted, Shrinks
<1>7. /\ Down' = Down \ {pod} /\ IsFiniteSet(Down')
      /\ Cardinality(Down) \in Nat /\ Cardinality(Down') \in Nat
      /\ Cardinality(Down') <= Cardinality(Down)
      /\ pod \in Down => Cardinality(Down') = Cardinality(Down) - 1
  <2>1. Down' = Down \ {pod}
    BY <1>1 DEF Down, TypeOK, PodTypeOK
  <2>2. IsFiniteSet(Down) /\ Cardinality(Down) \in Nat
    BY FS_CardinalityType DEF DuplicatesPaid
  <2> QED BY <2>1, <2>2, FS_RemoveElement, Shrinks
<1>8. /\ dups' = dups /\ dups \in Nat /\ faults \in Nat /\ Together \in Nat
      /\ \/ faults' = faults /\ Cardinality(Down') = Cardinality(Down) - 1
         \/ faults' = faults + 1
  BY <1>1, <1>7, TogetherIsANumber DEF ghostVars, Down, TypeOK, WorldTypeOK, GhostTypeOK
<1>9. ASSUME NEW a \in Nat, NEW b \in Nat, a <= b
      PROVE  /\ a * Together <= b * Together /\ a * Together \in Nat /\ b * Together \in Nat
             /\ (a + 1) * Together = a * Together + Together
  <2>1. PICK d \in Nat : b = a + d
    BY <1>9, b - a \in Nat
  <2>2. b * Together = a * Together + d * Together
    BY <1>8, <2>1
  <2>3. a * Together \in Nat /\ d * Together \in Nat
    BY <1>8
  <2>4. (a + 1) * Together = a * Together + Together
    BY <1>8
  <2> QED BY <2>2, <2>3, <2>4
<1>10. dups' + Cardinality(Again') + Cardinality(Behind') + Cardinality(Straying')
          <= dups + Cardinality(Again) + Cardinality(Behind) + Cardinality(Straying) + Together
  BY <1>5, <1>6, <1>8, Counted
<1>11. Cardinality(Down') * Together + faults * Together + Together
          <= Cardinality(Down) * Together + faults' * Together
  <2>1. CASE Cardinality(Down') = Cardinality(Down) - 1 /\ faults' = faults
    <3>1. Cardinality(Down) = Cardinality(Down') + 1
      BY <1>7, <2>1
    <3>2. Cardinality(Down) * Together = Cardinality(Down') * Together + Together
      BY <1>7, <1>9, <3>1
    <3> QED BY <1>7, <1>8, <1>9, <2>1, <3>2
  <2>2. CASE faults' = faults + 1
    <3>1. faults' * Together = faults * Together + Together
      BY <1>8, <1>9, <2>2
    <3>2. /\ Cardinality(Down') * Together <= Cardinality(Down) * Together
          /\ Cardinality(Down') * Together \in Nat /\ Cardinality(Down) * Together \in Nat
      BY <1>7, <1>9
    <3>3. faults * Together \in Nat
      BY <1>8
    <3> QED BY <1>8, <3>1, <3>2, <3>3
  <2> QED BY <1>8, <2>1, <2>2
<1>12. DuplicatesPaid'
  <2>1. /\ Cardinality(Down') * Together \in Nat /\ Cardinality(Down) * Together \in Nat
        /\ faults * Together \in Nat /\ faults' * Together \in Nat
    BY <1>7, <1>8
  <2> QED
    BY <1>5, <1>6, <1>7, <1>8, <1>10, <1>11, <2>1, Counted DEF DuplicatesPaid, Together
<1> QED
  BY <1>4, <1>12

\* A shutdown is paid for when it begins, for what the end of the process leaves behind.
LEMMA DestroyPaid ==
    ASSUME TypeOK, Positions, LostTogether, DuplicatesPaid, [Next]_vars,
           NEW pod \in Pods, DestroyBegin(pod)
    PROVE  LostTogether' /\ DuplicatesPaid'
<1>1. /\ UNCHANGED <<groupVars, workerVars, sent, dups>> /\ faults' = faults + 1
      /\ phase' = [phase EXCEPT ![pod] = "stop"]
  BY DEF DestroyBegin, Fault, ghostVars
<1>2. Down' \subseteq Down \cup {pod}
  BY <1>1 DEF Down, TypeOK, PodTypeOK
<1>3. /\ Again' = Again /\ Behind' = Behind
      /\ \A w \in Workers : Stale(w)' <=> Stale(w)
  BY <1>1 DEF Again, Acknowledging, Place, Behind, Stale, groupVars, workerVars
<1>4. Straying' = Straying
  BY <1>1, <1>3 DEF Straying, workerVars
<1>5. LostTogether'
  BY <1>1, <1>3 DEF LostTogether, groupVars
<1>6. /\ IsFiniteSet(Down') /\ Cardinality(Down') <= Cardinality(Down) + 1
      /\ Cardinality(Down') \in Nat /\ Cardinality(Down) \in Nat
  BY <1>2, Gains, FS_CardinalityType DEF DuplicatesPaid
<1>7. /\ dups \in Nat /\ faults \in Nat /\ Together \in Nat
  BY TogetherIsANumber DEF TypeOK, WorldTypeOK, GhostTypeOK
<1>8. Cardinality(Down') * Together <= Cardinality(Down) * Together + Together
  <2>1. PICK d \in Nat : Cardinality(Down) + 1 = Cardinality(Down') + d
    BY <1>6, Cardinality(Down) + 1 - Cardinality(Down') \in Nat
  <2>2. (Cardinality(Down) + 1) * Together = Cardinality(Down) * Together + Together
    BY <1>6, <1>7
  <2>3. (Cardinality(Down') + d) * Together = Cardinality(Down') * Together + d * Together
    BY <1>6, <1>7
  <2>4. d * Together \in Nat /\ Cardinality(Down') * Together \in Nat
    BY <1>6, <1>7
  <2> QED BY <1>6, <1>7, <2>1, <2>2, <2>3, <2>4
<1>9. faults' * Together = faults * Together + Together /\ faults * Together \in Nat
  BY <1>1, <1>7
<1>10. /\ Cardinality(Down') * Together \in Nat /\ Cardinality(Down) * Together \in Nat
  BY <1>6, <1>7
<1>11. DuplicatesPaid'
  BY <1>1, <1>3, <1>4, <1>6, <1>7, <1>8, <1>9, <1>10, Counted DEF DuplicatesPaid, Together
<1> QED
  BY <1>5, <1>11

\* Whatever step is taken, duplicates stay paid for.
LEMMA DuplicatesStep ==
    ASSUME TypeOK, Positions, DupInv, [Next]_vars
    PROVE  DupInv'
<1> USE DEF DupInv
<1>1. CASE World \/ UNCHANGED vars
  <2>1. /\ UNCHANGED <<groupVars, podVars, workerVars, ghostVars, faults>>
    BY <1>1 DEF World, WorldNext, Tick, MessageFails, RetrySucceeds, RetryFails, vars, worldVars
  <2> QED BY <2>1, QuietPod, OwnersStep DEF groupVars, podVars, workerVars, ghostVars, Down
<1>2. ASSUME NEW pod \in Pods,
             \/ StartSetCutoff(pod) \/ StartCheck(pod) \/ CronCheck(pod) \/ CronSetCutoff(pod)
             \/ DestroyStop(pod) \/ DestroyReturns(pod)
      PROVE  DupInv'
  <2>1. UNCHANGED <<worldVars, groupVars, wpc, cur, nxt, fin, sent, dups>>
    BY <1>2 DEF StartSetCutoff, StartCheck, CronCheck, CronSetCutoff, DestroyStop,
                DestroyReturns, workerVars, ghostVars
  <2>2. Down' = Down
    <3>1. CASE UNCHANGED phase
      BY <3>1 DEF Down
    <3>2. CASE phase[pod] # "up" /\ \E v \in {"wait", "down"} : phase' = [phase EXCEPT ![pod] = v]
      BY <3>2 DEF Down, TypeOK, PodTypeOK
    <3> QED
      BY <1>2, <3>1, <3>2 DEF StartSetCutoff, StartCheck, CronCheck, CronSetCutoff,
                              DestroyStop, DestroyReturns
  <2> QED BY <2>1, <2>2, QuietPod, OwnersStep DEF worldVars, groupVars
<1>3. ASSUME NEW pod \in Pods, StartContainer(pod) \/ CronStart(pod)
      PROVE  DupInv'
  <2>1. /\ ContainerStart(pod)
        /\ UNCHANGED <<worldVars, groupVars, phase, cur, nxt, fin, sent, dups>>
    BY <1>3 DEF StartContainer, CronStart, ghostVars
  <2> QED BY <2>1, QuietStart, OwnersStep
<1>4. ASSUME NEW pod \in Pods, Restart(pod) \/ Crash(pod) \/ DestroyBegin(pod)
      PROVE  DupInv'
  BY <1>4, FreshProcessPaid, DestroyPaid, OwnersStep
<1>5. ASSUME NEW w \in Workers,
             \/ StopAtCutoff(w) \/ StopReturns(w) \/ Idle(w) \/ IdleStop(w) \/ Poll(w)
             \/ HandleError(w)
             \/ \E p \in Partitions : Deliver(w, p) \/ Assign(w, p) \/ Revoke(w, p)
      PROVE  DupInv'
  BY <1>5, QuietSteps, OwnersStep
<1>6. ASSUME NEW w \in Workers,
             Exit(w) \/ AckOk(w) \/ AckFails(w) \/ SendOk(w) \/ SendFails(w) \/ Evict(w)
      PROVE  DupInv'
  BY <1>6, ExitPaid, AckOkPaid, AckFailsPaid, SendOkPaid, SendFailsPaid, EvictPaid, OwnersStep
<1> QED
  BY <1>1, <1>2, <1>3, <1>4, <1>5, <1>6
     DEF Next, ApiStep, CronStep, ShutdownStep, PodEvent, WorkerStep, WorkerEvent

\* A record is forwarded a second time only when something went wrong between its send and
\* its commit, and then no more records than the threads that it went wrong for: start(),
\* cutoffs, idle stops, scheduledRestart() and rebalances duplicate nothing (routeRecord,
\* destroy, the error handler).
THEOREM DuplicatesPaidByFaultsAlways == Spec => []DuplicatesPaidByFaults
<1>1. Init => DupInv
  <2> SUFFICES ASSUME Init PROVE DupInv
    OBVIOUS
  <2>1. OwnersCaughtUp /\ LostTogether
    BY RouterAssumption DEF Init, OwnersCaughtUp, LostTogether, Stale, Nowhere
  <2>2. Again = {} /\ Behind = {} /\ Straying = {} /\ Down = {}
    BY RouterAssumption DEF Init, Again, Behind, Straying, Stale, Down, Nowhere
  <2>3. dups = 0 /\ faults = 0 /\ Together \in Nat /\ 0 * Together = 0
    BY TogetherIsANumber DEF Init, WorldInit
  <2> QED BY <2>1, <2>2, <2>3, FS_EmptySet DEF DupInv, DuplicatesPaid
<1>2. TypeOK /\ Positions /\ DupInv /\ [Next]_vars => DupInv'
  BY DuplicatesStep
<1>3. TypeOK /\ DupInv => DuplicatesPaidByFaults
  <2> SUFFICES ASSUME TypeOK, DupInv PROVE DuplicatesPaidByFaults
    OBVIOUS
  <2>1. /\ Cardinality(Down) \in Nat /\ dups \in Nat /\ faults \in Nat /\ Together \in Nat
    BY TogetherIsANumber, FS_CardinalityType
       DEF DupInv, DuplicatesPaid, TypeOK, WorldTypeOK, GhostTypeOK
  <2>2. Cardinality(Down) * Together \in Nat /\ faults * Together \in Nat
    BY <2>1
  <2> QED BY <2>1, <2>2, Counted DEF DupInv, DuplicatesPaid, DuplicatesPaidByFaults
<1> QED
  BY <1>1, <1>2, <1>3, TypeCorrect, PTL DEF Spec

===============================================================================
