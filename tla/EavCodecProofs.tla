--------------------------- MODULE EavCodecProofs ---------------------------
(* What TLAPS proves about the packets of the Java client, for any entities *)
(* with any attributes, any ids and commands, and any reach of the CRC.     *)
EXTENDS EavCodec, SequenceTheorems, FiniteSetTheorems, WellFoundedInduction, TLAPS

-----------------------------------------------------------------------------
(* Induction over a set of numbers: the provers cannot instantiate a theorem *)
(* with an operator for a parameter, a set they can.                        *)

\* A set that holds 0, and n + 1 with n, holds every number.  The least number outside
\* it would give a least one of the sets 0..n, but strict inclusion is well-founded on
\* finite sets.
LEMMA SetInduction ==
  ASSUME NEW P, 0 \in P, \A n \in Nat : n \in P => n + 1 \in P
  PROVE  Nat \subseteq P
<1> DEFINE Bad == {n \in Nat : n \notin P}
           Sets == {0..n : n \in Bad}
<1> SUFFICES ASSUME NEW b \in Bad PROVE FALSE
  OBVIOUS
<1>1. Sets \subseteq FiniteSubsetsOf(Nat) /\ Sets # {}
  <2>1. ASSUME NEW n \in Nat PROVE IsFiniteSet(0..n)
    BY FS_Interval
  <2> QED BY <2>1 DEF FiniteSubsetsOf
<1>2. PICK I \in Sets : \A J \in Sets : ~(<<J, I>> \in StrictSubsetOrdering(Nat))
  <2> HIDE DEF Sets
  <2> QED BY <1>1, FS_StrictSubsetOrderingWellFounded, WFMin
<1>3. PICK n \in Bad : I = 0..n
  OBVIOUS
<1>4. n # 0 /\ n - 1 \in Bad
  OBVIOUS
<1>5. <<0..(n - 1), 0..n>> \in StrictSubsetOrdering(Nat)
  <2>1. 0..(n - 1) \in SUBSET Nat /\ 0..n \in SUBSET Nat
    BY <1>4
  <2>2. 0..(n - 1) \subseteq 0..n /\ n \in 0..n /\ n \notin 0..(n - 1)
    BY <1>4
  <2> QED BY <2>1, <2>2 DEF StrictSubsetOrdering
<1> QED BY <1>2, <1>3, <1>4, <1>5

\* The sum of a sequence: what it is when a number is added.
LEMMA TotalRuns ==
  ASSUME NEW ns
  PROVE  \A N \in Nat : \E f :
           f = [n \in 0..N |-> IF n = 0 THEN 0 ELSE f[n - 1] + ns[n]]
<1> DEFINE Run(f, N) == [n \in 0..N |-> IF n = 0 THEN 0 ELSE f[n - 1] + ns[n]]
           P == {N \in Nat : \E f : f = Run(f, N)}
<1>1. 0 \in P
  <2>1. [n \in 0..0 |-> 0] = Run([n \in 0..0 |-> 0], 0)
    OBVIOUS
  <2> QED BY <2>1
<1>2. ASSUME NEW N \in Nat, N \in P PROVE N + 1 \in P
  <2>1. PICK f : f = Run(f, N)
    BY <1>2
  <2> DEFINE g == [n \in 0..(N + 1) |-> IF n <= N THEN f[n] ELSE f[N] + ns[n]]
  <2>2. ASSUME NEW n \in 0..(N + 1)
        PROVE  g[n] = IF n = 0 THEN 0 ELSE g[n - 1] + ns[n]
    <3>1. CASE n <= N
      <4>1. n \in 0..N /\ (n # 0 => n - 1 \in 0..(N+1) /\ n - 1 <= N)
        BY <3>1
      <4>2. f[n] = IF n = 0 THEN 0 ELSE f[n - 1] + ns[n]
        BY <2>1, <4>1
      <4> QED BY <3>1, <4>1, <4>2
    <3>2. CASE n = N + 1
      <4>1. n # 0 /\ n - 1 = N /\ N \in 0..(N + 1) /\ ~(n <= N)
        BY <3>2
      <4> QED BY <4>1
    <3> QED BY <3>1, <3>2
  <2>3. g = Run(g, N + 1)
    BY <2>2
  <2> HIDE DEF g
  <2> QED BY <2>3
<1> QED BY <1>1, <1>2, SetInduction

\* Sequences one after the other: so far as the loop of FlattenSeq has come.
LEMMA FlattenRuns ==
  ASSUME NEW seqs
  PROVE  \A N \in Nat : \E f :
           f = [i \in 1..N |-> IF i = 1 THEN seqs[i] ELSE f[i - 1] \o seqs[i]]
<1> DEFINE Run(f, N) == [i \in 1..N |-> IF i = 1 THEN seqs[i] ELSE f[i - 1] \o seqs[i]]
           P == {N \in Nat : \E f : f = Run(f, N)}
<1>1. 0 \in P
  <2>1. <<>> = Run(<<>>, 0)
    OBVIOUS
  <2> QED BY <2>1
<1>2. ASSUME NEW N \in Nat, N \in P PROVE N + 1 \in P
  <2>1. PICK f : f = Run(f, N)
    BY <1>2
  <2> DEFINE g == [i \in 1..(N + 1) |->
                     IF i <= N THEN f[i] ELSE IF i = 1 THEN seqs[i] ELSE f[N] \o seqs[i]]
  <2>2. ASSUME NEW i \in 1..(N + 1)
        PROVE  g[i] = IF i = 1 THEN seqs[i] ELSE g[i - 1] \o seqs[i]
    <3>1. CASE i <= N
      <4>1. i \in 1..N /\ (i # 1 => i - 1 \in 1..(N + 1) /\ i - 1 <= N)
        BY <3>1
      <4>2. f[i] = IF i = 1 THEN seqs[i] ELSE f[i - 1] \o seqs[i]
        BY <2>1, <4>1
      <4> QED BY <3>1, <4>1, <4>2
    <3>2. CASE i = N + 1
      <4>1. ~(i <= N) /\ i - 1 = N /\ (i # 1 => N \in 1..(N + 1))
        BY <3>2
      <4> QED BY <4>1
    <3> QED BY <3>1, <3>2
  <2>3. g = Run(g, N + 1)
    BY <2>2
  <2> HIDE DEF g, Run
  <2> QED BY <2>3
<1> QED BY <1>1, <1>2, SetInduction

\* u is s and then t, both sequences over T.
IsConcat(T, u, s, t) ==
  /\ u \in Seq(T)
  /\ Len(u) = Len(s) + Len(t)
  /\ \A k \in 1..Len(s) : u[k] = s[k]
  /\ \A k \in 1..Len(t) : u[Len(s) + k] = t[k]

\* What a concatenation holds, as IsConcat names it.
LEMMA ConcatParts ==
  ASSUME NEW T, NEW s \in Seq(T), NEW t \in Seq(T)
  PROVE  IsConcat(T, s \o t, s, t)
<1>1. Len(s) \in Nat /\ Len(t) \in Nat
  BY LenProperties
<1> QED BY <1>1, ConcatProperties DEF IsConcat

\* s is the sequences seqs, of lengths lens, one after the other; the i-th of them ends
\* at off[i].
Joins(N, seqs, lens, off, s) ==
  /\ off \in [0..N -> Nat]
  /\ off[0] = 0
  /\ \A i \in 1..N : off[i] = off[i - 1] + lens[i] /\ off[i] <= off[N]
  /\ Len(s) = off[N]
  /\ \A i \in 1..N : \A k \in 1..lens[i] : s[off[i - 1] + k] = seqs[i][k]

\* The sums of lengths, so far as the loop of Total has come.
LEMMA TotalIs ==
  ASSUME NEW N \in Nat, NEW ns \in [1..N -> Nat]
  PROVE  \E sum \in [0..N -> Nat] :
           /\ sum[0] = 0
           /\ \A n \in 1..N : sum[n] = sum[n - 1] + ns[n]
           /\ Total(ns) = sum[N]
<1> DEFINE Run(f) == [n \in 0..N |-> IF n = 0 THEN 0 ELSE f[n - 1] + ns[n]]
           sum == CHOOSE f : f = Run(f)
           P == {n \in Nat : n <= N => sum[n] \in Nat}
<1>1. Len(ns) = N
  OBVIOUS
<1>2. sum = Run(sum)
  <2>1. \E f : f = Run(f)
    BY TotalRuns
  <2> HIDE DEF Run
  <2> QED BY <2>1
<1>3. Total(ns) = sum[N]
  BY <1>1 DEF Total
<1> HIDE DEF sum
<1>4. sum[0] = 0 /\ \A n \in 1..N : sum[n] = sum[n - 1] + ns[n]
  <2>1. \A n \in 0..N : sum[n] = IF n = 0 THEN 0 ELSE sum[n - 1] + ns[n]
    BY <1>2
  <2> QED BY <2>1
<1>5. Nat \subseteq P
  <2>1. 0 \in P
    BY <1>4
  <2>2. ASSUME NEW n \in Nat, n \in P PROVE n + 1 \in P
    <3>1. n + 1 <= N => sum[n + 1] = sum[n] + ns[n + 1] /\ ns[n + 1] \in Nat
      <4>1. n + 1 <= N => n + 1 \in 1..N /\ (n + 1) - 1 = n
        OBVIOUS
      <4> QED BY <1>4, <4>1
    <3> QED BY <2>2, <3>1
  <2> HIDE DEF P
  <2> QED BY <2>1, <2>2, SetInduction
<1>6. sum \in [0..N -> Nat]
  <2>1. \A n \in 0..N : sum[n] \in Nat
    BY <1>5
  <2>2. DOMAIN sum = 0..N /\ sum = [n \in DOMAIN sum |-> sum[n]]
    BY <1>2
  <2> QED BY <2>1, <2>2
<1> QED BY <1>3, <1>4, <1>6

\* FlattenSeq puts sequences next to each other: its length is the sum of theirs, and
\* there are offsets at which each is found in it.
LEMMA FlattenJoins ==
  ASSUME NEW T, NEW N \in Nat, NEW seqs \in [1..N -> Seq(T)],
         NEW lens \in [1..N -> Nat], \A i \in 1..N : Len(seqs[i]) = lens[i]
  PROVE  /\ FlattenSeq(seqs) \in Seq(T)
         /\ Len(FlattenSeq(seqs)) = Total(lens)
         /\ \E off : Joins(N, seqs, lens, off, FlattenSeq(seqs))
<1> DEFINE Run(f) == [i \in 1..N |-> IF i = 1 THEN seqs[i] ELSE f[i - 1] \o seqs[i]]
           flat == CHOOSE f : f = Run(f)
<1>1. Len(seqs) = N
  OBVIOUS
<1>2. flat = Run(flat)
  <2>1. \E f : f = Run(f)
    BY FlattenRuns
  <2> HIDE DEF Run
  <2> QED BY <2>1
<1>3. FlattenSeq(seqs) = IF N = 0 THEN seqs ELSE flat[N]
  BY <1>1 DEF FlattenSeq
<1> HIDE DEF flat
<1>4. /\ N # 0 => flat[1] = seqs[1]
      /\ \A n \in 1..N : n + 1 <= N => flat[n + 1] = flat[n] \o seqs[n + 1]
  <2>1. \A i \in 1..N : flat[i] = IF i = 1 THEN seqs[i] ELSE flat[i - 1] \o seqs[i]
    BY <1>2
  <2>2. ASSUME NEW n \in 1..N, n + 1 <= N
        PROVE  flat[n + 1] = flat[n] \o seqs[n + 1]
    <3>1. n + 1 \in 1..N /\ n + 1 # 1 /\ (n + 1) - 1 = n
      BY <2>2
    <3>2. flat[n + 1] = IF n + 1 = 1 THEN seqs[n + 1] ELSE flat[(n + 1) - 1] \o seqs[n + 1]
      BY <2>1, <3>1
    <3> QED BY <3>1, <3>2
  <2>3. N # 0 => flat[1] = seqs[1]
    <3>1. N # 0 => 1 \in 1..N
      OBVIOUS
    <3> QED BY <2>1, <3>1
  <2> QED BY <2>2, <2>3
<1>5. PICK off \in [0..N -> Nat] : /\ off[0] = 0
                                   /\ \A n \in 1..N : off[n] = off[n - 1] + lens[n]
                                   /\ Total(lens) = off[N]
  BY TotalIs
<1> DEFINE Within(n) ==
             /\ flat[n] \in Seq(T) /\ Len(flat[n]) = off[n]
             /\ \A i \in 1..n : \A k \in 1..lens[i] : flat[n][off[i - 1] + k] = seqs[i][k]
           P == {n \in Nat : n + 1 <= N => Within(n + 1)}
<1>6. ASSUME NEW n \in 1..N PROVE \A i \in 1..n : off[i - 1] + lens[i] <= off[n]
  <2> DEFINE Q == {m \in Nat : m <= N => \A i \in 1..m : off[i - 1] + lens[i] <= off[m]}
  <2>1. 0 \in Q
    OBVIOUS
  <2>2. ASSUME NEW m \in Nat, m \in Q PROVE m + 1 \in Q
    <3> SUFFICES ASSUME m + 1 <= N, NEW i \in 1..(m + 1)
                 PROVE  off[i - 1] + lens[i] <= off[m + 1]
      OBVIOUS
    <3>1. m + 1 \in 1..N /\ (m + 1) - 1 = m /\ lens[m + 1] \in Nat /\ off[m] \in Nat
      OBVIOUS
    <3>2. off[m + 1] = off[m] + lens[m + 1]
      BY <1>5, <3>1
    <3>3. CASE i = m + 1
      BY <3>1, <3>2, <3>3
    <3>4. CASE i # m + 1
      <4>1. i \in 1..m /\ lens[i] \in Nat /\ off[i - 1] \in Nat
        BY <3>4
      <4>2. off[i - 1] + lens[i] <= off[m]
        BY <2>2, <3>1, <4>1
      <4> QED BY <3>1, <3>2, <4>1, <4>2
    <3> QED BY <3>3, <3>4
  <2>3. Nat \subseteq Q
    <3> HIDE DEF Q
    <3> QED BY <2>1, <2>2, SetInduction
  <2> QED BY <2>3
<1>7. ASSUME N # 0 PROVE Within(1)
  <2>1. 1 \in 1..N /\ off[1] = off[0] + lens[1] /\ lens[1] \in Nat
    BY <1>5, <1>7
  <2>2. flat[1] = seqs[1] /\ seqs[1] \in Seq(T) /\ Len(seqs[1]) = lens[1] /\ off[1] = lens[1]
    BY <1>4, <1>5, <1>7, <2>1
  <2>3. ASSUME NEW i \in 1..1, NEW k \in 1..lens[i] PROVE flat[1][off[i - 1] + k] = seqs[i][k]
    <3>1. i = 1 /\ i - 1 = 0 /\ k \in Nat
      BY <2>1
    <3> QED BY <1>5, <2>2, <3>1
  <2> QED BY <2>2, <2>3
<1>8. ASSUME NEW n \in 1..N, n + 1 <= N, Within(n) PROVE Within(n + 1)
  <2>1. n + 1 \in 1..N /\ (n + 1) - 1 = n /\ off[n + 1] = off[n] + lens[n + 1]
        /\ off[n] \in Nat /\ lens[n + 1] \in Nat /\ seqs[n + 1] \in Seq(T)
        /\ Len(seqs[n + 1]) = lens[n + 1]
    <3>1. n + 1 \in 1..N /\ (n + 1) - 1 = n /\ n \in 0..N
      BY <1>8
    <3>2. off[n + 1] = off[(n + 1) - 1] + lens[n + 1]
      BY <1>5, <3>1
    <3> QED BY <3>1, <3>2
  <2>2. flat[n + 1] = flat[n] \o seqs[n + 1] /\ flat[n] \in Seq(T) /\ Len(flat[n]) = off[n]
    BY <1>4, <1>8
  <2> DEFINE s == flat[n]  t == seqs[n + 1]  u == flat[n + 1]  a == off[n]  b == lens[n + 1]
  <2>3. /\ u \in Seq(T)
        /\ Len(u) = a + b
        /\ \A k \in 1..a : u[k] = s[k]
        /\ \A k \in 1..b : u[a + k] = t[k]
    <3>1. u = s \o t /\ s \in Seq(T) /\ t \in Seq(T) /\ a \in Nat /\ b \in Nat
          /\ Len(s) = a /\ Len(t) = b
      BY <2>1, <2>2
    <3> HIDE DEF s, t, u, a, b
    <3>2. IsConcat(T, s \o t, s, t)
      BY <3>1, ConcatParts
    <3>3. IsConcat(T, u, s, t)
      BY <3>1, <3>2
    <3> QED BY <3>1, <3>3, Zenon DEF IsConcat
  <2>4. ASSUME NEW i \in 1..(n + 1), NEW k \in 1..lens[i]
        PROVE  u[off[i - 1] + k] = seqs[i][k]
    <3>1. CASE i = n + 1
      <4>1. k \in 1..b /\ off[i - 1] = a /\ seqs[i] = t
        BY <2>1, <3>1
      <4> HIDE DEF s, t, u, a, b
      <4> QED BY <2>3, <4>1
    <3>2. CASE i # n + 1
      <4>1. i \in 1..n /\ off[i - 1] \in Nat /\ lens[i] \in Nat
        BY <3>2
      <4>2. s[off[i - 1] + k] = seqs[i][k]
        BY <1>8, <4>1
      <4>3. off[i - 1] + lens[i] <= a /\ a \in Nat
        BY <1>6, <2>1, <4>1
      <4>4. off[i - 1] + k \in 1..a
        <5> HIDE DEF a
        <5> QED BY <4>1, <4>3
      <4> HIDE DEF s, t, u, a, b
      <4> QED BY <2>3, <4>2, <4>4
    <3> QED BY <3>1, <3>2
  <2> QED BY <2>1, <2>3, <2>4
<1>9. Nat \subseteq P
  <2>1. 0 \in P
    BY <1>7
  <2>2. ASSUME NEW n \in Nat, n \in P PROVE n + 1 \in P
    <3> HIDE DEF Within
    <3>1. ASSUME (n + 1) + 1 <= N PROVE Within((n + 1) + 1)
      <4>1. n + 1 \in 1..N /\ Within(n + 1)
        BY <2>2, <3>1
      <4> QED BY <1>8, <3>1, <4>1
    <3> QED BY <3>1
  <2> HIDE DEF P
  <2> QED BY <2>1, <2>2, SetInduction
<1>10. CASE N = 0
  <2>1. seqs = <<>> /\ off[0] = 0
    BY <1>5, <1>10
  <2>2. FlattenSeq(seqs) = <<>> /\ <<>> \in Seq(T) /\ Len(<<>>) = 0
    BY <1>3, <1>10, <2>1
  <2> QED BY <1>5, <1>10, <2>2 DEF Joins
<1>11. CASE N # 0
  <2>1. N - 1 \in Nat /\ (N - 1) + 1 = N
    BY <1>11
  <2>2. Within(N)
    <3>1. N - 1 \in P
      <4> HIDE DEF P
      <4> QED BY <1>9, <2>1
    <3> QED BY <2>1, <3>1
  <2>3. FlattenSeq(seqs) = flat[N]
    BY <1>3, <1>11
  <2>4. \A i \in 1..N : off[i] = off[i - 1] + lens[i] /\ off[i] <= off[N]
    <3>1. N \in 1..N
      BY <1>11
    <3>2. \A i \in 1..N : off[i - 1] + lens[i] <= off[N]
      BY <1>6, <3>1
    <3> QED BY <1>5, <3>2
  <2>5. Joins(N, seqs, lens, off, flat[N])
    BY <1>5, <2>2, <2>4 DEF Joins
  <2> QED BY <1>5, <2>2, <2>3, <2>5
<1> QED BY <1>10, <1>11

-----------------------------------------------------------------------------
(* The fields: numbers in as many bytes as they need.                      *)

Byte == 0..255

\* What the proofs need of the ints of Java, whose definitions stay hidden.
LEMMA IntBounds ==
  /\ MaxInt \in Nat /\ MaxInt = 127 * 16777216 + 16777215
  /\ \A v \in Ints : v \in Int /\ v <= MaxInt /\ v >= -MaxInt - 1
  /\ \A v \in Nat : v <= MaxInt => v \in Ints
<1>1. MaxInt \in Nat /\ MaxInt = 127 * 16777216 + 16777215
  BY SMT DEF MaxInt
<1>2. MaxInt \in Int
  BY <1>1, SMT
<1>3. ASSUME NEW v \in Ints PROVE v \in Int /\ v <= MaxInt /\ v >= -MaxInt - 1
  BY <1>2, SMT DEF Ints
<1>4. ASSUME NEW v \in Nat, v <= MaxInt PROVE v \in Ints
  <2>1. v \in Int /\ -MaxInt - 1 <= v
    BY <1>1, SMT
  <2> QED BY <1>2, <1>4, <2>1, SMT DEF Ints
<1> QED BY <1>1, <1>3, <1>4

\* bytes(v) by the limits of one, two, three and four bytes.
LEMMA LengthIs ==
  ASSUME NEW v \in Ints
  PROVE  LengthOf(v) = IF v < 0 \/ v >= 16777216 THEN 4
                       ELSE IF v >= 65536 THEN 3
                       ELSE IF v >= 256 THEN 2
                       ELSE IF v >= 1 THEN 1 ELSE 0
<1>1. v \in Int
  BY IntBounds, SMT
<1>2. CASE v < 0
  BY <1>1, <1>2, SMT DEF LengthOf
<1>3. CASE v >= 0
  <2> DEFINE Fits(k) == /\ k = 4 \/ v < Power[k + 1]
                        /\ \A j \in 1..k : v >= Power[j]
             n == IF v >= 16777216 THEN 4 ELSE IF v >= 65536 THEN 3
                  ELSE IF v >= 256 THEN 2 ELSE IF v >= 1 THEN 1 ELSE 0
  <2>1. Power[1] = 1 /\ Power[2] = 256 /\ Power[3] = 65536 /\ Power[4] = 16777216
    BY SMT DEF Power
  <2>2. n \in 0..4 /\ Fits(n)
    <3>1. n \in 0..4
      BY SMT
    <3>2. n = 4 \/ v < Power[n + 1]
      BY <1>1, <1>3, <2>1, SMT
    <3>3. ASSUME NEW j \in 1..n PROVE v >= Power[j]
      BY <1>1, <1>3, <2>1, SMT
    <3> QED BY <3>1, <3>2, <3>3, SMT
  <2>3. ASSUME NEW k \in 0..4, Fits(k) PROVE k = n
    <3>1. v >= Power[1] \/ k < 1
      BY <2>3, SMT
    <3>2. v >= Power[2] \/ k < 2
      BY <2>3, SMT
    <3>3. v >= Power[3] \/ k < 3
      BY <2>3, SMT
    <3>4. v >= Power[4] \/ k < 4
      BY <2>3, SMT
    <3>5. (k = 0 => v < 1) /\ (k = 1 => v < 256) /\ (k = 2 => v < 65536) /\ (k = 3 => v < 16777216)
      BY <2>1, <2>3, SMT
    <3> QED BY <1>1, <1>3, <2>1, <3>1, <3>2, <3>3, <3>4, <3>5, SMT
  <2>4. LengthOf(v) = CHOOSE k \in 0..4 : Fits(k)
    BY <1>1, <1>3, SMT DEF LengthOf
  <2> HIDE DEF Fits, n
  <2>5. LengthOf(v) = n
    BY <2>2, <2>3, <2>4
  <2> QED BY <1>1, <1>3, <2>5, SMT DEF n
<1> QED BY <1>1, <1>2, <1>3, SMT

\* A number split into its bytes.
Low(v, i) == (v \div Power[i]) % 256

\* A byte of a number is a byte, of a negative number too.
LEMMA LowIsByte ==
  ASSUME NEW v \in Int, NEW i \in 1..4
  PROVE  Low(v, i) \in Byte
<1>1. \A w \in Int : w \div 256 \in Int /\ w % 256 \in Byte
  BY SMT DEF Byte
<1>2. v \div Power[i] \in Int
  <2>1. i = 1 \/ i = 2 \/ i = 3 \/ i = 4
    OBVIOUS
  <2>2. Power[1] = 1 /\ Power[2] = 256 /\ Power[3] = 65536 /\ Power[4] = 16777216
    BY SMT DEF Power
  <2> QED BY <2>1, <2>2, SMT
<1> QED BY <1>1, <1>2, SMT DEF Low

\* The bytes of a number, one after the other, and what is left above each.
LEMMA ByteSplit ==
  ASSUME NEW v \in Int
  PROVE  /\ v = Low(v, 1) + 256 * (v \div 256)
         /\ v \div 256 = Low(v, 2) + 256 * (v \div 65536)
         /\ v \div 65536 = Low(v, 3) + 256 * (v \div 16777216)
         /\ v \div 256 \in Int /\ v \div 65536 \in Int /\ v \div 16777216 \in Int
<1>1. Power[1] = 1 /\ Power[2] = 256 /\ Power[3] = 65536 /\ Power[4] = 16777216
  BY SMT DEF Power
<1>2. /\ Low(v, 1) = v % 256 /\ Low(v, 2) = (v \div 256) % 256
      /\ Low(v, 3) = (v \div 65536) % 256 /\ Low(v, 4) = (v \div 16777216) % 256
  BY <1>1, SMT DEF Low
<1>3. \A w \in Int : w \div 256 \in Int /\ w % 256 \in Byte /\ w = (256 * (w \div 256)) + (w % 256)
  BY SMT DEF Byte
<1>4. (v \div 256) \div 256 = v \div 65536 /\ v \div 65536 \in Int
  BY SMT
<1>5. (v \div 65536) \div 256 = v \div 16777216 /\ v \div 16777216 \in Int
  BY SMT
<1>6. v = Low(v, 1) + 256 * (v \div 256)
  BY <1>2, <1>3, SMT
<1>7. v \div 256 = Low(v, 2) + 256 * (v \div 65536)
  BY <1>2, <1>3, <1>4, SMT
<1>8. v \div 65536 = Low(v, 3) + 256 * (v \div 16777216)
  BY <1>2, <1>3, <1>4, <1>5, SMT
<1> QED BY <1>3, <1>4, <1>5, <1>6, <1>7, <1>8, SMT

\* array: the four bytes of a number.
LEMMA ArrayIs ==
  ASSUME NEW v \in Int
  PROVE  /\ Array(v) \in [1..4 -> Byte]
         /\ Array(v) \in Seq(Byte) /\ Len(Array(v)) = 4
         /\ \A i \in 1..4 : Array(v)[i] = Low(v, i)
<1>1. Array(v) = [i \in 1..4 |-> Low(v, i)]
  BY DEF Array, Low
<1>2. \A i \in 1..4 : Low(v, i) \in Byte
  BY LowIsByte
<1> QED BY <1>1, <1>2

\* A field has as many bytes as bytes(v) says, the first ones of array(v).
LEMMA FieldIs ==
  ASSUME NEW v \in Ints
  PROVE  /\ LengthOf(v) \in 0..4
         /\ Field(v) \in Seq(Byte)
         /\ Len(Field(v)) = LengthOf(v)
         /\ \A i \in 1..LengthOf(v) : Field(v)[i] = Low(v, i)
<1>1. LengthOf(v) \in 0..4
  BY LengthIs, IntBounds, SMT
<1>2. \A i \in 1..LengthOf(v) : Array(v)[i] \in Byte /\ Array(v)[i] = Low(v, i)
  BY <1>1, ArrayIs, IntBounds
<1>3. Field(v) = SubSeq(Array(v), 1, LengthOf(v))
  BY DEF Field
<1> QED BY <1>1, <1>2, <1>3, SubSeqProperties

\* The bytes of a number beyond those bytes(v) counts are zero, and a negative number
\* has its sign in the fourth.
LEMMA HighBytes ==
  ASSUME NEW v \in Ints
  PROVE  /\ LengthOf(v) <= 0 => Low(v, 1) = 0
         /\ LengthOf(v) <= 1 => Low(v, 2) = 0
         /\ LengthOf(v) <= 2 => Low(v, 3) = 0
         /\ LengthOf(v) <= 3 => Low(v, 4) = 0
         /\ v = Low(v, 1) + 256 * Low(v, 2) + 65536 * Low(v, 3)
                  + 16777216 * (IF Low(v, 4) < 128 THEN Low(v, 4) ELSE Low(v, 4) - 256)
<1>1. v \in Int /\ v <= 127 * 16777216 + 16777215 /\ v >= -128 * 16777216
  BY IntBounds, SMT
<1>2. /\ Low(v, 1) = v % 256 /\ Low(v, 2) = (v \div 256) % 256
      /\ Low(v, 3) = (v \div 65536) % 256 /\ Low(v, 4) = (v \div 16777216) % 256
  <2>1. Power[1] = 1 /\ Power[2] = 256 /\ Power[3] = 65536 /\ Power[4] = 16777216
    BY SMT DEF Power
  <2> QED BY <1>1, <2>1, SMT DEF Low
<1>3. v \div 16777216 \in Int /\ v \div 16777216 <= 127 /\ v \div 16777216 >= -128
  BY <1>1, SMT
<1>4. v \div 16777216 = IF Low(v, 4) < 128 THEN Low(v, 4) ELSE Low(v, 4) - 256
  <2>1. \A w \in Int : w <= 127 /\ w >= -128 =>
          w = IF w % 256 < 128 THEN w % 256 ELSE (w % 256) - 256
    BY SMT
  <2> QED BY <1>2, <1>3, <2>1, SMT
<1>5. \A i \in 1..4 : Low(v, i) \in Int
  BY <1>1, LowIsByte, SMT DEF Byte
<1>6. v = Low(v, 1) + 256 * Low(v, 2) + 65536 * Low(v, 3) + 16777216 * (v \div 16777216)
  <2> DEFINE p == v \div 256  q == v \div 65536  r == v \div 16777216
             w1 == Low(v, 1)  w2 == Low(v, 2)  w3 == Low(v, 3)
  <2>1. /\ v \in Int /\ p \in Int /\ q \in Int /\ r \in Int
        /\ w1 \in Int /\ w2 \in Int /\ w3 \in Int
        /\ v = w1 + 256 * p /\ p = w2 + 256 * q /\ q = w3 + 256 * r
    BY <1>1, <1>5, ByteSplit
  <2> HIDE DEF p, q, r, w1, w2, w3
  <2>2. v = w1 + 256 * w2 + 65536 * w3 + 16777216 * r
    BY <2>1, SMT
  <2> QED BY <2>2 DEF r, w1, w2, w3
<1>7. LengthOf(v) <= 3 => Low(v, 4) = 0
  BY <1>1, <1>2, LengthIs, SMT
<1>8. LengthOf(v) <= 2 => Low(v, 3) = 0
  BY <1>1, <1>2, LengthIs, SMT
<1>9. LengthOf(v) <= 1 => Low(v, 2) = 0
  BY <1>1, <1>2, LengthIs, SMT
<1>10. LengthOf(v) <= 0 => Low(v, 1) = 0
  BY <1>1, <1>2, LengthIs, SMT
<1> QED BY <1>4, <1>6, <1>7, <1>8, <1>9, <1>10, SMT

\* getInt reads what array wrote in the bytes that bytes(v) counted.
LEMMA FieldRoundTrip ==
  ASSUME NEW v \in Ints
  PROVE  GetInt(Field(v)) = v
<1> DEFINE b == Padded(Field(v), 4)
<1>1. /\ LengthOf(v) \in 0..4 /\ Len(Field(v)) = LengthOf(v)
      /\ \A i \in 1..LengthOf(v) : Field(v)[i] = Low(v, i)
  BY FieldIs
<1>2. \A i \in 1..4 : b[i] = IF i <= LengthOf(v) THEN Low(v, i) ELSE 0
  BY <1>1 DEF Padded
<1>3. b[1] = Low(v, 1)
  BY <1>1, <1>2, HighBytes, SMT
<1>4. b[2] = Low(v, 2)
  BY <1>1, <1>2, HighBytes, SMT
<1>5. b[3] = Low(v, 3)
  BY <1>1, <1>2, HighBytes, SMT
<1>6. b[4] = Low(v, 4)
  BY <1>1, <1>2, HighBytes, SMT
<1>7. GetInt(Field(v)) = b[1] + Power[2] * b[2] + Power[3] * b[3]
                           + Power[4] * (IF b[4] < 128 THEN b[4] ELSE b[4] - 256)
  BY DEF GetInt
<1> HIDE DEF b
<1>8. Power[2] = 256 /\ Power[3] = 65536 /\ Power[4] = 16777216
  BY SMT DEF Power
<1> QED BY <1>3, <1>4, <1>5, <1>6, <1>7, <1>8, HighBytes, SMT

-----------------------------------------------------------------------------
(* The values: leading zeros left out, and filled in again.                *)

\* optimizeData's loop ends at one place: a byte that is not 0 or the last.
LEMMA FirstKept ==
  ASSUME NEW N \in Nat, N >= 1, NEW bs \in [1..N -> Byte]
  PROVE  \E i \in 1..N : /\ i = N \/ bs[i] # 0
                         /\ \A j \in 1..(i - 1) : bs[j] = 0
<1> DEFINE First(i) == /\ i = N \/ bs[i] # 0
                       /\ \A j \in 1..(i - 1) : bs[j] = 0
           P == {n \in Nat : \A j \in 1..n : j < N /\ bs[j] = 0}
<1> SUFFICES ASSUME \A i \in 1..N : ~First(i) PROVE FALSE
  OBVIOUS
<1>1. 0 \in P
  OBVIOUS
<1>2. ASSUME NEW n \in Nat, n \in P PROVE n + 1 \in P
  <2>1. n + 1 \in 1..N
    BY <1>2
  <2>2. (n + 1) - 1 = n
    OBVIOUS
  <2>3. ~First(n + 1) /\ \A j \in 1..n : bs[j] = 0
    BY <1>2, <2>1
  <2>4. n + 1 # N /\ bs[n + 1] = 0
    BY <2>2, <2>3
  <2> QED BY <1>2, <2>1, <2>4
<1>3. N \in P
  <2> HIDE DEF P
  <2> QED BY <1>1, <1>2, SetInduction
<1> QED BY <1>3

\* optimizeData: the last bytes first, without those that are zero before them.
LEMMA OptimizeDataIs ==
  ASSUME NEW N \in Nat, N >= 1, NEW bs \in [1..N -> Byte]
  PROVE  \E n \in 1..N : /\ OptimizeData(bs) \in [1..n -> Byte]
                         /\ \A i \in 1..n : OptimizeData(bs)[i] = bs[N + 1 - i]
                         /\ \A j \in 1..(N - n) : bs[j] = 0
<1> DEFINE First(i) == /\ i = N \/ bs[i] # 0
                       /\ \A j \in 1..(i - 1) : bs[j] = 0
           first == CHOOSE i \in 1..N : First(i)
           n == N + 1 - first
           kept == SubSeq(bs, first, N)
<1>1. Len(bs) = N
  OBVIOUS
<1>2. first \in 1..N /\ First(first)
  <2>1. \E i \in 1..N : First(i)
    BY FirstKept
  <2> HIDE DEF First
  <2> QED BY <2>1
<1>3. OptimizeData(bs) = Reverse(kept)
  BY <1>1 DEF OptimizeData
<1> HIDE DEF first
<1>4. /\ n \in 1..N
      /\ kept \in Seq(Byte) /\ Len(kept) = n
      /\ \A i \in 1..n : kept[i] = bs[first + i - 1]
  <2>1. \A i \in first..N : bs[i] \in Byte
    BY <1>2
  <2>2. first <= N /\ first \in Int /\ N \in Int
    BY <1>2
  <2>3. /\ kept \in Seq(Byte)
        /\ Len(kept) = N - first + 1
        /\ \A i \in 1..(N - first + 1) : kept[i] = bs[first + i - 1]
    BY <2>1, <2>2, SubSeqProperties
  <2>4. n = N - first + 1 /\ n \in 1..N
    BY <1>2
  <2> QED BY <2>3, <2>4
<1> HIDE DEF kept
<1>5. Reverse(kept) = [i \in 1..n |-> kept[(n - i) + 1]]
  BY <1>4 DEF Reverse
<1>6. ASSUME NEW i \in 1..n PROVE kept[(n - i) + 1] = bs[N + 1 - i] /\ bs[N + 1 - i] \in Byte
  <2>1. (n - i) + 1 \in 1..n /\ first + ((n - i) + 1) - 1 = N + 1 - i /\ N + 1 - i \in 1..N
    BY <1>2, <1>4
  <2> QED BY <1>4, <2>1
<1>7. \A j \in 1..(N - n) : bs[j] = 0
  <2>1. N - n = first - 1
    BY <1>2
  <2> QED BY <1>2, <2>1
<1> HIDE DEF n
<1>8. /\ OptimizeData(bs) \in [1..n -> Byte]
      /\ \A i \in 1..n : OptimizeData(bs)[i] = bs[N + 1 - i]
  BY <1>3, <1>5, <1>6
<1> QED BY <1>4, <1>7, <1>8

\* What optimizeData left out is filled in again by reading into a number.
LEMMA OptimizeRoundTrip ==
  ASSUME NEW N \in Nat, N >= 1, NEW bs \in [1..N -> Byte]
  PROVE  Reverse(Padded(OptimizeData(bs), N)) = bs
<1> DEFINE opt == OptimizeData(bs)
<1>1. PICK n \in 1..N : /\ opt \in [1..n -> Byte]
                        /\ \A i \in 1..n : opt[i] = bs[N + 1 - i]
                        /\ \A j \in 1..(N - n) : bs[j] = 0
  BY OptimizeDataIs
<1> HIDE DEF opt
<1> DEFINE full == Padded(opt, N)
<1>2. full = [i \in 1..N |-> IF i <= n THEN opt[i] ELSE 0]
  <2>1. Len(opt) = n
    BY <1>1
  <2> QED BY <2>1 DEF Padded
<1>3. Reverse(full) = [i \in 1..N |-> full[(N - i) + 1]]
  <2>1. Len(full) = N
    BY <1>2
  <2> HIDE DEF full
  <2> QED BY <2>1 DEF Reverse
<1>4. ASSUME NEW i \in 1..N PROVE full[(N - i) + 1] = bs[i]
  <2> DEFINE m == (N - i) + 1
  <2>1. m \in 1..N /\ N + 1 - m = i
    OBVIOUS
  <2>2. full[m] = IF m <= n THEN opt[m] ELSE 0
    <3> HIDE DEF m, full
    <3> QED BY <1>2, <2>1
  <2>3. CASE m <= n
    <3>1. m \in 1..n
      BY <2>1, <2>3
    <3> HIDE DEF m, full
    <3>2. opt[m] = bs[i]
      BY <1>1, <2>1, <3>1
    <3> QED BY <2>2, <2>3, <3>2 DEF m
  <2>4. CASE ~(m <= n)
    <3>1. i \in 1..(N - n)
      BY <2>4
    <3>2. bs[i] = 0
      BY <1>1, <3>1
    <3> QED BY <2>2, <2>4, <3>2
  <2> QED BY <2>3, <2>4
<1> HIDE DEF full
<1>5. Reverse(full) = bs
  BY <1>3, <1>4
<1> QED BY <1>5 DEF full, opt

\* The tables of types and classes: an entry is found at its own place.
LEMMA Tables ==
  /\ \A i \in 1..8 : Ordinal(ValueTypes[i]) = i - 1
  /\ \A i \in 1..8 : (CHOOSE j \in DOMAIN Classes : Classes[j] = Classes[i]) = i
  /\ \A i \in 1..8 : Classes[i] = "Double" <=> i = 6
  /\ \A i \in 1..8 : ValueTypes[i] = "f4" <=> i = 5
  /\ Ordinal("f4") = 4 /\ Ordinal("i32") = 2
<1>1. DOMAIN ValueTypes = 1..8 /\ DOMAIN Classes = 1..8
  BY DEF ValueTypes, Classes
<1>2. ASSUME NEW i \in 1..8, NEW j \in 1..8, ValueTypes[i] = ValueTypes[j] PROVE i = j
  BY <1>2 DEF ValueTypes
<1>3. ASSUME NEW i \in 1..8, NEW j \in 1..8, Classes[i] = Classes[j] PROVE i = j
  BY <1>3 DEF Classes
<1>4. \A i \in 1..8 : Ordinal(ValueTypes[i]) = i - 1
  <2> SUFFICES ASSUME NEW i \in 1..8 PROVE Ordinal(ValueTypes[i]) = i - 1
    OBVIOUS
  <2>1. (CHOOSE j \in DOMAIN ValueTypes : ValueTypes[j] = ValueTypes[i]) = i
    BY <1>1, <1>2
  <2> QED BY <2>1 DEF Ordinal
<1>5. \A i \in 1..8 : (CHOOSE j \in DOMAIN Classes : Classes[j] = Classes[i]) = i
  BY <1>1, <1>3
<1>6. \A i \in 1..8 : Classes[i] = "Double" <=> i = 6
  BY DEF Classes
<1>7. \A i \in 1..8 : ValueTypes[i] = "f4" <=> i = 5
  BY DEF ValueTypes
<1>8. ValueTypes[5] = "f4" /\ ValueTypes[3] = "i32"
  BY DEF ValueTypes
<1>9. Ordinal("f4") = 4 /\ Ordinal("i32") = 2
  BY <1>4, <1>8
<1> QED BY <1>4, <1>5, <1>6, <1>7, <1>9

\* What AttributeValue keeps of an object of the c-th class is of the t-th type.
IsValue(v, t) ==
  /\ t \in 1..8 /\ t # 6
  /\ v = [type |-> ValueTypes[t], value |-> v.value]
  /\ v.value \in Seq(Byte)
  /\ Len(v.value) <= MaxInt
  /\ t <= 5 => Len(v.value) = Width[t]

\* The widths of numbers are 1 to 8 bytes.
LEMMA WidthIs ==
  \A t \in 1..6 : Width[t] \in 1..8
<1>1. Width[1] = 1 /\ Width[2] = 2 /\ Width[3] = 4 /\ Width[4] = 8 /\ Width[5] = 4 /\ Width[6] = 8
  BY DEF Width
<1> QED BY <1>1

\* What setValue makes of an object of the class: of the t-th type, and but for a
\* Double one that getValue turns back into the object.
IsValueOf(v, x, t) ==
  /\ IsValue(v, t)
  /\ x.class = "Float" <=> t = 5
  /\ x.class = "Double" => v = [type |-> "i32", value |-> <<0, 0, 0, 0>>]
  /\ x.class # "Double" => GetValue(v) = x

LEMMA SetValueIs ==
  ASSUME NEW x \in Object
  PROVE  \E t \in 1..8 : IsValueOf(SetValue(x), x, t)
<1>1. x.class \in Range(Classes) /\ x.bytes \in Seq(Byte) /\ Len(x.bytes) <= MaxInt
      /\ x = [class |-> x.class, bytes |-> x.bytes]
      /\ \A i \in DOMAIN Width : x.class = Classes[i] => Len(x.bytes) = Width[i]
  BY DEF Object, Byte
<1>2. DOMAIN Classes = 1..8 /\ DOMAIN Width = 1..6
  BY DEF Classes, Width
<1>3. PICK c \in 1..8 : x.class = Classes[c]
  BY <1>1, <1>2 DEF Range
<1>4. CASE c = 6
  <2>1. SetValue(x) = [type |-> "i32", value |-> <<0, 0, 0, 0>>]
    BY <1>3, <1>4, Tables DEF SetValue
  <2>2. <<0, 0, 0, 0>> \in Seq(Byte) /\ Len(<<0, 0, 0, 0>>) = 4 /\ 4 <= MaxInt
    <3>1. 4 <= MaxInt
      BY IntBounds, SMT
    <3> QED BY <3>1 DEF Byte
  <2>3. ValueTypes[3] = "i32" /\ Width[3] = 4
    BY DEF ValueTypes, Width
  <2>4. IsValue(SetValue(x), 3)
    BY <2>1, <2>2, <2>3 DEF IsValue
  <2>5. x.class = "Double"
    BY <1>3, <1>4, Tables
  <2> QED BY <2>1, <2>4, <2>5 DEF IsValueOf
<1>5. CASE c # 6
  <2>1. SetValue(x) = [type |-> ValueTypes[c], value |-> x.bytes]
    <3>1. (CHOOSE i \in DOMAIN Classes : Classes[i] = x.class) = c
      BY <1>3, Tables
    <3>2. x.class # "Double"
      BY <1>3, <1>5, Tables
    <3> QED BY <3>1, <3>2 DEF SetValue
  <2>2. c <= 5 => Len(x.bytes) = Width[c]
    BY <1>1, <1>2, <1>3
  <2>3. IsValue(SetValue(x), c)
    BY <1>1, <1>5, <2>1, <2>2 DEF IsValue
  <2>4. GetValue(SetValue(x)) = x
    <3>1. Ordinal(ValueTypes[c]) + 1 = c
      BY Tables
    <3> QED BY <1>1, <1>3, <2>1, <3>1 DEF GetValue
  <2>5. c = 5 <=> x.class = "Float"
    BY <1>3 DEF Classes
  <2>6. x.class # "Double"
    BY <1>3, <1>5, Tables
  <2> QED BY <2>3, <2>4, <2>5, <2>6 DEF IsValueOf
<1> QED BY <1>4, <1>5

\* What is written of a value is bytes, no more of them than an int can count.
LEMMA WrittenIs ==
  ASSUME NEW v, NEW t, IsValue(v, t)
  PROVE  /\ Ordinal(v.type) = t - 1
         /\ Written(v) \in Seq(Byte)
         /\ Len(Written(v)) <= MaxInt
<1>1. t \in 1..8 /\ v.type = ValueTypes[t] /\ v.value \in Seq(Byte) /\ Len(v.value) <= MaxInt
      /\ (t <= 5 => Len(v.value) = Width[t])
  BY DEF IsValue
<1>2. Ordinal(v.type) = t - 1
  BY <1>1, Tables
<1>3. CASE t <= 4
  <2>1. Written(v) = OptimizeData(v.value)
    BY <1>1, <1>2, <1>3, Tables DEF Written
  <2>2. Width[t] \in 1..8 /\ v.value \in [1..Width[t] -> Byte]
    <3>1. Width[t] \in 1..8
      BY <1>1, <1>3, WidthIs
    <3>2. Len(v.value) = Width[t]
      BY <1>1, <1>3
    <3> QED BY <1>1, <3>1, <3>2
  <2> DEFINE N == Width[t]
  <2>3. PICK n \in 1..N : OptimizeData(v.value) \in [1..n -> Byte]
    <3>1. N \in Nat /\ N >= 1 /\ v.value \in [1..N -> Byte]
      BY <2>2
    <3> HIDE DEF N
    <3> QED BY <3>1, OptimizeDataIs
  <2>4. n \in 1..8
    BY <2>2, <2>3
  <2>5. OptimizeData(v.value) \in Seq(Byte) /\ Len(OptimizeData(v.value)) = n
    BY <2>3, <2>4
  <2>6. n <= MaxInt
    BY <2>4, IntBounds, SMT
  <2> QED BY <1>2, <2>1, <2>5, <2>6
<1>4. CASE ~(t <= 4)
  <2>1. Written(v) = v.value
    BY <1>1, <1>2, <1>4, Tables DEF Written
  <2> QED BY <1>1, <1>2, <2>1
<1> QED BY <1>3, <1>4

\* What the reader makes of the written value is the value, but for a float.
LEMMA ReadValueIs ==
  ASSUME NEW v, NEW t, IsValue(v, t), t # 5
  PROVE  ReadValue(v.type, Written(v)) = v
<1>1. t \in 1..8 /\ v.type = ValueTypes[t] /\ v.value \in Seq(Byte) /\ Len(v.value) <= MaxInt
      /\ (t <= 5 => Len(v.value) = Width[t]) /\ t # 6
      /\ v = [type |-> ValueTypes[t], value |-> v.value]
  BY DEF IsValue
<1>2. Ordinal(v.type) = t - 1
  BY <1>1, Tables
<1>3. CASE t <= 4
  <2>1. Written(v) = OptimizeData(v.value)
    BY <1>1, <1>2, <1>3, Tables DEF Written
  <2>2. ReadValue(v.type, Written(v))
          = [type |-> v.type, value |-> Reverse(Padded(Written(v), Width[t]))]
    <3>1. Ordinal(v.type) < Ordinal("f4") /\ Ordinal(v.type) + 1 = t
      BY <1>1, <1>2, <1>3, Tables
    <3>2. v.type # "f4"
      BY <1>1, Tables
    <3>3. ReadValue(v.type, Written(v))
            = [type |-> v.type,
               value |-> Reverse(Padded(Written(v), Width[Ordinal(v.type) + 1]))]
      BY <3>1, <3>2, Zenon DEF ReadValue
    <3> QED BY <3>1, <3>3
  <2> DEFINE N == Width[t]
  <2>3. N \in 1..8 /\ v.value \in [1..N -> Byte]
    <3>1. Width[t] \in 1..8
      BY <1>1, <1>3, WidthIs
    <3>2. Len(v.value) = Width[t]
      BY <1>1, <1>3
    <3> QED BY <1>1, <3>1, <3>2
  <2>4. Reverse(Padded(OptimizeData(v.value), N)) = v.value
    <3>1. N \in Nat /\ N >= 1 /\ v.value \in [1..N -> Byte]
      BY <2>3
    <3> HIDE DEF N
    <3> QED BY <3>1, OptimizeRoundTrip
  <2> QED BY <1>1, <2>1, <2>2, <2>4
<1>4. CASE ~(t <= 4)
  <2>1. Written(v) = v.value
    BY <1>1, <1>2, <1>4, Tables DEF Written
  <2>2. ReadValue(v.type, Written(v)) = SetValue([class |-> Classes[t], bytes |-> v.value])
    <3>1. ~(Ordinal(v.type) < Ordinal("f4")) /\ Ordinal(v.type) + 1 = t
      BY <1>1, <1>2, <1>4, Tables
    <3>2. v.type # "f4"
      BY <1>1, Tables
    <3> QED BY <2>1, <3>1, <3>2 DEF ReadValue
  <2>3. Classes[t] # "Double" /\ (CHOOSE i \in DOMAIN Classes : Classes[i] = Classes[t]) = t
    BY <1>1, Tables
  <2>4. SetValue([class |-> Classes[t], bytes |-> v.value])
          = [type |-> ValueTypes[t], value |-> v.value]
    BY <2>3 DEF SetValue
  <2> QED BY <1>1, <2>2, <2>4
<1> QED BY <1>3, <1>4

\* A float is read with its bytes turned round.
LEMMA ReadFloatIs ==
  ASSUME NEW v, IsValue(v, 5)
  PROVE  ReadValue(v.type, Written(v)) = [type |-> v.type, value |-> Reverse(v.value)]
<1>1. v.type = ValueTypes[5] /\ Ordinal(v.type) = 4
  BY Tables DEF IsValue
<1>2. ~(Ordinal(v.type) < Ordinal("f4")) /\ v.type = "f4"
  BY <1>1, Tables
<1>3. Written(v) = v.value
  BY <1>2 DEF Written
<1> QED BY <1>2, <1>3 DEF ReadValue

\* What comes out of a packet for an object.
LEMMA ReadAsIs ==
  ASSUME NEW x \in Object
  PROVE  GetValue(ReadValue(SetValue(x).type, Written(SetValue(x)))) = ReadAs(x)
<1> DEFINE v == SetValue(x)
<1>1. PICK t \in 1..8 : IsValueOf(v, x, t)
  BY SetValueIs
<1> HIDE DEF v
<1>2. IsValue(v, t)
  BY <1>1 DEF IsValueOf
<1>3. CASE x.class = "Float"
  <2>1. t = 5 /\ GetValue(v) = x
    BY <1>1, <1>3 DEF IsValueOf
  <2>2. ReadValue(v.type, Written(v)) = [type |-> v.type, value |-> Reverse(v.value)]
    BY <1>2, <2>1, ReadFloatIs
  <2>3. x.bytes = v.value /\ Classes[Ordinal(v.type) + 1] = "Float"
    BY <1>3, <2>1 DEF GetValue
  <2> QED BY <1>3, <2>2, <2>3 DEF GetValue, ReadAs, v
<1>4. CASE x.class = "Double"
  <2>1. v = [type |-> "i32", value |-> <<0, 0, 0, 0>>] /\ t # 5
    BY <1>1, <1>4 DEF IsValueOf
  <2>2. ReadValue(v.type, Written(v)) = v
    BY <1>2, <2>1, ReadValueIs
  <2>3. Classes[Ordinal("i32") + 1] = "Integer"
    BY Tables DEF Classes
  <2> QED BY <1>4, <2>1, <2>2, <2>3 DEF GetValue, ReadAs, v
<1>5. CASE x.class \notin {"Float", "Double"}
  <2>1. t # 5 /\ GetValue(v) = x
    BY <1>1, <1>5 DEF IsValueOf
  <2>2. ReadValue(v.type, Written(v)) = v
    BY <1>2, <2>1, ReadValueIs
  <2> QED BY <1>5, <2>1, <2>2 DEF ReadAs, v
<1> QED BY <1>3, <1>4, <1>5
-----------------------------------------------------------------------------
(* Parts of a sequence of bytes.                                           *)

\* s has t after its first at elements.
Holds(s, at, t) == \A k \in 1..Len(t) : s[at + k] = t[k]

\* The type and length of a concatenation.
LEMMA ConcatIs ==
  ASSUME NEW T, NEW t \in Seq(T), NEW u \in Seq(T)
  PROVE  t \o u \in Seq(T) /\ Len(t \o u) = Len(t) + Len(u)
BY ConcatProperties

\* One byte as a sequence.
LEMMA SingleIs ==
  ASSUME NEW T, NEW b \in T
  PROVE  <<b>> \in Seq(T) /\ Len(<<b>>) = 1 /\ <<b>>[1] = b
OBVIOUS

\* What holds a concatenation holds its parts, one behind the other.
LEMMA HoldsConcat ==
  ASSUME NEW T, NEW s, NEW at \in Nat, NEW t \in Seq(T), NEW u \in Seq(T),
         Holds(s, at, t \o u)
  PROVE  Holds(s, at, t) /\ Holds(s, at + Len(t), u)
<1> DEFINE w == t \o u
<1>1. Len(t) \in Nat /\ Len(u) \in Nat
  OBVIOUS
<1>2. /\ Len(w) = Len(t) + Len(u)
      /\ \A k \in 1..Len(t) : w[k] = t[k]
      /\ \A k \in 1..Len(u) : w[Len(t) + k] = u[k]
  BY ConcatParts DEF IsConcat
<1>3. \A k \in 1..Len(w) : s[at + k] = w[k]
  BY DEF Holds
<1> HIDE DEF w
<1>4. ASSUME NEW k \in 1..Len(t) PROVE s[at + k] = t[k]
  <2>1. k \in 1..Len(w)
    BY <1>1, <1>2
  <2> QED BY <1>2, <1>3, <2>1
<1>5. ASSUME NEW k \in 1..Len(u) PROVE s[(at + Len(t)) + k] = u[k]
  <2>1. Len(t) + k \in 1..Len(w) /\ at + (Len(t) + k) = (at + Len(t)) + k
    BY <1>1, <1>2
  <2> QED BY <1>2, <1>3, <2>1
<1> QED BY <1>4, <1>5 DEF Holds

\* A slice of the length of what is held is what is held.
LEMMA HoldsSlice ==
  ASSUME NEW T, NEW s \in Seq(T), NEW at \in Nat, NEW t \in Seq(T), Holds(s, at, t),
         at + Len(t) <= Len(s)
  PROVE  Slice(s, at, Len(t)) = t
<1> DEFINE m == Len(t)
           cut == Slice(s, at, m)
<1>1. m \in Nat /\ Len(s) \in Nat
  OBVIOUS
<1>2. cut = SubSeq(s, at + 1, at + m)
  BY DEF Slice
<1>3. \A i \in (at + 1)..(at + m) : s[i] \in T
  <2>1. \A i \in 1..Len(s) : s[i] \in T
    OBVIOUS
  <2> HIDE DEF m
  <2> QED BY <1>1, <2>1 DEF m
<1>4. /\ cut \in Seq(T) /\ Len(cut) = m
      /\ \A k \in 1..m : cut[k] = s[at + k]
  <2>1. m # 0 => /\ cut \in Seq(T)
                 /\ Len(cut) = ((at + m) - (at + 1)) + 1
                 /\ \A k \in 1..(((at + m) - (at + 1)) + 1) : cut[k] = s[((at + 1) + k) - 1]
    <3> HIDE DEF m
    <3> QED BY <1>1, <1>2, <1>3, SubSeqProperties
  <2>2. m = 0 => cut = <<>>
    <3> HIDE DEF m
    <3> QED BY <1>1, <1>2
  <2> HIDE DEF cut, m
  <2>3. ((at + m) - (at + 1)) + 1 = m /\ \A k \in 1..m : ((at + 1) + k) - 1 = at + k
    BY <1>1
  <2>4. CASE m # 0
    BY <2>1, <2>3, <2>4
  <2>5. CASE m = 0
    <3>1. cut \in Seq(T) /\ Len(cut) = m
      BY <2>2, <2>5
    <3> QED BY <2>5, <3>1
  <2> QED BY <2>4, <2>5
<1>5. \A k \in 1..m : s[at + k] = t[k]
  BY DEF Holds
<1>6. \A k \in 1..m : cut[k] = t[k]
  BY <1>4, <1>5
<1> HIDE DEF cut
<1> QED BY <1>4, <1>6 DEF cut

\* What holds joined sequences holds each at its offset.
LEMMA HoldsIn ==
  ASSUME NEW N \in Nat, NEW seqs, NEW lens \in [1..N -> Nat], NEW off, NEW s, NEW data,
         NEW at \in Nat, NEW i \in 1..N, Len(seqs[i]) = lens[i],
         Joins(N, seqs, lens, off, s), Holds(data, at, s)
  PROVE  Holds(data, at + off[i - 1], seqs[i])
<1>1. off[i - 1] \in Nat /\ lens[i] \in Nat /\ Len(s) \in Nat /\ off[i - 1] + lens[i] <= Len(s)
  <2>1. /\ i - 1 \in 0..N /\ N \in 0..N /\ off \in [0..N -> Nat] /\ Len(s) = off[N]
        /\ off[i] = off[i - 1] + lens[i] /\ off[i] <= off[N]
    BY DEF Joins
  <2> QED BY <2>1
<1> DEFINE o == off[i - 1]  n == lens[i]  t == seqs[i]
<1>2. \A k \in 1..n : s[o + k] = t[k]
  BY DEF Joins
<1>3. \A k \in 1..Len(s) : data[at + k] = s[k]
  BY DEF Holds
<1>4. o \in Nat /\ n \in Nat /\ o + n <= Len(s) /\ Len(t) = n
  BY <1>1
<1> HIDE DEF o, n, t
<1>5. ASSUME NEW k \in 1..n PROVE data[(at + o) + k] = t[k]
  <2>1. o + k \in 1..Len(s) /\ at + (o + k) = (at + o) + k
    BY <1>1, <1>4
  <2> QED BY <1>2, <1>3, <2>1
<1>6. Holds(data, at + o, t)
  BY <1>4, <1>5 DEF Holds
<1> QED BY <1>6 DEF o, t
-----------------------------------------------------------------------------
(* What the writer writes for an attribute, an entity, a list of entities.  *)

\* The lengths packed into a header are read back, and those of fields fit into three
\* bits each.
LEMMA HeaderIs ==
  ASSUME NEW n \in 0..4, NEW m \in 0..4, NEW x \in {0, 64, 192}, NEW h, h = n + 8 * m + x
  PROVE  /\ h \in Byte
         /\ Bits(h, 1, 8) = n /\ Bits(h, 8, 8) = m
         /\ (Bits(h, IsAttribute, 2) = 0 <=> x = 0)
         /\ (h >= OneByteLength <=> x = 192)
<1>1. h \in Byte
  BY DEF Byte
<1>2. (h \div 1) % 8 = n
  OBVIOUS
<1>3. (h \div 8) % 8 = m
  OBVIOUS
<1>4. (h \div 64) % 2 = 0 <=> x = 0
  OBVIOUS
<1>5. h >= 128 <=> x = 192
  OBVIOUS
<1> QED BY <1>1, <1>2, <1>3, <1>4, <1>5 DEF Bits, IsAttribute, OneByteLength

Data(a) == Written(Value(a))

\* The bytes that the length of a's value takes.
LengthLength(a) == IF Len(Data(a)) = 0 THEN 1 ELSE LengthOf(Len(Data(a)))

Mark(a) == IF LengthLength(a) < 2 THEN 192 ELSE 64
AttributeHead(a) == LengthOf(a.num) + 8 * LengthOf(a.type) + Mark(a)
LengthLengthBytes(a) == IF LengthLength(a) > 1 THEN <<LengthLength(a)>> ELSE <<>>
LengthBytes(a) == SubSeq(Array(Len(Data(a))), 1, LengthLength(a))

\* The parts of an attribute, and the data written for its value.
LEMMA DataIs ==
  ASSUME NEW a \in Attribute
  PROVE  /\ a.num \in Ints /\ a.type \in Ints /\ a.of \in Object
         /\ Data(a) \in Seq(Byte) /\ Len(Data(a)) \in Nat /\ Len(Data(a)) \in Ints
         /\ Ordinal(Value(a).type) \in 0..7
         /\ ValueTypes[Ordinal(Value(a).type) + 1] = Value(a).type
<1>1. a.num \in Ints /\ a.type \in Ints /\ a.of \in Object
  BY DEF Attribute
<1>2. PICK t \in 1..8 : IsValue(SetValue(a.of), t)
  BY <1>1, SetValueIs DEF IsValueOf
<1>3. /\ Ordinal(Value(a).type) = t - 1 /\ Data(a) \in Seq(Byte) /\ Len(Data(a)) <= MaxInt
  BY <1>2, WrittenIs DEF Value, Data
<1>4. Len(Data(a)) \in Nat
  BY <1>3
<1>5. Value(a).type = ValueTypes[t]
  BY <1>2 DEF IsValue, Value
<1>6. Ordinal(Value(a).type) + 1 = t
  BY <1>3
<1> QED BY <1>1, <1>3, <1>4, <1>5, <1>6, IntBounds

\* The length of the length, and the bytes that give the length.
LEMMA LengthLengthIs ==
  ASSUME NEW a \in Attribute
  PROVE  /\ LengthLength(a) \in 1..4
         /\ LengthBytes(a) \in Seq(Byte) /\ Len(LengthBytes(a)) = LengthLength(a)
         /\ LengthLength(a) < 2 => LengthBytes(a) = <<Len(Data(a))>>
         /\ LengthLength(a) > 1 => LengthBytes(a) = Field(Len(Data(a)))
         /\ LengthLength(a) = IF Len(Data(a)) < 256 THEN 1 ELSE LengthOf(Len(Data(a)))
         /\ LengthLengthBytes(a) \in Seq(Byte)
         /\ Len(LengthLengthBytes(a)) = IF LengthLength(a) > 1 THEN 1 ELSE 0
<1> DEFINE n == Len(Data(a))
<1>1. n \in Nat /\ n \in Ints /\ n \in Int
  BY DataIs
<1> HIDE DEF n
<1>2. LengthOf(n) \in 0..4 /\ (n # 0 => LengthOf(n) >= 1)
      /\ (n < 256 => LengthOf(n) <= 1) /\ (n >= 256 => LengthOf(n) >= 2)
  BY <1>1, LengthIs, SMT
<1>3. /\ LengthLength(a) \in 1..4
      /\ LengthLength(a) = IF n < 256 THEN 1 ELSE LengthOf(n)
      /\ LengthLength(a) < 2 => n < 256
      /\ LengthLength(a) > 1 => LengthLength(a) = LengthOf(n)
  BY <1>1, <1>2, SMT DEF LengthLength, n
<1> DEFINE m == LengthLength(a)
<1>4. LengthBytes(a) = SubSeq(Array(n), 1, m)
  BY DEF LengthBytes, n
<1>5. /\ LengthBytes(a) \in Seq(Byte) /\ Len(LengthBytes(a)) = m
      /\ \A i \in 1..m : LengthBytes(a)[i] = Low(n, i)
  <2>1. m \in 1..4
    BY <1>3
  <2> HIDE DEF m
  <2>2. \A i \in 1..m : Array(n)[i] \in Byte /\ Array(n)[i] = Low(n, i)
    BY <1>1, <2>1, ArrayIs
  <2> QED BY <1>4, <2>1, <2>2, SubSeqProperties
<1>6. m < 2 => LengthBytes(a) = <<n>>
  <2> SUFFICES ASSUME m < 2 PROVE LengthBytes(a) = <<n>>
    OBVIOUS
  <2>1. m = 1 /\ n < 256
    BY <1>3
  <2>2. Low(n, 1) = n
    <3>1. Power[1] = 1
      BY DEF Power
    <3> QED BY <1>1, <2>1, <3>1 DEF Low
  <2>3. Len(LengthBytes(a)) = 1 /\ LengthBytes(a)[1] = n /\ LengthBytes(a) \in Seq(Byte)
    BY <1>5, <2>1, <2>2
  <2> QED BY <2>3
<1>7. m > 1 => LengthBytes(a) = Field(n)
  BY <1>3, <1>4 DEF Field
<1>8. LengthLengthBytes(a) \in Seq(Byte) /\ Len(LengthLengthBytes(a)) = IF m > 1 THEN 1 ELSE 0
  <2>1. m \in Byte
    BY <1>3 DEF Byte
  <2> QED BY <2>1 DEF LengthLengthBytes
<1> QED BY <1>3, <1>5, <1>6, <1>7, <1>8 DEF n

AttributeParts(a) ==
  <<AttributeHead(a)>> \o Field(a.num) \o Field(a.type) \o <<Ordinal(Value(a).type)>>
  \o LengthLengthBytes(a) \o LengthBytes(a) \o Data(a)

\* The header byte of an attribute fits, and its bits say what was packed.
LEMMA AttributeHeadIs ==
  ASSUME NEW a \in Attribute
  PROVE  /\ AttributeHead(a) \in Byte
         /\ Bits(AttributeHead(a), 1, 8) = LengthOf(a.num)
         /\ Bits(AttributeHead(a), 8, 8) = LengthOf(a.type)
         /\ Bits(AttributeHead(a), IsAttribute, 2) # 0
         /\ AttributeHead(a) >= OneByteLength <=> LengthLength(a) < 2
<1>1. LengthOf(a.num) \in 0..4 /\ LengthOf(a.type) \in 0..4
  BY DataIs, FieldIs
<1>2. Mark(a) \in {0, 64, 192} /\ Mark(a) # 0 /\ (Mark(a) = 192 <=> LengthLength(a) < 2)
  BY DEF Mark
<1> QED BY <1>1, <1>2, HeaderIs DEF AttributeHead

\* The second loop writes an attribute as its named parts.
LEMMA AttributeBytesIs ==
  ASSUME NEW a \in Attribute
  PROVE  AttributeBytes(a) = AttributeParts(a)
<1>1. Data(a) \in Seq(Byte) /\ LengthLength(a) \in 1..4
  BY DataIs, LengthLengthIs
<1>2. LengthOf(a.num) \in 0..4 /\ LengthOf(a.type) \in 0..4
  BY DataIs, FieldIs
<1>3. Data(a) = <<>> <=> Len(Data(a)) = 0
  BY <1>1
<1>4. (IF Data(a) = <<>> THEN 1 ELSE LengthOf(Len(Data(a)))) = LengthLength(a)
  BY <1>3 DEF LengthLength
<1>5. FieldLengths(a.num, a.type) + IsAttribute + (IF LengthLength(a) < 2 THEN OneByteLength ELSE 0)
        = AttributeHead(a)
  BY <1>1, <1>2 DEF FieldLengths, IsAttribute, OneByteLength, AttributeHead, Mark
<1> QED BY <1>4, <1>5 DEF AttributeBytes, AttributeParts, LengthLengthBytes, LengthBytes, Data

\* w is four sequences over T after each other.
IsConcat4(T, w, p, q, r, s) ==
  /\ w \in Seq(T)
  /\ Len(w) = Len(p) + Len(q) + Len(r) + Len(s)
  /\ \A d : \A at \in Nat : Holds(d, at, w) =>
       /\ Holds(d, at, p) /\ Holds(d, at + Len(p), q)
       /\ Holds(d, at + Len(p) + Len(q), r)
       /\ Holds(d, at + Len(p) + Len(q) + Len(r), s)

\* IsConcat4 of four sequences.
LEMMA Concat4 ==
  ASSUME NEW T, NEW p \in Seq(T), NEW q \in Seq(T), NEW r \in Seq(T), NEW s \in Seq(T)
  PROVE  IsConcat4(T, p \o q \o r \o s, p, q, r, s)
<1> DEFINE pq == p \o q  pr == pq \o r
<1>1. /\ Len(p) \in Nat /\ Len(q) \in Nat /\ Len(r) \in Nat /\ Len(s) \in Nat
  OBVIOUS
<1>2. pq \in Seq(T) /\ Len(pq) = Len(p) + Len(q)
  BY ConcatIs
<1> HIDE DEF pq
<1>3. pr \in Seq(T) /\ Len(pr) = Len(pq) + Len(r)
  BY <1>2, ConcatIs
<1> HIDE DEF pr
<1>4. pr \o s \in Seq(T) /\ Len(pr \o s) = Len(pr) + Len(s)
  BY <1>3, ConcatIs
<1>5. ASSUME NEW d, NEW at \in Nat, Holds(d, at, pr \o s)
      PROVE  /\ Holds(d, at, p) /\ Holds(d, at + Len(p), q)
             /\ Holds(d, at + Len(p) + Len(q), r)
             /\ Holds(d, at + Len(p) + Len(q) + Len(r), s)
  <2>1. Holds(d, at, pr) /\ Holds(d, at + Len(pr), s)
    BY <1>3, <1>5, HoldsConcat
  <2>2. Holds(d, at, pq) /\ Holds(d, at + Len(pq), r)
    BY <1>2, <2>1, HoldsConcat DEF pr
  <2>3. Holds(d, at, p) /\ Holds(d, at + Len(p), q)
    BY <2>2, HoldsConcat DEF pq
  <2>4. at + Len(pq) = at + Len(p) + Len(q) /\ at + Len(pr) = at + Len(p) + Len(q) + Len(r)
    BY <1>1, <1>2, <1>3
  <2> QED BY <2>1, <2>2, <2>3, <2>4
<1>6. p \o q \o r \o s = pr \o s
  BY DEF pr, pq
<1>7. Len(pr \o s) = Len(p) + Len(q) + Len(r) + Len(s)
  BY <1>1, <1>2, <1>3, <1>4
<1> QED BY <1>4, <1>5, <1>6, <1>7, Zenon DEF IsConcat4

\* An attribute takes exactly AttributeSize bytes, and what holds them has each part
\* where the reader looks for it.
LEMMA AttributeLayout ==
  ASSUME NEW a \in Attribute
  PROVE  /\ AttributeBytes(a) \in Seq(Byte)
         /\ Len(AttributeBytes(a)) = AttributeSize(a)
         /\ AttributeSize(a) = 2 + LengthOf(a.num) + LengthOf(a.type)
              + Len(LengthLengthBytes(a)) + LengthLength(a) + Len(Data(a))
         /\ \A d : \A at \in Nat : Holds(d, at, AttributeBytes(a)) =>
              LET next == at + 1 + LengthOf(a.num) + LengthOf(a.type)
                  len == next + 1 + Len(LengthLengthBytes(a))
              IN /\ Holds(d, at, <<AttributeHead(a)>>)
                 /\ Holds(d, at + 1, Field(a.num))
                 /\ Holds(d, at + 1 + LengthOf(a.num), Field(a.type))
                 /\ Holds(d, next, <<Ordinal(Value(a).type)>>)
                 /\ Holds(d, next + 1, LengthLengthBytes(a))
                 /\ Holds(d, len, LengthBytes(a))
                 /\ Holds(d, len + LengthLength(a), Data(a))
<1> DEFINE p == <<AttributeHead(a)>>  q == Field(a.num)  r == Field(a.type)
           s == <<Ordinal(Value(a).type)>>
           t == LengthLengthBytes(a)  u == LengthBytes(a)  v == Data(a)
           front == p \o q \o r \o s
<1>1. /\ p \in Seq(Byte) /\ Len(p) = 1 /\ s \in Seq(Byte) /\ Len(s) = 1
  <2>1. AttributeHead(a) \in Byte
    BY AttributeHeadIs
  <2>2. Ordinal(Value(a).type) \in Byte
    BY DataIs DEF Byte
  <2> QED BY <2>1, <2>2, SingleIs
<1>2. /\ q \in Seq(Byte) /\ Len(q) = LengthOf(a.num) /\ LengthOf(a.num) \in Nat
      /\ r \in Seq(Byte) /\ Len(r) = LengthOf(a.type) /\ LengthOf(a.type) \in Nat
  BY DataIs, FieldIs
<1>3. /\ t \in Seq(Byte) /\ u \in Seq(Byte) /\ Len(u) = LengthLength(a)
      /\ LengthLength(a) \in Nat /\ v \in Seq(Byte) /\ Len(v) \in Nat /\ Len(t) \in Nat
  BY DataIs, LengthLengthIs
<1>4. AttributeBytes(a) = front \o t \o u \o v
  BY AttributeBytesIs DEF AttributeParts
<1>5. AttributeSize(a) = 2 + LengthOf(a.num) + LengthOf(a.type) + Len(t) + LengthLength(a) + Len(v)
  <2>1. Len(v) < 256 => LengthLength(a) = 1 /\ Len(t) = 0
    BY LengthLengthIs
  <2>2. ~(Len(v) < 256) => LengthLength(a) = LengthOf(Len(v)) /\ Len(t) = 1
    <3>1. ~(Len(v) < 256) => LengthOf(Len(v)) >= 2
      BY DataIs, LengthIs, SMT
    <3> QED BY <3>1, LengthLengthIs
  <2>0. /\ LengthOf(a.num) \in Nat /\ LengthOf(a.type) \in Nat
        /\ LengthLength(a) \in Nat /\ Len(v) \in Nat /\ Len(t) \in Nat
    BY <1>2, <1>3
  <2>3. CASE Len(v) < 256
    <3>1. AttributeSize(a) = 1 + LengthOf(a.num) + LengthOf(a.type) + (2 + Len(v))
      BY <2>3 DEF AttributeSize, Data
    <3> HIDE DEF p, q, r, s, t, u, v, front
    <3> QED BY <2>0, <2>1, <2>3, <3>1, SMT
  <2>4. CASE ~(Len(v) < 256)
    <3>1. AttributeSize(a) = 1 + LengthOf(a.num) + LengthOf(a.type) + (2 + LengthOf(Len(v)) + Len(v))
      BY <2>4 DEF AttributeSize, Data
    <3> HIDE DEF p, q, r, s, t, u, v, front
    <3>2. LengthOf(Len(v)) = LengthLength(a) /\ Len(t) = 1
      BY <2>2, <2>4
    <3>3. AttributeSize(a) = 1 + LengthOf(a.num) + LengthOf(a.type) + (2 + LengthLength(a) + Len(v))
      BY <3>1, <3>2
    <3> QED BY <2>0, <3>2, <3>3, SMT
  <2> QED BY <2>3, <2>4
<1> HIDE DEF p, q, r, s, t, u, v
<1>0. IsConcat4(Byte, front, p, q, r, s)
  BY <1>1, <1>2, Concat4
<1>6. front \in Seq(Byte) /\ Len(front) = 2 + LengthOf(a.num) + LengthOf(a.type)
  <2> HIDE DEF front
  <2> QED BY <1>0, <1>1, <1>2 DEF IsConcat4
<1>7. \A d : \A at \in Nat : Holds(d, at, front) =>
        /\ Holds(d, at, p) /\ Holds(d, at + 1, q)
        /\ Holds(d, at + 1 + LengthOf(a.num), r)
        /\ Holds(d, at + 1 + LengthOf(a.num) + LengthOf(a.type), s)
  <2> HIDE DEF front
  <2> QED BY <1>0, <1>1, <1>2 DEF IsConcat4
<1> HIDE DEF front
<1>8. /\ AttributeBytes(a) \in Seq(Byte)
      /\ Len(AttributeBytes(a)) = Len(front) + Len(t) + Len(u) + Len(v)
      /\ \A d : \A at \in Nat : Holds(d, at, AttributeBytes(a)) =>
           /\ Holds(d, at, front) /\ Holds(d, at + Len(front), t)
           /\ Holds(d, at + Len(front) + Len(t), u)
           /\ Holds(d, at + Len(front) + Len(t) + Len(u), v)
  <2>1. IsConcat4(Byte, AttributeBytes(a), front, t, u, v)
    BY <1>3, <1>4, <1>6, Concat4
  <2> QED BY <2>1, Zenon DEF IsConcat4
<1>9. Len(AttributeBytes(a)) = AttributeSize(a)
  BY <1>2, <1>3, <1>5, <1>6, <1>8
<1>10. ASSUME NEW d, NEW at \in Nat, Holds(d, at, AttributeBytes(a))
       PROVE  LET next == at + 1 + LengthOf(a.num) + LengthOf(a.type)
                  len == next + 1 + Len(t)
              IN /\ Holds(d, at, p) /\ Holds(d, at + 1, q)
                 /\ Holds(d, at + 1 + LengthOf(a.num), r)
                 /\ Holds(d, next, s) /\ Holds(d, next + 1, t)
                 /\ Holds(d, len, u) /\ Holds(d, len + LengthLength(a), v)
  <2>1. /\ Holds(d, at, front) /\ Holds(d, at + Len(front), t)
        /\ Holds(d, at + Len(front) + Len(t), u)
        /\ Holds(d, at + Len(front) + Len(t) + Len(u), v)
    BY <1>8, <1>10
  <2>2. at + Len(front) = (at + 1 + LengthOf(a.num) + LengthOf(a.type)) + 1
    BY <1>2, <1>6
  <2> QED BY <1>3, <1>7, <2>1, <2>2
<1> QED BY <1>5, <1>8, <1>9, <1>10 DEF p, q, r, s, t, u, v

EntityHead(e) == FieldLengths(e.num, e.type)
AttributeSeqs(e) == [i \in 1..Len(e.attributes) |-> AttributeBytes(e.attributes[i])]
AttributeLens(e) == [i \in 1..Len(e.attributes) |-> AttributeSize(e.attributes[i])]
AttributeList(e) == FlattenSeq(AttributeSeqs(e))

\* The header byte of an entity fits, and its bits say what was packed.
LEMMA EntityHeadIs ==
  ASSUME NEW e \in EntityL
  PROVE  /\ e.num \in Ints /\ e.type \in Ints /\ e.attributes \in Seq(Attribute)
         /\ EntityHead(e) \in Byte
         /\ Bits(EntityHead(e), 1, 8) = LengthOf(e.num)
         /\ Bits(EntityHead(e), 8, 8) = LengthOf(e.type)
         /\ Bits(EntityHead(e), IsAttribute, 2) = 0
<1>1. e.num \in Ints /\ e.type \in Ints /\ e.attributes \in Seq(Attribute)
  BY DEF EntityL
<1>2. LengthOf(e.num) \in 0..4 /\ LengthOf(e.type) \in 0..4
  BY <1>1, FieldIs
<1> DEFINE n == LengthOf(e.num)  m == LengthOf(e.type)
<1>3. EntityHead(e) = n + 8 * m + 0
  BY <1>2 DEF EntityHead, FieldLengths
<1> HIDE DEF n, m
<1>4. /\ EntityHead(e) \in Byte /\ Bits(EntityHead(e), 1, 8) = n
      /\ Bits(EntityHead(e), 8, 8) = m /\ Bits(EntityHead(e), IsAttribute, 2) = 0
  BY <1>2, <1>3, HeaderIs DEF n, m
<1> QED BY <1>1, <1>4 DEF n, m

\* The attributes of an entity are joined, each as long as the first loop counted.
LEMMA AttributeListIs ==
  ASSUME NEW e \in EntityL
  PROVE  /\ AttributeSeqs(e) \in [1..Len(e.attributes) -> Seq(Byte)]
         /\ AttributeLens(e) \in [1..Len(e.attributes) -> Nat]
         /\ \A i \in 1..Len(e.attributes) : Len(AttributeSeqs(e)[i]) = AttributeLens(e)[i]
         /\ AttributeList(e) \in Seq(Byte)
         /\ Len(AttributeList(e)) = Total(AttributeLens(e))
         /\ \E off : Joins(Len(e.attributes), AttributeSeqs(e), AttributeLens(e), off,
                           AttributeList(e))
<1> DEFINE N == Len(e.attributes)
<1>1. N \in Nat /\ \A i \in 1..N : e.attributes[i] \in Attribute
  BY EntityHeadIs
<1>2. \A i \in 1..N : /\ AttributeBytes(e.attributes[i]) \in Seq(Byte)
                      /\ Len(AttributeBytes(e.attributes[i])) = AttributeSize(e.attributes[i])
                      /\ AttributeSize(e.attributes[i]) \in Nat
  <2> SUFFICES ASSUME NEW a \in Attribute
               PROVE  /\ AttributeBytes(a) \in Seq(Byte)
                      /\ Len(AttributeBytes(a)) = AttributeSize(a)
                      /\ AttributeSize(a) \in Nat
    BY <1>1
  <2>1. AttributeBytes(a) \in Seq(Byte) /\ Len(AttributeBytes(a)) = AttributeSize(a)
    BY AttributeLayout
  <2> QED BY <2>1, LenProperties
<1>3. /\ AttributeSeqs(e) \in [1..N -> Seq(Byte)]
      /\ AttributeLens(e) \in [1..N -> Nat]
      /\ \A i \in 1..N : Len(AttributeSeqs(e)[i]) = AttributeLens(e)[i]
  BY <1>2 DEF AttributeSeqs, AttributeLens
<1> DEFINE seqs == AttributeSeqs(e)  lens == AttributeLens(e)
<1> HIDE DEF N, seqs, lens
<1>4. /\ FlattenSeq(seqs) \in Seq(Byte)
      /\ Len(FlattenSeq(seqs)) = Total(lens)
      /\ \E off : Joins(N, seqs, lens, off, FlattenSeq(seqs))
  <2>1. /\ seqs \in [1..N -> Seq(Byte)] /\ lens \in [1..N -> Nat]
        /\ \A i \in 1..N : Len(seqs[i]) = lens[i]
    BY <1>3 DEF seqs, lens
  <2> QED BY <1>1, <2>1, FlattenJoins
<1> QED BY <1>3, <1>4 DEF AttributeList, N, seqs, lens

\* An entity takes exactly EntitySize bytes, and what holds them has its header, fields
\* and attributes where the reader looks for them.
LEMMA EntityLayout ==
  ASSUME NEW e \in EntityL
  PROVE  /\ EntityBytes(e) \in Seq(Byte)
         /\ Len(EntityBytes(e)) = EntitySize(e)
         /\ EntitySize(e) = 1 + LengthOf(e.num) + LengthOf(e.type) + Len(AttributeList(e))
         /\ \A d : \A at \in Nat : Holds(d, at, EntityBytes(e)) =>
              /\ Holds(d, at, <<EntityHead(e)>>)
              /\ Holds(d, at + 1, Field(e.num))
              /\ Holds(d, at + 1 + LengthOf(e.num), Field(e.type))
              /\ Holds(d, at + 1 + LengthOf(e.num) + LengthOf(e.type), AttributeList(e))
<1> DEFINE p == <<EntityHead(e)>>  q == Field(e.num)  r == Field(e.type)  s == AttributeList(e)
<1>1. p \in Seq(Byte) /\ Len(p) = 1
  BY EntityHeadIs, SingleIs
<1>2. /\ q \in Seq(Byte) /\ Len(q) = LengthOf(e.num) /\ LengthOf(e.num) \in Nat
      /\ r \in Seq(Byte) /\ Len(r) = LengthOf(e.type) /\ LengthOf(e.type) \in Nat
  BY EntityHeadIs, FieldIs
<1>3. s \in Seq(Byte) /\ Len(s) = Total(AttributeLens(e))
  BY AttributeListIs
<1>4. DOMAIN e.attributes = 1..Len(e.attributes)
  BY EntityHeadIs
<1>5. EntityBytes(e) = p \o q \o r \o s
  BY <1>4 DEF EntityBytes, EntityHead, AttributeList, AttributeSeqs
<1>6. EntitySize(e) = 1 + LengthOf(e.num) + LengthOf(e.type) + Len(s)
  <2>1. EntitySize(e) = 1 + LengthOf(e.num) + LengthOf(e.type) + Total(AttributeLens(e))
    BY <1>4 DEF EntitySize, AttributeLens
  <2> HIDE DEF s
  <2> QED BY <1>3, <2>1
<1> HIDE DEF p, q, r, s
<1>7. IsConcat4(Byte, EntityBytes(e), p, q, r, s)
  BY <1>1, <1>2, <1>3, <1>5, Concat4
<1>8. /\ EntityBytes(e) \in Seq(Byte)
      /\ Len(EntityBytes(e)) = Len(p) + Len(q) + Len(r) + Len(s)
      /\ \A d : \A at \in Nat : Holds(d, at, EntityBytes(e)) =>
              /\ Holds(d, at, p)
              /\ Holds(d, at + Len(p), q)
              /\ Holds(d, at + Len(p) + Len(q), r)
              /\ Holds(d, at + Len(p) + Len(q) + Len(r), s)
  BY <1>7, Zenon DEF IsConcat4
<1>9. Len(EntityBytes(e)) = EntitySize(e)
  BY <1>1, <1>2, <1>6, <1>8
<1>10. \A d : \A at \in Nat : Holds(d, at, EntityBytes(e)) =>
              /\ Holds(d, at, p)
              /\ Holds(d, at + 1, q)
              /\ Holds(d, at + 1 + LengthOf(e.num), r)
              /\ Holds(d, at + 1 + LengthOf(e.num) + LengthOf(e.type), s)
  BY <1>1, <1>2, <1>8
<1> QED BY <1>6, <1>8, <1>9, <1>10 DEF p, q, r, s

EntitySeqs(es) == [i \in 1..Len(es) |-> EntityBytes(es[i])]
EntityLens(es) == [i \in 1..Len(es) |-> EntitySize(es[i])]

\* The loop that adds up and the loop that writes agree.
LEMMA BodyLayout ==
  ASSUME NEW es \in Seq(EntityL)
  PROVE  /\ Body(es) \in Seq(Byte)
         /\ Len(Body(es)) = Size(es)
         /\ EntitySeqs(es) \in [1..Len(es) -> Seq(Byte)]
         /\ EntityLens(es) \in [1..Len(es) -> Nat]
         /\ \A i \in 1..Len(es) : Len(EntitySeqs(es)[i]) = EntityLens(es)[i]
         /\ \E off : Joins(Len(es), EntitySeqs(es), EntityLens(es), off, Body(es))
<1> DEFINE N == Len(es)
<1>1. N \in Nat /\ \A i \in 1..N : es[i] \in EntityL
  OBVIOUS
<1>2. \A i \in 1..N : /\ EntityBytes(es[i]) \in Seq(Byte)
                      /\ Len(EntityBytes(es[i])) = EntitySize(es[i])
                      /\ EntitySize(es[i]) \in Nat
  <2> SUFFICES ASSUME NEW e \in EntityL
               PROVE  /\ EntityBytes(e) \in Seq(Byte)
                      /\ Len(EntityBytes(e)) = EntitySize(e)
                      /\ EntitySize(e) \in Nat
    BY <1>1
  <2>1. EntityBytes(e) \in Seq(Byte) /\ Len(EntityBytes(e)) = EntitySize(e)
    BY EntityLayout
  <2> QED BY <2>1, LenProperties
<1>3. /\ EntitySeqs(es) \in [1..N -> Seq(Byte)]
      /\ EntityLens(es) \in [1..N -> Nat]
      /\ \A i \in 1..N : Len(EntitySeqs(es)[i]) = EntityLens(es)[i]
  BY <1>2 DEF EntitySeqs, EntityLens
<1> DEFINE seqs == EntitySeqs(es)  lens == EntityLens(es)
<1>4. Body(es) = FlattenSeq(seqs) /\ Size(es) = Total(lens)
  <2>1. DOMAIN es = 1..Len(es)
    OBVIOUS
  <2> QED BY <2>1 DEF Body, Size, EntitySeqs, EntityLens
<1> HIDE DEF N, seqs, lens
<1>5. /\ FlattenSeq(seqs) \in Seq(Byte)
      /\ Len(FlattenSeq(seqs)) = Total(lens)
      /\ \E off : Joins(N, seqs, lens, off, FlattenSeq(seqs))
  <2>1. /\ seqs \in [1..N -> Seq(Byte)] /\ lens \in [1..N -> Nat]
        /\ \A i \in 1..N : Len(seqs[i]) = lens[i]
    BY <1>3 DEF seqs, lens
  <2> QED BY <1>1, <2>1, FlattenJoins
<1> QED BY <1>3, <1>4, <1>5 DEF N, seqs, lens

PacketHead(es, id) == LengthOf(id) + 4 * LengthOf(Size(es))
Header(es, id, command) == <<PacketHead(es, id), 0, 0, command>>

\* What a request is: create's arguments.
IsRequest(es, id, command) == es \in EntityLists /\ id \in PacketIDs /\ command \in Commands

\* What CodecAssumption gives for a request: its body is Size bytes long, and all of the
\* numbers in its header are ints.
LEMMA RequestIs ==
  ASSUME NEW es, NEW id, NEW command, IsRequest(es, id, command)
  PROVE  /\ es \in Seq(EntityL) /\ Size(es) \in Nat /\ Size(es) \in Ints
         /\ Body(es) \in Seq(Byte) /\ Len(Body(es)) = Size(es)
         /\ Padded(Body(es), Size(es)) = Body(es)
         /\ id \in Ints /\ LengthOf(id) \in 1..3
         /\ LengthOf(Size(es)) \in 0..4
         /\ Header(es, id, command) \in Seq(Byte)
         /\ Bits(PacketHead(es, id), 1, 4) = LengthOf(id)
         /\ Bits(PacketHead(es, id), 4, 8) = LengthOf(Size(es))
<1>1. es \in Seq(EntityL) /\ HeaderSize + 3 + 4 + Size(es) <= MaxInt /\ id \in Ids
      /\ command \in 0..127
  <2>1. es \in EntityLists /\ id \in PacketIDs /\ command \in Commands
    BY DEF IsRequest
  <2>2. es \in Seq(EntityL)
    BY <2>1, CodecAssumption DEF CodecAssumption
  <2>3. HeaderSize + 3 + 4 + Size(es) <= MaxInt
    BY <2>1, CodecAssumption DEF CodecAssumption
  <2>4. id \in Ids /\ command \in 0..127
    BY <2>1, CodecAssumption DEF CodecAssumption
  <2> QED BY <2>2, <2>3, <2>4
<1>2. Body(es) \in Seq(Byte) /\ Len(Body(es)) = Size(es)
  BY <1>1, BodyLayout
<1>3. Size(es) \in Nat
  BY <1>2, LenProperties
<1>4. Size(es) \in Ints
  <2>1. Size(es) <= MaxInt
    BY <1>1, <1>3, IntBounds DEF HeaderSize
  <2> QED BY <1>3, <2>1, IntBounds
<1>5. id \in Ints
  <2>1. id < 16777216 /\ id \in Nat
    BY <1>1, SMT DEF Ids, Power
  <2>2. id <= MaxInt
    BY <2>1, IntBounds, SMT
  <2> QED BY <2>1, <2>2, IntBounds
<1>6. LengthOf(id) \in 1..3
  <2>1. id >= 1 /\ id < 16777216 /\ id \in Int
    BY <1>1, SMT DEF Ids, Power
  <2> QED BY <1>5, <2>1, LengthIs, SMT
<1>7. LengthOf(Size(es)) \in 0..4
  BY <1>4, FieldIs
<1> DEFINE h == PacketHead(es, id)  n == LengthOf(id)  m == LengthOf(Size(es))
<1>8. h \in Byte /\ Bits(h, 1, 4) = n /\ Bits(h, 4, 8) = m
  <2>1. h = n + 4 * m /\ n \in 1..3 /\ m \in 0..4
    BY <1>6, <1>7 DEF PacketHead
  <2> HIDE DEF h, n, m
  <2>2. h \in Byte
    BY <2>1 DEF Byte
  <2>3. (h \div 1) % 4 = n
    BY <2>1
  <2>4. (h \div 4) % 8 = m
    BY <2>1
  <2> QED BY <2>2, <2>3, <2>4 DEF Bits
<1>9. Header(es, id, command) \in Seq(Byte)
  <2>1. h \in Byte /\ 0 \in Byte /\ command \in Byte
    BY <1>1, <1>8 DEF Byte
  <2> HIDE DEF h
  <2>2. <<h, 0, 0, command>> \in Seq(Byte)
    BY <2>1
  <2> QED BY <2>2 DEF Header, h
<1>10. Padded(Body(es), Size(es)) = Body(es)
  <2> DEFINE b == Body(es)  k == Size(es)
  <2>1. b \in Seq(Byte) /\ Len(b) = k /\ k \in Nat
    BY <1>2, <1>3
  <2> HIDE DEF b, k
  <2>2. Padded(b, k) = [i \in 1..k |-> b[i]]
    BY <2>1 DEF Padded
  <2> QED BY <2>1, <2>2 DEF b, k
<1> QED BY <1>1, <1>2, <1>3, <1>4, <1>5, <1>6, <1>7, <1>8, <1>9, <1>10

BodyAt(es, id) == HeaderSize + LengthOf(id) + LengthOf(Size(es))

\* A packet is bytes: its header, id, size and body, each at its place.
LEMMA PacketLayout ==
  ASSUME NEW es, NEW id, NEW command, IsRequest(es, id, command)
  PROVE  LET bytes == SetRequestData(es, id, command).bytes
         IN /\ bytes \in Seq(Byte)
            /\ Len(bytes) = BodyAt(es, id) + Size(es)
            /\ SetRequestData(es, id, command).crc = Covered(Body(es), Size(es))
            /\ Holds(bytes, 0, Header(es, id, command))
            /\ Holds(bytes, HeaderSize, Field(id))
            /\ Holds(bytes, HeaderSize + LengthOf(id), Field(Size(es)))
            /\ Holds(bytes, BodyAt(es, id), Body(es))
<1> DEFINE p == Header(es, id, command)  q == Field(id)  r == Field(Size(es))  s == Body(es)
           bytes == SetRequestData(es, id, command).bytes
<1>1. /\ p \in Seq(Byte) /\ s \in Seq(Byte) /\ Len(s) = Size(es) /\ Size(es) \in Nat
      /\ id \in Ints /\ Size(es) \in Ints
  BY RequestIs
<1>2. Len(p) = 4
  BY DEF Header
<1>3. /\ q \in Seq(Byte) /\ Len(q) = LengthOf(id) /\ LengthOf(id) \in Nat
      /\ r \in Seq(Byte) /\ Len(r) = LengthOf(Size(es)) /\ LengthOf(Size(es)) \in Nat
  BY <1>1, FieldIs
<1>4. bytes = p \o q \o r \o s /\ SetRequestData(es, id, command).crc = Covered(Body(es), Size(es))
  <2>1. Padded(Body(es), Size(es)) = Body(es)
    BY RequestIs
  <2> QED BY <2>1 DEF SetRequestData, Header, PacketHead
<1> HIDE DEF p, q, r, s, bytes
<1>5. IsConcat4(Byte, bytes, p, q, r, s)
  BY <1>1, <1>3, <1>4, Concat4
<1>6. /\ bytes \in Seq(Byte)
      /\ Len(bytes) = Len(p) + Len(q) + Len(r) + Len(s)
      /\ \A d : \A at \in Nat : Holds(d, at, bytes) =>
              /\ Holds(d, at, p)
              /\ Holds(d, at + Len(p), q)
              /\ Holds(d, at + Len(p) + Len(q), r)
              /\ Holds(d, at + Len(p) + Len(q) + Len(r), s)
  BY <1>5, Zenon DEF IsConcat4
<1>7. Holds(bytes, 0, bytes)
  BY <1>6 DEF Holds
<1>8. /\ Holds(bytes, 0, p)
      /\ Holds(bytes, 0 + Len(p), q)
      /\ Holds(bytes, 0 + Len(p) + Len(q), r)
      /\ Holds(bytes, 0 + Len(p) + Len(q) + Len(r), s)
  <2>1. 0 \in Nat
    OBVIOUS
  <2> QED BY <1>6, <1>7, <2>1, Zenon
<1>9. /\ 0 + Len(p) = HeaderSize /\ 0 + Len(p) + Len(q) = HeaderSize + LengthOf(id)
      /\ 0 + Len(p) + Len(q) + Len(r) = BodyAt(es, id)
      /\ Len(bytes) = BodyAt(es, id) + Size(es)
  BY <1>1, <1>2, <1>3, <1>6 DEF HeaderSize, BodyAt
<1> QED BY <1>4, <1>6, <1>8, <1>9 DEF p, q, r, s, bytes
-----------------------------------------------------------------------------
(* What the reader finds in the first n bytes of a packet.                  *)

\* The first n bytes hold what lies within them.
LEMMA PrefixIs ==
  ASSUME NEW s \in Seq(Byte), NEW n \in 0..Len(s)
  PROVE  /\ SubSeq(s, 1, n) \in Seq(Byte) /\ Len(SubSeq(s, 1, n)) = n
         /\ \A at \in Nat : \A t \in Seq(Byte) :
              Holds(s, at, t) /\ at + Len(t) <= n => Holds(SubSeq(s, 1, n), at, t)
<1> DEFINE d == SubSeq(s, 1, n)
<1>1. /\ d \in Seq(Byte) /\ Len(d) = n /\ \A k \in 1..n : d[k] = s[k]
  <2>1. \A k \in 1..n : s[k] \in Byte
    OBVIOUS
  <2> QED BY <2>1, SubSeqProperties
<1> HIDE DEF d
<1>2. ASSUME NEW at \in Nat, NEW t \in Seq(Byte), Holds(s, at, t), at + Len(t) <= n
      PROVE  Holds(d, at, t)
  <2>1. \A k \in 1..Len(t) : at + k \in 1..n
    BY <1>2
  <2> QED BY <1>1, <1>2, <2>1 DEF Holds
<1> QED BY <1>1, <1>2 DEF d

\* So a slice of them is the slice of the whole.
LEMMA PrefixSlice ==
  ASSUME NEW s \in Seq(Byte), NEW n \in 0..Len(s), NEW at \in Nat, NEW t \in Seq(Byte),
         Holds(s, at, t), at + Len(t) <= n
  PROVE  Slice(SubSeq(s, 1, n), at, Len(t)) = t
<1> DEFINE d == SubSeq(s, 1, n)
<1>1. d \in Seq(Byte) /\ Len(d) = n /\ Holds(d, at, t)
  BY PrefixIs
<1> HIDE DEF d
<1>2. Slice(d, at, Len(t)) = t
  BY <1>1, HoldsSlice
<1> QED BY <1>2 DEF d

\* d has n bytes, and its header says id, command and the size of es.
HeaderSays(es, id, command, d, n) ==
  /\ d \in Seq(Byte) /\ Len(d) = n
  /\ HeaderSize <= n => /\ Bits(At(d, 0), 1, 4) = LengthOf(id)
                        /\ Bits(At(d, 0), 4, 8) = LengthOf(Size(es))
                        /\ At(d, 3) = command
  /\ BodyAt(es, id) <= n =>
       /\ GetInt(Slice(d, HeaderSize, LengthOf(id))) = id
       /\ GetInt(Slice(d, HeaderSize + LengthOf(id), LengthOf(Size(es)))) = Size(es)

\* The header read from the first n bytes of a packet is the header written, as far as
\* it is there.
LEMMA HeaderRead ==
  ASSUME NEW es, NEW id, NEW command, IsRequest(es, id, command),
         NEW bytes, bytes = SetRequestData(es, id, command).bytes,
         NEW n \in 0..Len(bytes), NEW d, d = SubSeq(bytes, 1, n)
  PROVE  HeaderSays(es, id, command, d, n)
<1>1. /\ bytes \in Seq(Byte)
      /\ Len(bytes) = BodyAt(es, id) + Size(es)
      /\ Holds(bytes, 0, Header(es, id, command))
      /\ Holds(bytes, HeaderSize, Field(id))
      /\ Holds(bytes, HeaderSize + LengthOf(id), Field(Size(es)))
  BY PacketLayout
<1>2. /\ Size(es) \in Ints /\ id \in Ints
      /\ LengthOf(id) \in Nat /\ LengthOf(Size(es)) \in Nat
      /\ Header(es, id, command) \in Seq(Byte)
      /\ Bits(PacketHead(es, id), 1, 4) = LengthOf(id)
      /\ Bits(PacketHead(es, id), 4, 8) = LengthOf(Size(es))
  <2>1. LengthOf(id) \in 1..3 /\ LengthOf(Size(es)) \in 0..4
    BY RequestIs
  <2>2. LengthOf(id) \in Nat /\ LengthOf(Size(es)) \in Nat
    BY <2>1
  <2> QED BY <2>2, RequestIs
<1>3. d \in Seq(Byte) /\ Len(d) = n
  BY <1>1, PrefixIs
<1>4. ASSUME HeaderSize <= n
      PROVE  At(d, 0) = PacketHead(es, id) /\ At(d, 3) = command
  <2> DEFINE h == Header(es, id, command)
  <2>1. h \in Seq(Byte) /\ Len(h) = 4 /\ h[1] = PacketHead(es, id) /\ h[4] = command
    BY <1>2 DEF Header
  <2> HIDE DEF h
  <2>2. Holds(d, 0, h)
    <3>1. 0 \in Nat /\ 0 + Len(h) <= n
      BY <1>4, <2>1 DEF HeaderSize
    <3> QED BY <1>1, <2>1, <3>1, PrefixIs DEF h
  <2>3. \A k \in 1..4 : d[0 + k] = h[k]
    BY <2>1, <2>2 DEF Holds
  <2>4. d[0 + 1] = h[1] /\ d[0 + 4] = h[4]
    <3>1. 1 \in 1..4 /\ 4 \in 1..4
      OBVIOUS
    <3> QED BY <2>3, <3>1, Zenon
  <2>5. 0 + 4 = 3 + 1
    OBVIOUS
  <2> QED BY <2>1, <2>4, <2>5, Zenon DEF At
<1>5. ASSUME BodyAt(es, id) <= n
      PROVE  /\ GetInt(Slice(d, HeaderSize, LengthOf(id))) = id
             /\ GetInt(Slice(d, HeaderSize + LengthOf(id), LengthOf(Size(es)))) = Size(es)
  <2> DEFINE p == Field(id)  q == Field(Size(es))
  <2>1. /\ p \in Seq(Byte) /\ Len(p) = LengthOf(id)
        /\ q \in Seq(Byte) /\ Len(q) = LengthOf(Size(es))
    BY <1>2, FieldIs
  <2>2. GetInt(p) = id /\ GetInt(q) = Size(es)
    BY <1>2, FieldRoundTrip
  <2> HIDE DEF p, q
  <2>3. /\ HeaderSize \in Nat /\ HeaderSize + LengthOf(id) \in Nat
        /\ HeaderSize + Len(p) <= n /\ (HeaderSize + LengthOf(id)) + Len(q) <= n
    BY <1>2, <1>5, <2>1 DEF BodyAt, HeaderSize
  <2>4. Slice(d, HeaderSize, Len(p)) = p
    BY <1>1, <2>1, <2>3, PrefixSlice DEF p
  <2>5. Slice(d, HeaderSize + LengthOf(id), Len(q)) = q
    BY <1>1, <2>1, <2>3, PrefixSlice DEF q
  <2> QED BY <2>1, <2>2, <2>4, <2>5
<1>6. HeaderSize <= n => /\ Bits(At(d, 0), 1, 4) = LengthOf(id)
                          /\ Bits(At(d, 0), 4, 8) = LengthOf(Size(es))
                          /\ At(d, 3) = command
  BY <1>2, <1>4
<1> QED BY <1>3, <1>5, <1>6, Zenon DEF HeaderSays

\* A packet that lost its end is refused as long as the CRC covers it to its end.
LEMMA PrefixThrows ==
  ASSUME NEW es, NEW id, NEW command, IsRequest(es, id, command),
         NEW p, p = SetRequestData(es, id, command), Size(es) <= CrcLimit,
         NEW n \in 0..Len(p.bytes), n < Len(p.bytes)
  PROVE  CreateFromArray(p.crc, SubSeq(p.bytes, 1, n)) = Thrown
<1> DEFINE bytes == p.bytes
           d == SubSeq(bytes, 1, n)
<1>1. /\ Len(d) = n
      /\ HeaderSize <= n => /\ Bits(At(d, 0), 1, 4) = LengthOf(id)
                            /\ Bits(At(d, 0), 4, 8) = LengthOf(Size(es))
      /\ BodyAt(es, id) <= n =>
           GetInt(Slice(d, HeaderSize + LengthOf(id), LengthOf(Size(es)))) = Size(es)
  <2>1. bytes = SetRequestData(es, id, command).bytes /\ n \in 0..Len(bytes)
        /\ d = SubSeq(bytes, 1, n)
    OBVIOUS
  <2> HIDE DEF bytes, d
  <2>2. HeaderSays(es, id, command, d, n)
    BY <2>1, HeaderRead
  <2> QED BY <2>2, Zenon DEF HeaderSays
<1>2. Len(bytes) = BodyAt(es, id) + Size(es) /\ n < BodyAt(es, id) + Size(es)
  BY PacketLayout
<1>3. Size(es) \in Nat /\ CrcLimit \in Nat
  BY RequestIs, CodecAssumption DEF CodecAssumption
<1> HIDE DEF d, bytes
<1>4. CASE n < HeaderSize
  <2>1. Len(d) < HeaderSize
    BY <1>1, <1>4
  <2> QED BY <2>1 DEF CreateFromArray, d, bytes
<1>5. CASE HeaderSize <= n /\ n < BodyAt(es, id)
  <2>1. Len(d) < HeaderSize + Bits(At(d, 0), 1, 4) + Bits(At(d, 0), 4, 8)
    BY <1>1, <1>5 DEF BodyAt
  <2> QED BY <2>1 DEF CreateFromArray, d, bytes
<1>6. CASE HeaderSize <= n /\ BodyAt(es, id) <= n
  <2>1. LengthOf(id) = Bits(At(d, 0), 1, 4) /\ LengthOf(Size(es)) = Bits(At(d, 0), 4, 8)
    BY <1>1, <1>6
  <2> DEFINE bodyAt == HeaderSize + Bits(At(d, 0), 1, 4) + Bits(At(d, 0), 4, 8)
             size == GetInt(Slice(d, HeaderSize + Bits(At(d, 0), 1, 4), Bits(At(d, 0), 4, 8)))
  <2>2. bodyAt = BodyAt(es, id) /\ size = Size(es)
    BY <1>1, <1>6, <2>1 DEF BodyAt
  <2> HIDE DEF bodyAt, size
  <2>3. (IF size > CrcLimit THEN CrcLimit ELSE size) = Size(es)
    BY <1>3, <2>2
  <2>4. Len(d) < bodyAt + (IF size > CrcLimit THEN CrcLimit ELSE size)
    BY <1>1, <1>2, <2>2, <2>3
  <2> QED BY <2>4 DEF CreateFromArray, d, bytes, bodyAt, size
<1>7. n \in Nat /\ BodyAt(es, id) \in Int /\ HeaderSize \in Int
  <2>1. LengthOf(id) \in 1..3 /\ LengthOf(Size(es)) \in 0..4
    BY RequestIs
  <2>2. Len(bytes) \in Nat
    BY PacketLayout
  <2>3. n \in Nat
    BY <2>2
  <2> QED BY <2>1, <2>3 DEF BodyAt, HeaderSize
<1> QED BY <1>4, <1>5, <1>6, <1>7
-----------------------------------------------------------------------------
(* The inductive invariant: the packet is the one written for the request,  *)
(* and the task what was read from its first bytes.                        *)

Untouched ==
  /\ request.entities = <<>> /\ packet = NoPacket /\ length = 0 /\ task = NoTask

WrittenFor(es, id, command) ==
  /\ IsRequest(es, id, command)
  /\ request = [entities |-> es, id |-> id, command |-> command]
  /\ packet = SetRequestData(es, id, command)
  /\ \/ task = NoTask /\ length = 0
     \/ /\ length \in 0..Len(packet.bytes)
        /\ task = CreateFromArray(packet.crc, SubSeq(packet.bytes, 1, length))

CodecInv ==
  \/ Untouched
  \/ \E es \in EntityLists, id \in PacketIDs, command \in Commands :
       WrittenFor(es, id, command)

\* CodecInv holds at first.
LEMMA CodecInvInit == Init => CodecInv
BY DEF Init, CodecInv, Untouched

\* Writing a packet keeps CodecInv.
LEMMA CreateKeeps ==
  ASSUME CodecInv, NEW es \in EntityLists, NEW id \in PacketIDs, NEW command \in Commands,
         Create(es, id, command)
  PROVE  CodecInv'
<1> DEFINE p == SetRequestData(es, id, command)
<1>1. /\ packet = NoPacket
      /\ request' = [entities |-> es, id |-> id, command |-> command]
      /\ packet' = p /\ length' = length /\ task' = task
  BY DEF Create
<1>2. ASSUME NEW xs, NEW i, NEW c, WrittenFor(xs, i, c) PROVE FALSE
  <2>1. packet = SetRequestData(xs, i, c) /\ IsRequest(xs, i, c)
    BY <1>2 DEF WrittenFor
  <2>2. Holds(packet.bytes, 0, Header(xs, i, c)) /\ Len(packet.bytes) = BodyAt(xs, i) + Size(xs)
    BY <2>1, PacketLayout
  <2>3. /\ Size(xs) \in Nat /\ LengthOf(i) \in 1..3 /\ LengthOf(Size(xs)) \in 0..4
    BY <2>1, RequestIs
  <2>4. BodyAt(xs, i) + Size(xs) > 0
    BY <2>3 DEF BodyAt, HeaderSize
  <2>5. Len(packet.bytes) = 0
    BY <1>1 DEF NoPacket
  <2> QED BY <2>2, <2>4, <2>5
<1>3. task = NoTask /\ length = 0
  BY <1>2 DEF CodecInv, Untouched
<1> HIDE DEF p
<1>4. WrittenFor(es, id, command)'
  BY <1>1, <1>3 DEF WrittenFor, IsRequest, p
<1> QED BY <1>4 DEF CodecInv

\* Reading a packet, or the start of one, keeps CodecInv.
LEMMA ObtainKeeps ==
  ASSUME CodecInv, NEW n \in 0..Len(packet.bytes), Obtain(n)
  PROVE  CodecInv'
<1>1. /\ packet # NoPacket /\ length' = n
      /\ task' = CreateFromArray(packet.crc, SubSeq(packet.bytes, 1, n))
      /\ request' = request /\ packet' = packet
  BY DEF Obtain
<1>2. PICK es \in EntityLists, id \in PacketIDs, command \in Commands :
        WrittenFor(es, id, command)
  BY <1>1 DEF CodecInv, Untouched
<1>3. WrittenFor(es, id, command)'
  BY <1>1, <1>2 DEF WrittenFor, IsRequest
<1> QED BY <1>3 DEF CodecInv

\* Whatever was created and read, the packet is the one of the request, and the task what
\* createFromArray makes of its first bytes.
LEMMA CodecInvariant == Spec => []CodecInv
<1>1. Init => CodecInv
  BY CodecInvInit
<1>2. CodecInv /\ [Next]_vars => CodecInv'
  <2> SUFFICES ASSUME CodecInv, [Next]_vars PROVE CodecInv'
    OBVIOUS
  <2>1. CASE UNCHANGED vars
    BY <2>1 DEF vars, CodecInv, Untouched, WrittenFor, IsRequest
  <2>2. ASSUME NEW es \in EntityLists, NEW id \in PacketIDs, NEW command \in Commands,
               Create(es, id, command)
        PROVE  CodecInv'
    BY <2>2, CreateKeeps
  <2>3. ASSUME NEW n \in 0..Len(packet.bytes), Obtain(n) PROVE CodecInv'
    BY <2>3, ObtainKeeps
  <2> QED BY <2>1, <2>2, <2>3 DEF Next
<1> QED BY <1>1, <1>2, PTL DEF Spec

\* Every header, length, type and value byte of a packet fits into a byte, whatever
\* the entities.
THEOREM PacketBytesFitHolds == Spec => []PacketBytesFit
<1>1. CodecInv => PacketBytesFit
  <2>1. ASSUME Untouched PROVE PacketBytesFit
    <3>1. packet.bytes = <<>>
      BY <2>1 DEF Untouched, NoPacket
    <3>2. DOMAIN packet.bytes = {}
      BY <3>1
    <3> QED BY <3>2 DEF PacketBytesFit
  <2>2. ASSUME NEW es, NEW id, NEW command, WrittenFor(es, id, command) PROVE PacketBytesFit
    <3>1. packet.bytes \in Seq(Byte)
      BY <2>2, PacketLayout DEF WrittenFor
    <3>2. \A i \in DOMAIN packet.bytes : packet.bytes[i] \in Byte
      BY <3>1
    <3> QED BY <3>2 DEF PacketBytesFit, Byte
  <2> QED BY <2>1, <2>2 DEF CodecInv
<1> QED BY <1>1, CodecInvariant, PTL

\* The size that the first loop adds up is what the second loop writes, whatever the
\* entities: the buffer is filled exactly.
THEOREM SizeExactHolds == Spec => []SizeExact
<1>1. CodecInv => SizeExact
  <2>1. ASSUME Untouched PROVE SizeExact
    BY <2>1 DEF Untouched, SizeExact
  <2>2. ASSUME NEW es, NEW id, NEW command, WrittenFor(es, id, command) PROVE SizeExact
    <3>1. IsRequest(es, id, command) /\ request.entities = es
      BY <2>2 DEF WrittenFor
    <3>2. Len(Body(es)) = Size(es)
      BY <3>1, RequestIs
    <3> QED BY <3>1, <3>2 DEF SizeExact
  <2> QED BY <2>1, <2>2 DEF CodecInv
<1> QED BY <1>1, CodecInvariant, PTL

\* A packet cut off anywhere throws, whatever the entities, as long as the CRC covers it
\* to its end.
THEOREM TruncatedRejectedHolds == Spec => []TruncatedRejected
<1>1. CodecInv => TruncatedRejected
  <2>1. ASSUME Untouched PROVE TruncatedRejected
    BY <2>1 DEF Untouched, TruncatedRejected
  <2>2. ASSUME NEW es, NEW id, NEW command, WrittenFor(es, id, command)
        PROVE  TruncatedRejected
    <3> SUFFICES ASSUME task # NoTask, length < Len(packet.bytes), Size(es) <= CrcLimit
                 PROVE  task = Thrown
      BY <2>2 DEF TruncatedRejected, WrittenFor
    <3>1. /\ IsRequest(es, id, command) /\ packet = SetRequestData(es, id, command)
          /\ length \in 0..Len(packet.bytes)
          /\ task = CreateFromArray(packet.crc, SubSeq(packet.bytes, 1, length))
      BY <2>2 DEF WrittenFor
    <3> QED BY <3>1, PrefixThrows
  <2> QED BY <2>1, <2>2 DEF CodecInv
<1> QED BY <1>1, CodecInvariant, PTL

-----------------------------------------------------------------------------
(* What the reader makes of the attributes of an entity.                    *)

\* compareTo is 0 for equal keys only, also where the difference wraps.
LEMMA CompareToIsZero ==
  ASSUME NEW a, NEW b, a.num \in Ints, a.type \in Ints, b.num \in Ints, b.type \in Ints
  PROVE  CompareTo(a, b) = 0 <=> a.num = b.num /\ a.type = b.type
<1>1. ASSUME NEW x \in Ints, NEW y \in Ints PROVE Minus(x, y) = 0 <=> x = y
  <2>1. x \in Int /\ y \in Int /\ MaxInt \in Nat
        /\ x <= MaxInt /\ x >= -MaxInt - 1 /\ y <= MaxInt /\ y >= -MaxInt - 1
    BY IntBounds
  <2>2. CASE ~Wraps(x, y)
    BY <2>1, <2>2 DEF Minus
  <2>3. CASE Wraps(x, y)
    <3>1. Minus(x, y) \in {-1, 1}
      BY <2>3 DEF Minus
    <3>2. x # y
      BY <2>1, <2>3 DEF Wraps
    <3> QED BY <3>1, <3>2
  <2> QED BY <2>2, <2>3
<1>2. CASE a.type = b.type
  BY <1>1, <1>2 DEF CompareTo
<1>3. CASE a.type # b.type
  BY <1>1, <1>3 DEF CompareTo
<1> QED BY <1>2, <1>3

ReadBack(a) == ReadValue(Value(a).type, Data(a))
Back(a) == [num |-> a.num, type |-> a.type, value |-> ReadBack(a)]

\* Of the first k attributes, those whose key does not come again.
LastOf(attrs, k) ==
  {i \in 1..k : \A j \in (i + 1)..k : attrs[j].num # attrs[i].num \/ attrs[j].type # attrs[i].type}

Kept(attrs, k) == {Back(attrs[i]) : i \in LastOf(attrs, k)}

\* One attribute more: the ones before it with its key are no longer the last.
LEMMA LastOfGrows ==
  ASSUME NEW attrs \in Seq(Attribute), NEW k \in Nat, k < Len(attrs)
  PROVE  LastOf(attrs, k + 1) =
           {i \in LastOf(attrs, k) : attrs[k + 1].num # attrs[i].num \/ attrs[k + 1].type # attrs[i].type}
             \cup {k + 1}
<1> DEFINE Differ(i, j) == attrs[j].num # attrs[i].num \/ attrs[j].type # attrs[i].type
<1>1. \A n : LastOf(attrs, n) = {i \in 1..n : \A j \in (i + 1)..n : Differ(i, j)}
  BY DEF LastOf
<1> HIDE DEF Differ
<1>2. ASSUME NEW i \in 1..k
      PROVE  (\A j \in (i + 1)..(k + 1) : Differ(i, j))
               <=> (\A j \in (i + 1)..k : Differ(i, j)) /\ Differ(i, k + 1)
  <2>1. (i + 1)..(k + 1) = (i + 1)..k \cup {k + 1}
    OBVIOUS
  <2> QED BY <2>1
<1>3. 1..(k + 1) = 1..k \cup {k + 1} /\ k + 1 \notin 1..k /\ ((k + 1) + 1)..(k + 1) = {}
  OBVIOUS
<1>4. LastOf(attrs, k + 1) = {i \in LastOf(attrs, k) : Differ(i, k + 1)} \cup {k + 1}
  BY <1>1, <1>2, <1>3
<1> QED BY <1>4 DEF Differ

\* The attributes put for the first k, and the next one.
LEMMA PutKeeps ==
  ASSUME NEW attrs \in Seq(Attribute), NEW k \in Nat, k < Len(attrs)
  PROVE  Put(Kept(attrs, k), attrs[k + 1].num, attrs[k + 1].type, ReadBack(attrs[k + 1]))
           = Kept(attrs, k + 1)
<1>1. \A i \in 1..Len(attrs) : attrs[i].num \in Ints /\ attrs[i].type \in Ints
  <2>1. \A i \in 1..Len(attrs) : attrs[i] \in Attribute
    OBVIOUS
  <2>2. \A a \in Attribute : a.num \in Ints /\ a.type \in Ints
    BY DEF Attribute
  <2> QED BY <2>1, <2>2
<1>2. k + 1 \in 1..Len(attrs) /\ LastOf(attrs, k) \subseteq 1..Len(attrs)
  <2>1. Len(attrs) \in Nat /\ 1..k \subseteq 1..Len(attrs)
    OBVIOUS
  <2>2. LastOf(attrs, k) \subseteq 1..k
    BY DEF LastOf
  <2>3. k + 1 \in 1..Len(attrs)
    OBVIOUS
  <2> QED BY <2>1, <2>2, <2>3
<1> DEFINE b == Back(attrs[k + 1])
           Differ(i) == attrs[k + 1].num # attrs[i].num \/ attrs[k + 1].type # attrs[i].type
<1>3. Put(Kept(attrs, k), attrs[k + 1].num, attrs[k + 1].type, ReadBack(attrs[k + 1]))
        = {a \in Kept(attrs, k) : CompareTo(a, b) # 0} \cup {b}
  BY DEF Put, Back
<1>4. ASSUME NEW i \in LastOf(attrs, k) PROVE CompareTo(Back(attrs[i]), b) # 0 <=> Differ(i)
  <2>1. /\ Back(attrs[i]).num = attrs[i].num /\ Back(attrs[i]).type = attrs[i].type
        /\ b.num = attrs[k + 1].num /\ b.type = attrs[k + 1].type
    BY DEF Back
  <2>2. i \in 1..Len(attrs)
    BY <1>2
  <2> HIDE DEF b
  <2>3. CompareTo(Back(attrs[i]), b) = 0 <=>
          Back(attrs[i]).num = b.num /\ Back(attrs[i]).type = b.type
    BY <1>1, <1>2, <2>1, <2>2, CompareToIsZero
  <2> QED BY <2>1, <2>3
<1>5. Kept(attrs, k + 1) = {Back(attrs[i]) : i \in {j \in LastOf(attrs, k) : Differ(j)}} \cup {b}
  <2>1. LastOf(attrs, k + 1) = {j \in LastOf(attrs, k) : Differ(j)} \cup {k + 1}
    BY LastOfGrows
  <2> HIDE DEF Differ
  <2> QED BY <2>1 DEF Kept
<1>6. {a \in Kept(attrs, k) : CompareTo(a, b) # 0}
        = {Back(attrs[i]) : i \in {j \in LastOf(attrs, k) : Differ(j)}}
  <2> HIDE DEF Differ, b
  <2> QED BY <1>4 DEF Kept
<1> QED BY <1>3, <1>5, <1>6
-----------------------------------------------------------------------------
(* One round of the reader.                                                *)

Reader(pos, t) == [pos |-> pos, task |-> t]

TaskOf(id, command, es) ==
  [result |-> "obtained", entities |-> es, id |-> id, command |-> command]

\* A task that gets other entities.
LEMMA WithEntities ==
  ASSUME NEW id, NEW command, NEW x, NEW y
  PROVE  [TaskOf(id, command, x) EXCEPT !.entities = y] = TaskOf(id, command, y)
BY DEF TaskOf

Partial(e, k) == [num |-> e.num, type |-> e.type, attributes |-> Kept(e.attributes, k)]

\* A put into the entity r that was appended last makes q of it.
PutMakes(es, r, q, n, t, v) ==
  Append(es, r) # <<>> /\ PutLast(Append(es, r), n, t, v) = Append(es, q)

\* A put into the entity that was appended last changes nothing else.
LEMMA PutLastIs ==
  ASSUME NEW S, NEW es \in Seq(S), NEW num, NEW type, NEW A, NEW n, NEW t, NEW v,
         NEW r, r = [num |-> num, type |-> type, attributes |-> A],
         NEW q, q = [num |-> num, type |-> type, attributes |-> Put(A, n, t, v)]
  PROVE  PutMakes(es, r, q, n, t, v)
<1> DEFINE R == S \cup {r, q}
           er == Append(es, r)
           eq == Append(es, q)
           m == Len(es)
<1>1. m \in Nat /\ es \in Seq(R) /\ r \in R /\ q \in R
  OBVIOUS
<1>2. [r EXCEPT !.attributes = Put(@, n, t, v)] = q
  OBVIOUS
<1>3. PutLast(er, n, t, v)
        = [er EXCEPT ![Len(er)] = [er[Len(er)] EXCEPT !.attributes = Put(@, n, t, v)]]
  BY DEF PutLast
<1> HIDE DEF R, er, eq, m
<1>4. /\ er \in Seq(R) /\ Len(er) = m + 1 /\ er[m + 1] = r
      /\ \A i \in 1..m : er[i] = es[i]
  BY <1>1, AppendProperties DEF er, m
<1>5. /\ eq \in Seq(R) /\ Len(eq) = m + 1 /\ eq[m + 1] = q
      /\ \A i \in 1..m : eq[i] = es[i]
  BY <1>1, AppendProperties DEF eq, m
<1>6. PutLast(er, n, t, v) = [er EXCEPT ![m + 1] = q]
  BY <1>2, <1>3, <1>4
<1>7. [er EXCEPT ![m + 1] = q] = eq
  <2>1. er \in [1..(m + 1) -> R] /\ eq \in [1..(m + 1) -> R]
    BY <1>1, <1>4, <1>5
  <2>2. ASSUME NEW i \in 1..(m + 1) PROVE [er EXCEPT ![m + 1] = q][i] = eq[i]
    <3>1. CASE i = m + 1
      BY <1>5, <2>1, <3>1
    <3>2. CASE i # m + 1
      <4>1. i \in 1..m
        BY <1>1, <3>2
      <4> QED BY <1>4, <1>5, <2>1, <3>2, <4>1
    <3> QED BY <3>1, <3>2
  <2>3. [er EXCEPT ![m + 1] = q] \in [1..(m + 1) -> R]
    BY <1>1, <2>1
  <2> QED BY <2>1, <2>2, <2>3
<1>8. er # <<>>
  BY <1>1, <1>4
<1> QED BY <1>6, <1>7, <1>8, Zenon DEF er, eq, PutMakes

\* What is found at pos where a header and fields of num and type are.
LEMMA FieldsRead ==
  ASSUME NEW d \in Seq(Byte), NEW pos \in Nat, NEW h \in Byte,
         NEW num \in Ints, NEW type \in Ints,
         Bits(h, 1, 8) = LengthOf(num), Bits(h, 8, 8) = LengthOf(type),
         Holds(d, pos, <<h>>), Holds(d, pos + 1, Field(num)),
         Holds(d, pos + 1 + LengthOf(num), Field(type)),
         pos + 1 + LengthOf(num) + LengthOf(type) <= Len(d)
  PROVE  /\ At(d, pos) = h
         /\ FieldsEnd(d, pos) = pos + 1 + LengthOf(num) + LengthOf(type)
         /\ Num(d, pos) = num /\ Type(d, pos) = type
<1>1. At(d, pos) = h
  <2>1. Len(<<h>>) = 1 /\ <<h>>[1] = h /\ 1 \in 1..1
    OBVIOUS
  <2> QED BY <2>1 DEF Holds, At
<1> DEFINE p == Field(num)  q == Field(type)
<1>2. /\ p \in Seq(Byte) /\ Len(p) = LengthOf(num) /\ LengthOf(num) \in Nat
      /\ q \in Seq(Byte) /\ Len(q) = LengthOf(type) /\ LengthOf(type) \in Nat
  BY FieldIs
<1>3. GetInt(p) = num /\ GetInt(q) = type
  BY FieldRoundTrip
<1>4. NumLength(d, pos) = LengthOf(num) /\ TypeLength(d, pos) = LengthOf(type)
  BY <1>1 DEF NumLength, TypeLength
<1>5. FieldsEnd(d, pos) = pos + 1 + LengthOf(num) + LengthOf(type)
  BY <1>4 DEF FieldsEnd
<1> HIDE DEF p, q
<1>6. Len(d) \in Nat /\ pos + 1 \in Nat /\ pos + 1 + LengthOf(num) \in Nat
      /\ (pos + 1) + Len(p) <= Len(d) /\ (pos + 1 + LengthOf(num)) + Len(q) <= Len(d)
  BY <1>2
<1>7. Slice(d, pos + 1, Len(p)) = p
  BY <1>2, <1>6, HoldsSlice DEF p
<1>8. Slice(d, pos + 1 + LengthOf(num), Len(q)) = q
  BY <1>2, <1>6, HoldsSlice DEF q
<1>9. Num(d, pos) = num
  BY <1>2, <1>3, <1>4, <1>7 DEF Num
<1>10. Type(d, pos) = type
  BY <1>2, <1>3, <1>4, <1>8 DEF Type
<1> QED BY <1>1, <1>5, <1>9, <1>10

\* The header of an entity appends one without attributes.
LEMMA EntryEntity ==
  ASSUME NEW d \in Seq(Byte), NEW pos \in Nat, NEW e \in EntityL,
         NEW id, NEW command, NEW es,
         Holds(d, pos, EntityBytes(e)), pos + EntitySize(e) <= Len(d)
  PROVE  Entry(d, Len(d), Reader(pos, TaskOf(id, command, es)))
           = Reader(pos + 1 + LengthOf(e.num) + LengthOf(e.type),
                    TaskOf(id, command, Append(es, Partial(e, 0))))
<1> DEFINE r == Reader(pos, TaskOf(id, command, es))
           next == pos + 1 + LengthOf(e.num) + LengthOf(e.type)
<1>1. /\ e.num \in Ints /\ e.type \in Ints
      /\ EntityHead(e) \in Byte
      /\ Bits(EntityHead(e), 1, 8) = LengthOf(e.num)
      /\ Bits(EntityHead(e), 8, 8) = LengthOf(e.type)
      /\ Bits(EntityHead(e), IsAttribute, 2) = 0
  BY EntityHeadIs
<1>2. LengthOf(e.num) \in Nat /\ LengthOf(e.type) \in Nat
  BY <1>1, FieldIs
<1>3. /\ EntitySize(e) = 1 + LengthOf(e.num) + LengthOf(e.type) + Len(AttributeList(e))
      /\ Holds(d, pos, <<EntityHead(e)>>)
      /\ Holds(d, pos + 1, Field(e.num))
      /\ Holds(d, pos + 1 + LengthOf(e.num), Field(e.type))
  BY EntityLayout
<1>4. Len(AttributeList(e)) \in Nat /\ Len(d) \in Nat
  <2>1. AttributeList(e) \in Seq(Byte)
    BY AttributeListIs
  <2> QED BY <2>1
<1>5. next <= Len(d) /\ pos + 1 <= next /\ next \in Nat
  BY <1>2, <1>3, <1>4
<1>6. /\ At(d, pos) = EntityHead(e) /\ FieldsEnd(d, pos) = next
      /\ Num(d, pos) = e.num /\ Type(d, pos) = e.type
  BY <1>1, <1>3, <1>5, FieldsRead
<1>7. r.pos = pos /\ r.task.entities = es /\ r.task = TaskOf(id, command, es)
  BY DEF Reader, TaskOf
<1>8. Partial(e, 0) = [num |-> e.num, type |-> e.type, attributes |-> {}]
  <2>1. LastOf(e.attributes, 0) = {}
    BY DEF LastOf
  <2>2. Kept(e.attributes, 0) = {}
    BY <2>1 DEF Kept
  <2> QED BY <2>2 DEF Partial
<1> HIDE DEF r, next
<1>9. ~(pos + 1 > Len(d)) /\ ~(next > Len(d))
  BY <1>4, <1>5
<1>10. Entry(d, Len(d), r)
         = [pos |-> next,
            task |-> [r.task EXCEPT !.entities =
                        Append(es, [num |-> e.num, type |-> e.type, attributes |-> {}])]]
  BY <1>1, <1>6, <1>7, <1>9 DEF Entry
<1>11. [TaskOf(id, command, es) EXCEPT !.entities = Append(es, Partial(e, 0))]
         = TaskOf(id, command, Append(es, Partial(e, 0)))
  <2> DEFINE y == Append(es, Partial(e, 0))
  <2> HIDE DEF y
  <2>1. [TaskOf(id, command, es) EXCEPT !.entities = y] = TaskOf(id, command, y)
    BY WithEntities
  <2> QED BY <2>1 DEF y
<1> QED BY <1>7, <1>8, <1>10, <1>11 DEF Reader, r, next

\* Holding one byte.
LEMMA HoldsAt ==
  ASSUME NEW d, NEW at \in Nat, NEW b, Holds(d, at, <<b>>)
  PROVE  At(d, at) = b
<1>1. Len(<<b>>) = 1 /\ <<b>>[1] = b /\ 1 \in 1..1
  OBVIOUS
<1> QED BY <1>1 DEF Holds, At

\* d has a's bytes at pos.
HasAttribute(d, pos, a) ==
  /\ d \in Seq(Byte) /\ pos \in Nat /\ a \in Attribute
  /\ Holds(d, pos, AttributeBytes(a))
  /\ pos + AttributeSize(a) <= Len(d)

EndOfFields(pos, a) == pos + 1 + LengthOf(a.num) + LengthOf(a.type)

\* Where the value starts.
ValueStart(pos, a) == EndOfFields(pos, a) + 1 + Len(LengthLengthBytes(a)) + LengthLength(a)

\* The parts of an attribute end within it, and it within the data.
LEMMA AttributeEnds ==
  ASSUME NEW d, NEW pos, NEW a, HasAttribute(d, pos, a)
  PROVE  /\ EndOfFields(pos, a) \in Nat /\ pos + 1 <= EndOfFields(pos, a)
         /\ ValueStart(pos, a) \in Nat /\ EndOfFields(pos, a) + 2 <= ValueStart(pos, a)
         /\ ValueStart(pos, a) + Len(Data(a)) = pos + AttributeSize(a)
         /\ ValueStart(pos, a) + Len(Data(a)) <= Len(d)
         /\ Len(d) \in Nat /\ Len(Data(a)) \in Nat
         /\ LengthLength(a) \in 1..4
         /\ Len(LengthLengthBytes(a)) = IF LengthLength(a) > 1 THEN 1 ELSE 0
<1>1. /\ d \in Seq(Byte) /\ pos \in Nat /\ a \in Attribute /\ pos + AttributeSize(a) <= Len(d)
  BY DEF HasAttribute
<1>2. LengthOf(a.num) \in 0..4 /\ LengthOf(a.type) \in 0..4 /\ Len(Data(a)) \in Nat
  BY <1>1, DataIs, FieldIs
<1>3. /\ LengthLength(a) \in 1..4
      /\ Len(LengthLengthBytes(a)) = IF LengthLength(a) > 1 THEN 1 ELSE 0
  BY <1>1, LengthLengthIs
<1>4. AttributeSize(a) = 2 + LengthOf(a.num) + LengthOf(a.type)
              + Len(LengthLengthBytes(a)) + LengthLength(a) + Len(Data(a))
  BY <1>1, AttributeLayout
<1>5. Len(d) \in Nat
  BY <1>1
<1> DEFINE i == LengthOf(a.num)  j == LengthOf(a.type)  k == Len(LengthLengthBytes(a))
           m == LengthLength(a)  n == Len(Data(a))  size == AttributeSize(a)
           next == EndOfFields(pos, a)  start == ValueStart(pos, a)  all == Len(d)
<1>6. /\ pos \in Nat /\ i \in Nat /\ j \in Nat /\ k \in Nat /\ m \in Nat /\ n \in Nat
      /\ m >= 1
  BY <1>1, <1>2, <1>3
<1>7. next = pos + 1 + i + j /\ start = next + 1 + k + m /\ size = 2 + i + j + k + m + n
  BY <1>4 DEF EndOfFields, ValueStart
<1>8. pos + size <= all /\ all \in Nat
  BY <1>1, <1>5
<1> HIDE DEF i, j, k, m, n, size, next, start, all
<1>9. /\ next \in Nat /\ pos + 1 <= next
      /\ start \in Nat /\ next + 2 <= start
      /\ start + n = pos + size /\ start + n <= all
  BY <1>6, <1>7, <1>8
<1> QED BY <1>2, <1>3, <1>5, <1>9 DEF n, size, next, start, all

\* The reader finds type, length and data of a value where they were written.
LEMMA ValueRead ==
  ASSUME NEW d, NEW pos, NEW a, HasAttribute(d, pos, a), At(d, pos) = AttributeHead(a)
  PROVE  /\ At(d, EndOfFields(pos, a)) = Ordinal(Value(a).type)
         /\ ValueAt(d, pos, EndOfFields(pos, a)) = ValueStart(pos, a)
         /\ ValueLength(d, pos, EndOfFields(pos, a)) = Len(Data(a))
         /\ Slice(d, ValueStart(pos, a), Len(Data(a))) = Data(a)
<1> DEFINE next == EndOfFields(pos, a)  start == ValueStart(pos, a)
           n == Len(Data(a))  m == LengthLength(a)
<1>1. /\ d \in Seq(Byte) /\ pos \in Nat /\ a \in Attribute
      /\ Holds(d, pos, AttributeBytes(a))
  BY DEF HasAttribute
<1>2. /\ next \in Nat /\ start \in Nat /\ next + 2 <= start
      /\ n \in Nat /\ Len(d) \in Nat /\ start + n <= Len(d)
      /\ m \in 1..4
  BY AttributeEnds
<1>3. start = next + 1 + (IF m > 1 THEN 1 ELSE 0) + m
  BY <1>2, AttributeEnds DEF ValueStart
<1>4. /\ Holds(d, next, <<Ordinal(Value(a).type)>>)
      /\ Holds(d, next + 1, LengthLengthBytes(a))
      /\ Holds(d, next + 1 + Len(LengthLengthBytes(a)), LengthBytes(a))
      /\ Holds(d, next + 1 + Len(LengthLengthBytes(a)) + m, Data(a))
  BY <1>1, AttributeLayout DEF EndOfFields
<1>5. Holds(d, start, Data(a)) /\ Data(a) \in Seq(Byte)
  BY <1>1, <1>4, DataIs DEF ValueStart
<1>6. Slice(d, start, n) = Data(a)
  <2> HIDE DEF start
  <2> QED BY <1>1, <1>2, <1>5, HoldsSlice
<1>7. At(d, next) = Ordinal(Value(a).type)
  <2> HIDE DEF next
  <2> QED BY <1>2, <1>4, HoldsAt
<1>8. OneByte(d, pos) <=> m < 2
  BY <1>1, AttributeHeadIs DEF OneByte
<1>9. CASE m < 2
  <2>1. /\ Len(LengthLengthBytes(a)) = 0 /\ LengthBytes(a) = <<n>> /\ m = 1
    BY <1>1, <1>2, <1>9, LengthLengthIs
  <2> HIDE DEF next, n, m, start
  <2>2. Holds(d, next + 1, <<n>>)
    <3>1. next + 1 + Len(LengthLengthBytes(a)) = next + 1
      BY <1>2, <2>1
    <3> QED BY <1>4, <2>1, <3>1
  <2>3. At(d, next + 1) = n
    BY <1>2, <2>2, HoldsAt
  <2>4. ValueLength(d, pos, next) = n
    BY <1>8, <1>9, <2>3 DEF ValueLength
  <2>5. ValueAt(d, pos, next) = next + 2 + 0
    BY <1>8, <1>9 DEF ValueAt
  <2>6. ValueAt(d, pos, next) = start
    BY <1>2, <1>3, <2>1, <2>5
  <2> QED BY <1>6, <1>7, <2>4, <2>6 DEF next, n, m, start
<1>10. CASE ~(m < 2)
  <2>1. /\ Len(LengthLengthBytes(a)) = 1 /\ LengthLengthBytes(a) = <<m>>
        /\ LengthBytes(a) = Field(n) /\ Len(LengthBytes(a)) = m
        /\ LengthBytes(a) \in Seq(Byte) /\ n \in Ints
    BY <1>1, <1>2, <1>10, LengthLengthIs, DataIs DEF LengthLengthBytes
  <2>2. GetInt(LengthBytes(a)) = n
    BY <2>1, FieldRoundTrip
  <2> HIDE DEF next, n, m, start
  <2>3. At(d, next + 1) = m
    BY <1>2, <1>4, <2>1, HoldsAt
  <2>4. Holds(d, next + 2, LengthBytes(a))
    <3>1. next + 1 + Len(LengthLengthBytes(a)) = next + 2
      BY <1>2, <2>1
    <3> QED BY <1>4, <3>1
  <2>5. start = next + 2 + m
    BY <1>2, <1>3, <1>10
  <2>6. Slice(d, next + 2, m) = LengthBytes(a)
    <3>1. next + 2 \in Nat /\ (next + 2) + Len(LengthBytes(a)) <= Len(d)
      BY <1>2, <2>1, <2>5
    <3> QED BY <1>1, <2>1, <2>4, <3>1, HoldsSlice
  <2>7. ValueLength(d, pos, next) = n
    BY <1>8, <1>10, <2>2, <2>3, <2>6 DEF ValueLength
  <2>8. ValueAt(d, pos, next) = next + 2 + m
    BY <1>8, <1>10, <2>3 DEF ValueAt
  <2> QED BY <1>6, <1>7, <2>5, <2>7, <2>8 DEF next, n, m, start
<1> QED BY <1>9, <1>10

\* The header of an attribute puts one into the last entity.
LEMMA EntryAttribute ==
  ASSUME NEW d, NEW pos, NEW a, HasAttribute(d, pos, a),
         NEW id, NEW command, NEW es, es # <<>>
  PROVE  Entry(d, Len(d), Reader(pos, TaskOf(id, command, es)))
           = Reader(pos + AttributeSize(a),
                    TaskOf(id, command, PutLast(es, a.num, a.type, ReadBack(a))))
<1> DEFINE r == Reader(pos, TaskOf(id, command, es))
           next == EndOfFields(pos, a)  start == ValueStart(pos, a)
           n == Len(Data(a))
           put == PutLast(es, a.num, a.type, ReadBack(a))
<1>1. /\ d \in Seq(Byte) /\ pos \in Nat /\ a \in Attribute
      /\ Holds(d, pos, AttributeBytes(a))
  BY DEF HasAttribute
<1>2. /\ next \in Nat /\ pos + 1 <= next /\ start \in Nat /\ next + 2 <= start
      /\ start + n = pos + AttributeSize(a) /\ start + n <= Len(d)
      /\ n \in Nat /\ Len(d) \in Nat
  BY AttributeEnds
<1>3. /\ At(d, pos) = AttributeHead(a) /\ FieldsEnd(d, pos) = next
      /\ Num(d, pos) = a.num /\ Type(d, pos) = a.type
  <2>1. /\ AttributeHead(a) \in Byte
        /\ Bits(AttributeHead(a), 1, 8) = LengthOf(a.num)
        /\ Bits(AttributeHead(a), 8, 8) = LengthOf(a.type)
    BY <1>1, AttributeHeadIs
  <2>2. a.num \in Ints /\ a.type \in Ints
    BY <1>1, DataIs
  <2>3. /\ Holds(d, pos, <<AttributeHead(a)>>)
        /\ Holds(d, pos + 1, Field(a.num))
        /\ Holds(d, pos + 1 + LengthOf(a.num), Field(a.type))
    BY <1>1, AttributeLayout
  <2>4. pos + 1 + LengthOf(a.num) + LengthOf(a.type) <= Len(d)
    BY <1>2 DEF EndOfFields
  <2> QED BY <1>1, <2>1, <2>2, <2>3, <2>4, FieldsRead DEF EndOfFields
<1>4. /\ At(d, next) = Ordinal(Value(a).type)
      /\ ValueAt(d, pos, next) = start
      /\ ValueLength(d, pos, next) = n
      /\ Slice(d, start, n) = Data(a)
  BY <1>3, ValueRead
<1>5. Bits(At(d, pos), IsAttribute, 2) # 0
  BY <1>1, <1>3, AttributeHeadIs
<1>6. ReadValue(ValueTypes[At(d, next) + 1], Slice(d, start, n)) = ReadBack(a)
  BY <1>1, <1>4, DataIs DEF ReadBack
<1>7. r.pos = pos /\ r.task.entities = es /\ r.task = TaskOf(id, command, es)
  BY DEF Reader, TaskOf
<1> HIDE DEF r, next, start, n, put
<1>8. /\ ~(pos + 1 > Len(d)) /\ ~(next > Len(d)) /\ ~(next + 2 > Len(d))
      /\ ~(start > Len(d)) /\ ~(start + n > Len(d))
  BY <1>1, <1>2
<1>9. Entry(d, Len(d), r)
        = [pos |-> start + n, task |-> [r.task EXCEPT !.entities = put]]
  <2>1. PutLast(es, Num(d, pos), Type(d, pos),
                ReadValue(ValueTypes[At(d, next) + 1], Slice(d, start, n))) = put
    BY <1>3, <1>6 DEF put
  <2> QED BY <1>3, <1>4, <1>5, <1>7, <1>8, <2>1, Zenon DEF Entry
<1>10. [TaskOf(id, command, es) EXCEPT !.entities = put] = TaskOf(id, command, put)
  BY WithEntities
<1> QED BY <1>2, <1>7, <1>9, <1>10 DEF Reader, r, put
-----------------------------------------------------------------------------
(* The rounds of the reader, one after the other.                          *)

\* loop[n] is the reader after n rounds.
IsLoop(d, first, loop) ==
  /\ loop[0] = first
  /\ \A n \in 1..Len(d) : loop[n] = Entry(d, Len(d), loop[n - 1])

\* The first N rounds.
Rounds(d, end, first, N, f) ==
  f = [n \in 0..N |-> IF n = 0 THEN first ELSE Entry(d, end, f[n - 1])]

\* The reader's loop has its first M rounds, for any M.
LEMMA LoopRuns ==
  ASSUME NEW d, NEW end, NEW first, NEW M \in Nat
  PROVE  \E f : Rounds(d, end, first, M, f)
<1> DEFINE Run(f, N) == [n \in 0..N |-> IF n = 0 THEN first ELSE Entry(d, end, f[n - 1])]
           P == {N \in Nat : \E f : f = Run(f, N)}
<1>1. 0 \in P
  <2>1. [n \in 0..0 |-> first] = Run([n \in 0..0 |-> first], 0)
    OBVIOUS
  <2> QED BY <2>1
<1>2. ASSUME NEW N \in Nat, N \in P PROVE N + 1 \in P
  <2>1. PICK f : f = Run(f, N)
    BY <1>2
  <2> DEFINE g == [n \in 0..(N + 1) |-> IF n <= N THEN f[n] ELSE Entry(d, end, f[N])]
  <2>2. ASSUME NEW n \in 0..(N + 1)
        PROVE  g[n] = IF n = 0 THEN first ELSE Entry(d, end, g[n - 1])
    <3>1. CASE n <= N
      <4>1. n \in 0..N /\ (n # 0 => n - 1 \in 0..(N+1) /\ n - 1 <= N)
        BY <3>1
      <4>2. f[n] = IF n = 0 THEN first ELSE Entry(d, end, f[n - 1])
        BY <2>1, <4>1
      <4> QED BY <3>1, <4>1, <4>2
    <3>2. CASE n = N + 1
      <4>1. n # 0 /\ n - 1 = N /\ N \in 0..(N + 1) /\ ~(n <= N)
        BY <3>2
      <4> QED BY <4>1
    <3> QED BY <3>1, <3>2
  <2>3. g = Run(g, N + 1)
    BY <2>2
  <2> HIDE DEF g, Run
  <2> QED BY <2>3
<1>3. M \in P
  <2> HIDE DEF P
  <2> QED BY <1>1, <1>2, SetInduction
<1> QED BY <1>3 DEF Rounds

\* Entities is the task that such a loop ends with.
LEMMA EntitiesRuns ==
  ASSUME NEW d \in Seq(Byte), NEW start, NEW t
  PROVE  \E loop : /\ IsLoop(d, Reader(start, t), loop)
                   /\ Entities(d, start, Len(d), t) = loop[Len(d)].task
<1> DEFINE first == Reader(start, t)
           Run(f) == [n \in 0..Len(d) |-> IF n = 0 THEN first ELSE Entry(d, Len(d), f[n - 1])]
           loop == CHOOSE f : f = Run(f)
<1>1. Len(d) \in Nat
  OBVIOUS
<1>2. loop = Run(loop)
  <2>1. \E f : f = Run(f)
    <3> DEFINE N == Len(d)  end == Len(d)
    <3>1. N \in Nat
      BY <1>1
    <3> HIDE DEF N, end, first
    <3>2. \E f : Rounds(d, end, first, N, f)
      BY <3>1, LoopRuns
    <3> QED BY <3>2 DEF N, end, Rounds
  <2> HIDE DEF Run
  <2> QED BY <2>1
<1>3. Entities(d, start, Len(d), t) = loop[Len(d)].task
  BY DEF Entities, Reader
<1> HIDE DEF loop
<1>4. \A n \in 0..Len(d) : loop[n] = IF n = 0 THEN first ELSE Entry(d, Len(d), loop[n - 1])
  BY <1>2
<1>5. IsLoop(d, first, loop)
  <2> HIDE DEF first
  <2>1. 0 \in 0..Len(d) /\ \A n \in 1..Len(d) : n \in 0..Len(d) /\ n # 0
    BY <1>1
  <2> QED BY <1>4, <2>1 DEF IsLoop
<1> QED BY <1>3, <1>5

\* The reader gets to pos with t, in no more rounds than it read bytes.
Reaches(d, loop, pos, t) ==
  /\ pos \in 0..Len(d)
  /\ \E n \in 0..pos : loop[n] = Reader(pos, t)

\* A round that reads on from pos to to has the loop reach to.
LEMMA ReachesNext ==
  ASSUME NEW d \in Seq(Byte), NEW first, NEW loop, IsLoop(d, first, loop),
         NEW pos, NEW t, Reaches(d, loop, pos, t),
         NEW to \in 0..Len(d), NEW u, to > pos,
         Entry(d, Len(d), Reader(pos, t)) = Reader(to, u)
  PROVE  Reaches(d, loop, to, u)
<1>1. PICK n \in 0..pos : loop[n] = Reader(pos, t)
  BY DEF Reaches
<1>2. pos \in 0..Len(d) /\ Len(d) \in Nat
  BY DEF Reaches
<1>3. n + 1 \in 1..Len(d) /\ (n + 1) - 1 = n /\ n + 1 \in 0..to
  BY <1>1, <1>2
<1>4. loop[n + 1] = Entry(d, Len(d), loop[n])
  BY <1>3 DEF IsLoop
<1> QED BY <1>1, <1>3, <1>4 DEF Reaches

\* At the end the reader stays.
LEMMA ReachesEnd ==
  ASSUME NEW d \in Seq(Byte), NEW first, NEW loop, IsLoop(d, first, loop),
         NEW t, Reaches(d, loop, Len(d), t)
  PROVE  loop[Len(d)].task = t
<1> DEFINE r == Reader(Len(d), t)
           N == Len(d)
<1>1. PICK n \in 0..N : loop[n] = r
  BY DEF Reaches
<1>2. Entry(d, Len(d), r) = r
  <2>1. r.pos = N /\ N \in Nat
    BY DEF Reader
  <2>2. r.pos + 1 > Len(d)
    BY <2>1
  <2> HIDE DEF r
  <2> QED BY <2>2 DEF Entry
<1>3. \A i \in 1..N : loop[i] = Entry(d, Len(d), loop[i - 1])
  BY DEF IsLoop
<1> DEFINE P == {m \in Nat : n + m <= N => loop[n + m] = r}
<1> HIDE DEF r
<1>4. 0 \in P
  BY <1>1
<1>5. ASSUME NEW m \in Nat, m \in P PROVE m + 1 \in P
  <2> SUFFICES ASSUME n + (m + 1) <= N PROVE loop[n + (m + 1)] = r
    OBVIOUS
  <2>1. n + (m + 1) \in 1..N /\ (n + (m + 1)) - 1 = n + m /\ n + m <= N
    BY <1>1
  <2>2. loop[n + m] = r
    BY <1>5, <2>1
  <2>3. loop[n + (m + 1)] = Entry(d, Len(d), loop[(n + (m + 1)) - 1])
    BY <1>3, <2>1
  <2> QED BY <1>2, <2>1, <2>2, <2>3
<1>6. N - n \in Nat /\ n + (N - n) = N
  BY <1>1
<1>7. N - n \in P
  <2> HIDE DEF P
  <2> QED BY <1>4, <1>5, <1>6, SetInduction
<1>8. loop[N] = r
  BY <1>6, <1>7
<1> QED BY <1>8 DEF r, Reader

\* From the first k attributes of e to one more.
LEMMA AttributeRead ==
  ASSUME NEW d \in Seq(Byte), NEW first, NEW loop, IsLoop(d, first, loop),
         NEW e \in EntityL, NEW k \in Nat, k < Len(e.attributes),
         NEW S, NEW es \in Seq(S), NEW id, NEW command,
         NEW pos \in Nat, HasAttribute(d, pos, e.attributes[k + 1]),
         Reaches(d, loop, pos, TaskOf(id, command, Append(es, Partial(e, k))))
  PROVE  Reaches(d, loop, pos + AttributeSize(e.attributes[k + 1]),
                 TaskOf(id, command, Append(es, Partial(e, k + 1))))
<1> DEFINE a == e.attributes[k + 1]  list == e.attributes
           now == Append(es, Partial(e, k))
           then == Append(es, Partial(e, k + 1))
<1>1. list \in Seq(Attribute)
  BY EntityHeadIs
<1>2. now # <<>> /\ PutLast(now, a.num, a.type, ReadBack(a)) = then
  <2> DEFINE A == Kept(list, k)  num == e.num  type == e.type
             n == a.num  t == a.type  v == ReadBack(a)
  <2>1. Put(A, n, t, v) = Kept(list, k + 1)
    BY <1>1, PutKeeps
  <2> DEFINE r == Partial(e, k)  q == Partial(e, k + 1)
  <2>2. r = [num |-> num, type |-> type, attributes |-> A]
        /\ q = [num |-> num, type |-> type, attributes |-> Put(A, n, t, v)]
    BY <2>1 DEF Partial
  <2> HIDE DEF A, num, type, n, t, v, list, r, q
  <2>3. PutMakes(es, r, q, n, t, v)
    BY <2>2, PutLastIs
  <2>4. now # <<>> /\ PutLast(now, n, t, v) = then
    BY <2>3, Zenon DEF r, q, PutMakes
  <2> QED BY <2>4 DEF n, t, v
<1> DEFINE to == pos + AttributeSize(a)
<1>3. to \in 0..Len(d) /\ to > pos
  <2>1. /\ EndOfFields(pos, a) \in Nat /\ pos + 1 <= EndOfFields(pos, a)
        /\ ValueStart(pos, a) \in Nat /\ EndOfFields(pos, a) + 2 <= ValueStart(pos, a)
        /\ ValueStart(pos, a) + Len(Data(a)) = pos + AttributeSize(a)
        /\ ValueStart(pos, a) + Len(Data(a)) <= Len(d)
        /\ Len(d) \in Nat /\ Len(Data(a)) \in Nat
    BY AttributeEnds
  <2> HIDE DEF a
  <2> QED BY <2>1
<1> HIDE DEF a, now, then, to
<1>4. Entry(d, Len(d), Reader(pos, TaskOf(id, command, now)))
        = Reader(to, TaskOf(id, command, then))
  <2>1. HasAttribute(d, pos, a)
    BY DEF a
  <2>2. Entry(d, Len(d), Reader(pos, TaskOf(id, command, now)))
          = Reader(pos + AttributeSize(a),
                   TaskOf(id, command, PutLast(now, a.num, a.type, ReadBack(a))))
    BY <1>2, <2>1, EntryAttribute
  <2> QED BY <1>2, <2>2 DEF to
<1>5. Reaches(d, loop, pos, TaskOf(id, command, now))
  BY DEF now
<1>6. Reaches(d, loop, to, TaskOf(id, command, then))
  BY <1>3, <1>4, <1>5, ReachesNext
<1> QED BY <1>6 DEF to, then, a

\* From the start of e to its end.
LEMMA EntityRead ==
  ASSUME NEW d \in Seq(Byte), NEW first, NEW loop, IsLoop(d, first, loop),
         NEW e \in EntityL, NEW S, NEW es \in Seq(S), NEW id, NEW command,
         NEW at \in Nat, Holds(d, at, EntityBytes(e)), at + EntitySize(e) <= Len(d),
         Reaches(d, loop, at, TaskOf(id, command, es))
  PROVE  Reaches(d, loop, at + EntitySize(e),
                 TaskOf(id, command, Append(es, Partial(e, Len(e.attributes)))))
<1> DEFINE listAt == at + 1 + LengthOf(e.num) + LengthOf(e.type)
           list == e.attributes  K == Len(list)
           seqs == AttributeSeqs(e)  lens == AttributeLens(e)  s == AttributeList(e)
           State(k) == TaskOf(id, command, Append(es, Partial(e, k)))
<1>1. /\ list \in Seq(Attribute) /\ K \in Nat
      /\ e.num \in Ints /\ e.type \in Ints
  BY EntityHeadIs
<1>2. /\ seqs \in [1..K -> Seq(Byte)] /\ lens \in [1..K -> Nat]
      /\ \A i \in 1..K : Len(seqs[i]) = lens[i]
      /\ s \in Seq(Byte)
  BY AttributeListIs
<1>3. PICK off : Joins(K, seqs, lens, off, s)
  BY AttributeListIs
<1>4. /\ off \in [0..K -> Nat] /\ off[0] = 0 /\ Len(s) = off[K]
      /\ \A i \in 1..K : off[i] = off[i - 1] + lens[i] /\ off[i] <= off[K]
  BY <1>3, Zenon DEF Joins
<1>5. /\ EntitySize(e) = 1 + LengthOf(e.num) + LengthOf(e.type) + Len(s)
      /\ Holds(d, listAt, s)
  BY EntityLayout
<1>6. LengthOf(e.num) \in Nat /\ LengthOf(e.type) \in Nat /\ Len(s) \in Nat /\ Len(d) \in Nat
  BY <1>1, <1>2, FieldIs
<1>7. /\ listAt \in Nat /\ listAt > at /\ listAt + Len(s) = at + EntitySize(e)
      /\ listAt + Len(s) <= Len(d)
  BY <1>5, <1>6
<1>8. Entry(d, Len(d), Reader(at, TaskOf(id, command, es))) = Reader(listAt, State(0))
  BY EntryEntity
<1>9. \A i \in 1..K : seqs[i] = AttributeBytes(list[i]) /\ lens[i] = AttributeSize(list[i])
  BY DEF AttributeSeqs, AttributeLens
<1> HIDE DEF seqs, lens, s, State, listAt
<1>10. Reaches(d, loop, listAt, State(0))
  <2>1. listAt \in 0..Len(d)
    BY <1>6, <1>7
  <2> QED BY <1>7, <1>8, <2>1, ReachesNext
<1> DEFINE P == {k \in Nat : k <= K => Reaches(d, loop, listAt + off[k], State(k))}
<1>11. 0 \in P
  <2>1. listAt + off[0] = listAt
    BY <1>4, <1>7
  <2> QED BY <1>10, <2>1
<1>12. ASSUME NEW k \in Nat, k \in P PROVE k + 1 \in P
  <2> SUFFICES ASSUME k + 1 <= K PROVE Reaches(d, loop, listAt + off[k + 1], State(k + 1))
    OBVIOUS
  <2> DEFINE pos == listAt + off[k]
  <2>1. k + 1 \in 1..K /\ (k + 1) - 1 = k /\ k <= K /\ k < K /\ k \in 0..K
    BY <1>1
  <2>2. /\ off[k] \in Nat /\ off[k + 1] = off[k] + lens[k + 1] /\ off[k + 1] <= Len(s)
        /\ lens[k + 1] \in Nat /\ pos \in Nat
    <3>1. off[k + 1] = off[(k + 1) - 1] + lens[k + 1] /\ off[k + 1] <= off[K]
      BY <1>4, <2>1
    <3>2. off[k] \in Nat /\ off[K] = Len(s) /\ lens[k + 1] \in Nat
      BY <1>2, <1>4, <2>1
    <3>3. off[k + 1] = off[k] + lens[k + 1] /\ off[k + 1] <= Len(s)
      BY <2>1, <3>1, <3>2
    <3> QED BY <1>7, <3>2, <3>3
  <2>3. seqs[k + 1] = AttributeBytes(list[k + 1]) /\ lens[k + 1] = AttributeSize(list[k + 1])
    BY <1>9, <2>1
  <2>4. Holds(d, pos, AttributeBytes(list[k + 1]))
    <3>1. Len(seqs[k + 1]) = lens[k + 1]
      BY <1>2, <2>1
    <3> DEFINE i == k + 1
    <3>2. i \in 1..K /\ i - 1 = k /\ Len(seqs[i]) = lens[i]
      BY <2>1, <3>1
    <3> HIDE DEF i, K
    <3>3. Holds(d, listAt + off[i - 1], seqs[i])
      BY <1>1, <1>2, <1>3, <1>5, <1>7, <3>2, HoldsIn
    <3> QED BY <2>3, <3>2, <3>3 DEF i
  <2>5. HasAttribute(d, pos, list[k + 1])
    <3>1. pos + AttributeSize(list[k + 1]) <= Len(d)
      BY <1>6, <1>7, <2>2, <2>3
    <3>2. list[k + 1] \in Attribute
      BY <1>1, <2>1
    <3> QED BY <2>2, <2>4, <3>1, <3>2 DEF HasAttribute
  <2>6. Reaches(d, loop, pos, State(k))
    BY <1>12, <2>1
  <2>7. listAt + off[k + 1] = pos + AttributeSize(list[k + 1])
    BY <1>7, <2>2, <2>3
  <2> HIDE DEF pos
  <2>8. Reaches(d, loop, pos + AttributeSize(list[k + 1]), State(k + 1))
    BY <2>1, <2>2, <2>5, <2>6, AttributeRead DEF State, pos
  <2> QED BY <2>7, <2>8
<1>13. Reaches(d, loop, listAt + off[K], State(K))
  <2>1. K \in P
    <3> HIDE DEF P
    <3> QED BY <1>1, <1>11, <1>12, SetInduction
  <2> QED BY <1>1, <2>1
<1>14. listAt + off[K] = at + EntitySize(e)
  BY <1>4, <1>7
<1> QED BY <1>13, <1>14 DEF State

Whole(e) == Partial(e, Len(e.attributes))
ReadEntities(es, n) == [j \in 1..n |-> Whole(es[j])]

\* The entities read, with one more.
LEMMA ReadEntitiesGrow ==
  ASSUME NEW es, NEW n \in Nat
  PROVE  /\ ReadEntities(es, n) \in Seq({Whole(es[j]) : j \in 1..n})
         /\ Append(ReadEntities(es, n), Whole(es[n + 1])) = ReadEntities(es, n + 1)
<1> DEFINE S == {Whole(es[j]) : j \in 1..n}
           R == {Whole(es[j]) : j \in 1..(n + 1)}
           s == ReadEntities(es, n)  w == Whole(es[n + 1])
           t == ReadEntities(es, n + 1)
<1>1. s \in [1..n -> S] /\ s \in [1..n -> R] /\ w \in R
  BY DEF ReadEntities
<1>2. s \in Seq(S) /\ s \in Seq(R) /\ Len(s) = n
  <2> HIDE DEF s, S, R
  <2> QED BY <1>1
<1>3. t \in [1..(n + 1) -> R]
  BY DEF ReadEntities
<1>4. t[n + 1] = w /\ \A i \in 1..n : t[i] = s[i]
  <2>1. n + 1 \in 1..(n + 1) /\ \A i \in 1..n : i \in 1..(n + 1)
    OBVIOUS
  <2> QED BY <2>1 DEF ReadEntities
<1> HIDE DEF s, S, R, t, w
<1>5. /\ Append(s, w) \in Seq(R) /\ Len(Append(s, w)) = n + 1 /\ Append(s, w)[n + 1] = w
      /\ \A i \in 1..n : Append(s, w)[i] = s[i]
  BY <1>1, <1>2, AppendProperties
<1>6. Append(s, w) = t
  <2> DEFINE u == Append(s, w)
  <2>1. u \in [1..(n + 1) -> R] /\ u[n + 1] = w /\ \A i \in 1..n : u[i] = s[i]
    <3>1. u \in Seq(R) /\ Len(u) = n + 1 /\ u[n + 1] = w /\ \A i \in 1..n : u[i] = s[i]
      BY <1>5
    <3> HIDE DEF u
    <3> QED BY <3>1
  <2> HIDE DEF u
  <2>2. \A i \in 1..(n + 1) : i = n + 1 \/ i \in 1..n
    OBVIOUS
  <2>3. u = t
    BY <1>3, <1>4, <2>1, <2>2
  <2> QED BY <2>3 DEF u
<1> QED BY <1>2, <1>6 DEF s, S, t, w

\* From the start of the body to its end.
LEMMA BodyRead ==
  ASSUME NEW d \in Seq(Byte), NEW es \in Seq(EntityL), NEW id, NEW command,
         NEW start \in Nat, Holds(d, start, Body(es)), start + Size(es) = Len(d)
  PROVE  Entities(d, start, Len(d), TaskOf(id, command, <<>>))
           = TaskOf(id, command, ReadEntities(es, Len(es)))
<1> DEFINE N == Len(es)
           seqs == EntitySeqs(es)  lens == EntityLens(es)  s == Body(es)
           State(n) == TaskOf(id, command, ReadEntities(es, n))
           first == Reader(start, State(0))
<1>1. N \in Nat /\ Len(d) \in Nat
  OBVIOUS
<1>2. /\ seqs \in [1..N -> Seq(Byte)] /\ lens \in [1..N -> Nat]
      /\ \A i \in 1..N : Len(seqs[i]) = lens[i]
      /\ s \in Seq(Byte) /\ Len(s) = Size(es)
  BY BodyLayout
<1>3. PICK off : Joins(N, seqs, lens, off, s)
  BY BodyLayout
<1>4. /\ off \in [0..N -> Nat] /\ off[0] = 0 /\ Len(s) = off[N]
      /\ \A i \in 1..N : off[i] = off[i - 1] + lens[i] /\ off[i] <= off[N]
  BY <1>3, Zenon DEF Joins
<1>5. ReadEntities(es, 0) = <<>>
  BY DEF ReadEntities
<1>6. PICK loop : /\ IsLoop(d, first, loop)
                  /\ Entities(d, start, Len(d), State(0)) = loop[Len(d)].task
  <2> HIDE DEF State
  <2> QED BY EntitiesRuns
<1>7. \A i \in 1..N : seqs[i] = EntityBytes(es[i]) /\ lens[i] = EntitySize(es[i])
  BY DEF EntitySeqs, EntityLens
<1>8. IsLoop(d, first, loop) /\ loop[0] = Reader(start, State(0))
  BY <1>6 DEF IsLoop
<1> HIDE DEF seqs, lens, s, State, first
<1>9. Len(s) \in Nat /\ start + Len(s) = Len(d)
  BY <1>2
<1>10. Reaches(d, loop, start, State(0))
  <2>1. start \in 0..Len(d) /\ 0 \in 0..start
    BY <1>1, <1>9
  <2> QED BY <1>8, <2>1 DEF Reaches
<1> DEFINE P == {n \in Nat : n <= N => Reaches(d, loop, start + off[n], State(n))}
<1>11. 0 \in P
  <2>1. start + off[0] = start
    BY <1>4
  <2> QED BY <1>10, <2>1
<1>12. ASSUME NEW n \in Nat, n \in P PROVE n + 1 \in P
  <2> SUFFICES ASSUME n + 1 <= N PROVE Reaches(d, loop, start + off[n + 1], State(n + 1))
    OBVIOUS
  <2> DEFINE at == start + off[n]  e == es[n + 1]  read == ReadEntities(es, n)
  <2>1. n + 1 \in 1..N /\ (n + 1) - 1 = n /\ n <= N /\ n \in 0..N
    BY <1>1
  <2>2. /\ off[n] \in Nat /\ off[n + 1] = off[n] + lens[n + 1] /\ off[n + 1] <= Len(s)
        /\ lens[n + 1] \in Nat /\ at \in Nat
    <3>1. off[n + 1] = off[(n + 1) - 1] + lens[n + 1] /\ off[n + 1] <= off[N]
      BY <1>4, <2>1
    <3>2. off[n] \in Nat /\ off[N] = Len(s) /\ lens[n + 1] \in Nat
      BY <1>2, <1>4, <2>1
    <3>3. off[n + 1] = off[n] + lens[n + 1] /\ off[n + 1] <= Len(s)
      BY <2>1, <3>1, <3>2
    <3> QED BY <3>2, <3>3
  <2>3. seqs[n + 1] = EntityBytes(e) /\ lens[n + 1] = EntitySize(e) /\ e \in EntityL
    BY <1>7, <2>1
  <2>4. Holds(d, at, EntityBytes(e))
    <3>1. Len(seqs[n + 1]) = lens[n + 1] /\ Holds(d, start, s)
      BY <1>2, <2>1 DEF s
    <3> DEFINE i == n + 1
    <3>2. i \in 1..N /\ i - 1 = n /\ Len(seqs[i]) = lens[i]
      BY <2>1, <3>1
    <3> HIDE DEF i, N
    <3>3. Holds(d, start + off[i - 1], seqs[i])
      BY <1>1, <1>2, <1>3, <3>1, <3>2, HoldsIn
    <3> QED BY <2>3, <3>2, <3>3 DEF i
  <2>5. at + EntitySize(e) <= Len(d)
    BY <1>9, <2>2, <2>3
  <2>6. Reaches(d, loop, at, TaskOf(id, command, read))
    BY <1>12, <2>1 DEF State
  <2>7. start + off[n + 1] = at + EntitySize(e)
    BY <2>2, <2>3
  <2>8. Append(read, Whole(e)) = ReadEntities(es, n + 1)
        /\ read \in Seq({Whole(es[j]) : j \in 1..n})
    BY ReadEntitiesGrow
  <2> DEFINE S == {Whole(es[j]) : j \in 1..n}
  <2> HIDE DEF at, e, read, S
  <2>9. Reaches(d, loop, at + EntitySize(e), TaskOf(id, command, Append(read, Whole(e))))
    <3>1. read \in Seq(S) /\ at \in Nat /\ e \in EntityL
      BY <2>2, <2>3, <2>8 DEF S
    <3> QED BY <1>8, <2>4, <2>5, <2>6, <3>1, EntityRead DEF Whole
  <2> QED BY <2>7, <2>8, <2>9 DEF State
<1>13. Reaches(d, loop, start + off[N], State(N))
  <2>1. N \in P
    <3> HIDE DEF P
    <3> QED BY <1>1, <1>11, <1>12, SetInduction
  <2> QED BY <1>1, <2>1
<1>14. Reaches(d, loop, Len(d), State(N))
  BY <1>4, <1>9, <1>13
<1>15. loop[Len(d)].task = State(N)
  BY <1>8, <1>14, ReachesEnd
<1> QED BY <1>5, <1>6, <1>15 DEF State

\* A complete packet is read as its request.
LEMMA CompleteRead ==
  ASSUME NEW es, NEW id, NEW command, IsRequest(es, id, command),
         NEW p, p = SetRequestData(es, id, command)
  PROVE  CreateFromArray(p.crc, p.bytes) = TaskOf(id, command, ReadEntities(es, Len(es)))
<1> DEFINE d == p.bytes  n == Len(d)  start == BodyAt(es, id)  body == Body(es)
           covered == IF Size(es) > CrcLimit THEN CrcLimit ELSE Size(es)
           cut == SubSeq(body, 1, covered)
<1>1. /\ d \in Seq(Byte) /\ n = start + Size(es)
      /\ p.crc = Covered(body, Size(es))
      /\ Holds(d, start, body)
  BY PacketLayout
<1>2. /\ es \in Seq(EntityL) /\ Size(es) \in Nat
      /\ body \in Seq(Byte) /\ Len(body) = Size(es)
      /\ LengthOf(id) \in 1..3 /\ LengthOf(Size(es)) \in 0..4
  BY RequestIs
<1>3. /\ start \in Nat /\ HeaderSize <= start /\ n \in Nat
      /\ covered \in 0..Size(es)
  BY <1>1, <1>2, CodecAssumption DEF BodyAt, HeaderSize, CodecAssumption
<1>4. cut \in Seq(Byte) /\ Len(cut) = covered /\ p.crc = cut /\ Holds(d, start, cut)
  <2>1. p.crc = cut
    BY <1>1 DEF Covered
  <2> HIDE DEF covered, body, d, n
  <2>2. \A k \in 1..covered : body[k] \in Byte
    BY <1>2, <1>3
  <2>3. cut \in Seq(Byte) /\ Len(cut) = covered /\ \A k \in 1..covered : cut[k] = body[k]
    BY <1>3, <2>2, SubSeqProperties
  <2>4. \A k \in 1..covered : k \in 1..Len(body)
    BY <1>2, <1>3
  <2> HIDE DEF cut
  <2>5. Holds(d, start, cut)
    BY <1>1, <2>3, <2>4 DEF Holds
  <2> QED BY <2>1, <2>3, <2>5
<1> HIDE DEF d, n, start, covered, cut, body
<1>5. Slice(d, start, covered) = p.crc
  <2>1. start + Len(cut) <= Len(d)
    BY <1>1, <1>2, <1>3, <1>4 DEF n
  <2> QED BY <1>1, <1>3, <1>4, <2>1, HoldsSlice
<1>6. HeaderSays(es, id, command, d, n)
  <2>1. SubSeq(d, 1, n) = d
    BY <1>1 DEF n
  <2>2. n \in 0..Len(d) /\ d = SetRequestData(es, id, command).bytes
    BY <1>3 DEF n, d
  <2> QED BY <2>1, <2>2, HeaderRead
<1> DEFINE i == Bits(At(d, 0), 1, 4)  j == Bits(At(d, 0), 4, 8)
           bodyAt == HeaderSize + i + j
           size == GetInt(Slice(d, HeaderSize + i, j))
<1>7. /\ i = LengthOf(id) /\ j = LengthOf(Size(es)) /\ At(d, 3) = command
      /\ GetInt(Slice(d, HeaderSize, i)) = id /\ size = Size(es) /\ bodyAt = start
  <2>1. HeaderSize <= n /\ BodyAt(es, id) <= n
    BY <1>1, <1>2, <1>3 DEF start, HeaderSize
  <2>2. i = LengthOf(id) /\ j = LengthOf(Size(es)) /\ At(d, 3) = command
    BY <1>6, <2>1 DEF HeaderSays
  <2>3. /\ GetInt(Slice(d, HeaderSize, LengthOf(id))) = id
        /\ GetInt(Slice(d, HeaderSize + LengthOf(id), LengthOf(Size(es)))) = Size(es)
    BY <1>6, <2>1 DEF HeaderSays
  <2> HIDE DEF i, j
  <2> QED BY <2>2, <2>3 DEF BodyAt, start
<1>8. /\ ~(Len(d) < HeaderSize) /\ ~(Len(d) < start) /\ ~(Len(d) < start + covered)
      /\ start + Size(es) = Len(d)
  BY <1>1, <1>2, <1>3 DEF n, HeaderSize
<1>9. CreateFromArray(p.crc, d)
        = Entities(d, start, Len(d), TaskOf(id, command, <<>>))
  <2>1. (IF size > CrcLimit THEN CrcLimit ELSE size) = covered
    BY <1>7 DEF covered
  <2>2. Obtained(GetInt(Slice(d, HeaderSize, i)), At(d, 3)) = TaskOf(id, command, <<>>)
    BY <1>7 DEF Obtained, TaskOf
  <2>3. CreateFromArray(p.crc, d)
          = IF Len(d) < HeaderSize \/ Len(d) < bodyAt
               \/ Len(d) < bodyAt + (IF size > CrcLimit THEN CrcLimit ELSE size)
               \/ Slice(d, bodyAt, IF size > CrcLimit THEN CrcLimit ELSE size) # p.crc
            THEN Thrown
            ELSE Entities(d, bodyAt, bodyAt + size,
                          Obtained(GetInt(Slice(d, HeaderSize, i)), At(d, 3)))
    BY Zenon DEF CreateFromArray
  <2> HIDE DEF i, j, bodyAt, size
  <2> QED BY <1>5, <1>7, <1>8, <2>1, <2>2, <2>3
<1>10. Entities(d, start, Len(d), TaskOf(id, command, <<>>))
         = TaskOf(id, command, ReadEntities(es, Len(es)))
  BY <1>1, <1>2, <1>3, <1>8, BodyRead DEF body
<1> QED BY <1>9, <1>10 DEF d
-----------------------------------------------------------------------------
(* What is read is what was written.                                       *)

\* LastOf a whole list is what RoundTrip calls the last ones.
LEMMA LastIs ==
  ASSUME NEW list \in Seq(Attribute)
  PROVE  LastOf(list, Len(list)) = {i \in DOMAIN list : IsLast(list, i)}
<1>1. DOMAIN list = 1..Len(list)
  OBVIOUS
<1> QED BY <1>1 DEF LastOf, IsLast

\* An entity read whole is the entity written, its values as ReadAs says.
LEMMA SameWhole ==
  ASSUME NEW e \in EntityL
  PROVE  SameEntity(e, Whole(e))
<1> DEFINE list == e.attributes
           last == {i \in DOMAIN list : IsLast(list, i)}
           got == Whole(e)
<1>1. list \in Seq(Attribute)
  BY EntityHeadIs
<1>2. LastOf(list, Len(list)) = last
  BY <1>1, LastIs
<1>3. /\ got.num = e.num /\ got.type = e.type
      /\ got.attributes = {Back(list[i]) : i \in last}
  BY <1>2 DEF Whole, Partial, Kept
<1>4. \A i \in last : list[i] \in Attribute
  BY <1>1
<1> HIDE DEF last, got
<1>5. {<<a.num, a.type>> : a \in got.attributes} = {<<list[i].num, list[i].type>> : i \in last}
  <2>1. \A i \in last : Back(list[i]).num = list[i].num /\ Back(list[i]).type = list[i].type
    BY DEF Back
  <2> QED BY <1>3, <2>1
<1>6. ASSUME NEW i \in last
      PROVE  \E a \in got.attributes :
               /\ a.num = list[i].num /\ a.type = list[i].type
               /\ GetValue(a.value) = ReadAs(list[i].of)
  <2> DEFINE b == list[i]
  <2>1. b \in Attribute
    BY <1>4
  <2>2. Back(b) \in got.attributes
    BY <1>3
  <2>3. /\ Back(b).num = b.num /\ Back(b).type = b.type /\ Back(b).value = ReadBack(b)
    BY DEF Back
  <2>4. b.of \in Object
    BY <2>1, DataIs
  <2> HIDE DEF b
  <2>5. ReadBack(b) = ReadValue(SetValue(b.of).type, Written(SetValue(b.of)))
    BY DEF ReadBack, Value, Data
  <2>6. GetValue(ReadBack(b)) = ReadAs(b.of)
    BY <2>4, <2>5, ReadAsIs
  <2> QED BY <2>2, <2>3, <2>6 DEF b
<1> QED BY <1>3, <1>5, <1>6 DEF SameEntity, last, got

\* A complete packet is read as the request it was written for, whatever the entities
\* and attributes, the lengths of their fields and their values, where CompareTo can
\* order the keys; but a Float has its bytes turned round, and a Double is an Integer
\* that is 0.
THEOREM RoundTripHolds == Spec => []RoundTrip
<1>1. CodecInv => RoundTrip
  <2>1. ASSUME Untouched PROVE RoundTrip
    BY <2>1 DEF Untouched, RoundTrip, Complete
  <2>2. ASSUME NEW es, NEW id, NEW command, WrittenFor(es, id, command) PROVE RoundTrip
    <3> SUFFICES ASSUME Complete,
                        \A i \in DOMAIN request.entities : Comparable(request.entities[i])
                 PROVE  SameRequest
      BY DEF RoundTrip
    <3> DEFINE read == ReadEntities(es, Len(es))
    <3>1. /\ IsRequest(es, id, command)
          /\ request = [entities |-> es, id |-> id, command |-> command]
          /\ packet = SetRequestData(es, id, command)
          /\ task = CreateFromArray(packet.crc, SubSeq(packet.bytes, 1, Len(packet.bytes)))
      BY <2>2 DEF WrittenFor, Complete
    <3>2. es \in Seq(EntityL) /\ packet.bytes \in Seq(Byte)
      BY <3>1, RequestIs, PacketLayout
    <3>3. SubSeq(packet.bytes, 1, Len(packet.bytes)) = packet.bytes
      BY <3>2
    <3>4. task = TaskOf(id, command, read)
      BY <3>1, <3>3, CompleteRead
    <3>5. /\ DOMAIN read = 1..Len(es) /\ Len(read) = Len(es)
          /\ \A i \in 1..Len(es) : read[i] = Whole(es[i])
      <4>1. Len(es) \in Nat
        BY <3>2
      <4> QED BY <4>1 DEF ReadEntities
    <3>6. ASSUME NEW i \in 1..Len(es) PROVE SameEntity(es[i], read[i])
      <4>1. es[i] \in EntityL
        BY <3>2
      <4> QED BY <3>5, <4>1, SameWhole
    <3> HIDE DEF read
    <3>7. /\ task.result = "obtained" /\ task.id = id /\ task.command = command
          /\ task.entities = read
      BY <3>4 DEF TaskOf
    <3>8. request.entities = es /\ request.id = id /\ request.command = command
      BY <3>1
    <3> QED BY <3>5, <3>6, <3>7, <3>8 DEF SameRequest
  <2> QED BY <2>1, <2>2 DEF CodecInv
<1> QED BY <1>1, CodecInvariant, PTL
=============================================================================
