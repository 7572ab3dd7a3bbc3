------------------------------ MODULE TuiProofs -----------------------------
(***************************************************************************)
(* Proofs about TuiApp, for every number of tasks, log events, caps and    *)
(* heights: what the counters, the tables, the log and its page show.      *)
(***************************************************************************)
EXTENDS TuiApp, WellFoundedInduction, TLAPS

-----------------------------------------------------------------------------
(* Select computes a subsequence, by induction on the sequence.  The       *)
(* induction is by least counterexample, which the provers can apply to a  *)
(* set.                                                                    *)

(* A set of naturals that has an element has a least one.                  *)
LEMMA LeastNatural ==
  ASSUME NEW S, S \subseteq Nat, S # {}
  PROVE  \E n \in S : \A k \in S : k >= n
  <1> DEFINE R == OpToRel(<, Nat)
  <1>1. IsWellFoundedOn(R, Nat)
    BY NatLessThanWellFounded
  <1>2. \A m, n \in Nat : <<m, n>> \in R <=> m < n
    BY DEF OpToRel
  <1> HIDE DEF R
  <1>3. PICK n \in S : \A m \in S : ~(<<m, n>> \in R)
    BY <1>1, WFMin, S \subseteq Nat, S # {}
  <1>4. \A m \in S : n \in Nat /\ m \in Nat /\ ~(m < n)
    BY <1>2, <1>3, S \subseteq Nat
  <1> QED
    BY <1>3, <1>4

(* Induction over a set of naturals.                                       *)
LEMMA Induction ==
  ASSUME NEW G, 0 \in G, \A n \in Nat : n \in G => n + 1 \in G
  PROVE  Nat \subseteq G
  <1> SUFFICES ASSUME Nat \ G # {} PROVE FALSE
    OBVIOUS
  <1>1. PICK n \in Nat \ G : \A k \in Nat \ G : k >= n
    BY LeastNatural
  <1>2. n - 1 \in Nat /\ n - 1 \in G
    BY <1>1
  <1> QED
    BY <1>1, <1>2

Steps(s, S, f, m) ==
  f = [n \in 0..m |-> IF n = 0 THEN << >>
        ELSE IF s[n] \in S THEN Append(f[n - 1], s[n]) ELSE f[n - 1]]

LEMMA StepsExist ==
  ASSUME NEW s, NEW S
  PROVE  \A m \in Nat : \E f : Steps(s, S, f, m)
  <1> DEFINE G == {m \in Nat : \E f : Steps(s, S, f, m)}
  <1>1. 0 \in G
    <2>1. Steps(s, S, [n \in 0..0 |-> << >>], 0)
      BY DEF Steps
    <2> QED
      BY <2>1
  <1>2. ASSUME NEW m \in Nat, m \in G PROVE m + 1 \in G
    <2>1. PICK f : Steps(s, S, f, m)
      BY <1>2
    <2> DEFINE g == [n \in 0..(m + 1) |->
                       IF n = 0 THEN << >>
                       ELSE IF s[n] \in S THEN Append(f[n - 1], s[n]) ELSE f[n - 1]]
    <2>2. \A n \in 0..m : g[n] = f[n]
      <3>1. \A n \in 0..m :
              f[n] = IF n = 0 THEN << >>
                     ELSE IF s[n] \in S THEN Append(f[n - 1], s[n]) ELSE f[n - 1]
        BY <2>1, Zenon DEF Steps
      <3>2. \A n \in 0..m : n \in 0..(m + 1)
        OBVIOUS
      <3> QED
        BY <3>1, <3>2, Zenon
    <2>3. \A n \in 0..(m + 1) : n # 0 => g[n - 1] = f[n - 1]
      <3> SUFFICES ASSUME NEW n \in 0..(m + 1), n # 0 PROVE g[n - 1] = f[n - 1]
        OBVIOUS
      <3>1. n - 1 \in 0..m
        OBVIOUS
      <3> QED
        BY <2>2, <3>1
    <2>4. \A n \in 0..(m + 1) :
            g[n] = IF n = 0 THEN << >>
                   ELSE IF s[n] \in S THEN Append(g[n - 1], s[n]) ELSE g[n - 1]
      BY <2>3
    <2>5. g = [n \in 0..(m + 1) |-> g[n]]
      OBVIOUS
    <2> HIDE DEF g
    <2>6. Steps(s, S, g, m + 1)
      BY <2>4, <2>5, Zenon DEF Steps
    <2> QED
      BY <2>6
  <1> HIDE DEF G
  <1>3. Nat \subseteq G
    BY <1>1, <1>2, Induction
  <1> QED
    BY <1>3 DEF G

LEMMA ChosenSteps ==
  ASSUME NEW s, NEW S, Len(s) \in Nat
  PROVE  Steps(s, S, Chosen(s, S), Len(s))
  <1>1. \E f : Steps(s, S, f, Len(s))
    BY StepsExist
  <1> QED
    BY <1>1 DEF Chosen, Steps

LEMMA ChosenValues ==
  ASSUME NEW s, NEW S, Len(s) \in Nat
  PROVE  /\ Chosen(s, S)[0] = << >>
         /\ \A n \in 1..Len(s) :
              Chosen(s, S)[n] = IF s[n] \in S THEN Append(Chosen(s, S)[n - 1], s[n])
                                ELSE Chosen(s, S)[n - 1]
  <1> DEFINE f == Chosen(s, S)
  <1>1. Steps(s, S, f, Len(s))
    BY ChosenSteps
  <1> HIDE DEF f
  <1>2. \A n \in 0..Len(s) :
          f[n] = IF n = 0 THEN << >>
                 ELSE IF s[n] \in S THEN Append(f[n - 1], s[n]) ELSE f[n - 1]
    BY <1>1, Zenon DEF Steps
  <1> QED
    BY <1>2 DEF f

(* Below the end of s, what follows it makes no difference. *)
LEMMA ChosenPrefix ==
  ASSUME NEW T, NEW s \in Seq(T), NEW x \in T, NEW S
  PROVE  \A n \in 0..Len(s) : Chosen(Append(s, x), S)[n] = Chosen(s, S)[n]
  <1> DEFINE t == Append(s, x)
             G == {n \in Nat : n <= Len(s) => Chosen(t, S)[n] = Chosen(s, S)[n]}
  <1>1. /\ Len(s) \in Nat /\ Len(t) = Len(s) + 1 /\ Len(t) \in Nat
        /\ \A n \in 1..Len(s) : t[n] = s[n]
    OBVIOUS
  <1> HIDE DEF t
  <1>2. 0 \in G
    BY <1>1, ChosenValues
  <1>3. ASSUME NEW n \in Nat, n \in G PROVE n + 1 \in G
    <2> SUFFICES ASSUME n + 1 <= Len(s) PROVE Chosen(t, S)[n + 1] = Chosen(s, S)[n + 1]
      OBVIOUS
    <2>1. n + 1 \in 1..Len(s) /\ n + 1 \in 1..Len(t) /\ (n + 1) - 1 = n
      BY <1>1
    <2>2. Chosen(t, S)[n] = Chosen(s, S)[n]
      BY <1>1, <1>3, <2>1
    <2>3. \A u \in {s, t} :
            Chosen(u, S)[n + 1] = IF u[n + 1] \in S THEN Append(Chosen(u, S)[n], u[n + 1])
                                  ELSE Chosen(u, S)[n]
      BY <1>1, <2>1, ChosenValues
    <2> QED
      BY <1>1, <2>1, <2>2, <2>3
  <1> HIDE DEF G
  <1>4. Nat \subseteq G
    BY <1>2, <1>3, Induction
  <1> QED
    BY <1>1, <1>4 DEF G, t

LEMMA SeqEqual ==
  ASSUME NEW T, NEW s \in Seq(T), NEW t \in Seq(T), Len(s) = Len(t),
         \A i \in 1..Len(s) : s[i] = t[i]
  PROVE  s = t
  OBVIOUS

LEMMA SelectEmpty == ASSUME NEW S PROVE Select(<< >>, S) = << >>
  BY ChosenValues DEF Select

LEMMA SelectAppend ==
  ASSUME NEW T, NEW s \in Seq(T), NEW x \in T, NEW S
  PROVE  Select(Append(s, x), S) = IF x \in S THEN Append(Select(s, S), x) ELSE Select(s, S)
  <1> DEFINE t == Append(s, x)
  <1>1. /\ Len(s) \in Nat /\ Len(t) = Len(s) + 1 /\ Len(t) \in 1..Len(t) /\ t[Len(t)] = x
        /\ Len(s) \in 0..Len(s) /\ Len(t) \in Nat /\ Len(t) - 1 = Len(s)
    OBVIOUS
  <1>2. Chosen(t, S)[Len(s)] = Chosen(s, S)[Len(s)]
    BY <1>1, ChosenPrefix
  <1> HIDE DEF t
  <1>3. Chosen(t, S)[Len(t)] = IF t[Len(t)] \in S THEN Append(Chosen(t, S)[Len(t) - 1], t[Len(t)])
                                ELSE Chosen(t, S)[Len(t) - 1]
    BY <1>1, ChosenValues
  <1> QED
    BY <1>1, <1>2, <1>3 DEF Select, t

LEMMA SelectTyped ==
  ASSUME NEW T, NEW s \in Seq(T), NEW S
  PROVE  Select(s, S) \in Seq(T)
  <1> DEFINE G == {n \in Nat : n <= Len(s) => Chosen(s, S)[n] \in Seq(T)}
  <1>1. Len(s) \in Nat /\ \A n \in 1..Len(s) : s[n] \in T
    OBVIOUS
  <1>2. 0 \in G
    <2>1. Chosen(s, S)[0] = << >> /\ << >> \in Seq(T)
      BY <1>1, ChosenValues
    <2> QED
      BY <2>1
  <1>3. ASSUME NEW n \in Nat, n \in G PROVE n + 1 \in G
    <2> SUFFICES ASSUME n + 1 <= Len(s) PROVE Chosen(s, S)[n + 1] \in Seq(T)
      OBVIOUS
    <2>1. n + 1 \in 1..Len(s) /\ (n + 1) - 1 = n
      BY <1>1
    <2>2. Chosen(s, S)[n] \in Seq(T)
      BY <1>1, <1>3, <2>1
    <2>3. Chosen(s, S)[n + 1] = IF s[n + 1] \in S THEN Append(Chosen(s, S)[n], s[n + 1]) ELSE Chosen(s, S)[n]
      BY <1>1, <2>1, ChosenValues
    <2> QED
      BY <1>1, <2>1, <2>2, <2>3
  <1> HIDE DEF G
  <1>4. Nat \subseteq G
    BY <1>2, <1>3, Induction
  <1> QED
    BY <1>1, <1>4 DEF G, Select

LEMMA SelectAll ==
  ASSUME NEW T, NEW s \in Seq(T), NEW S, T \subseteq S
  PROVE  Select(s, S) = s
  <1> DEFINE G == {n \in Nat : n <= Len(s) => Chosen(s, S)[n] = SubSeq(s, 1, n)}
  <1>1. Len(s) \in Nat /\ \A n \in 1..Len(s) : s[n] \in S
    OBVIOUS
  <1>2. 0 \in G
    <2>1. SubSeq(s, 1, 0) = << >>
      OBVIOUS
    <2> QED
      BY <1>1, <2>1, ChosenValues
  <1>3. ASSUME NEW n \in Nat, n \in G PROVE n + 1 \in G
    <2> SUFFICES ASSUME n + 1 <= Len(s) PROVE Chosen(s, S)[n + 1] = SubSeq(s, 1, n + 1)
      OBVIOUS
    <2>1. n + 1 \in 1..Len(s) /\ (n + 1) - 1 = n
      BY <1>1
    <2>2. Chosen(s, S)[n] = SubSeq(s, 1, n)
      BY <1>1, <1>3, <2>1
    <2>3. Chosen(s, S)[n + 1] = IF s[n + 1] \in S THEN Append(Chosen(s, S)[n], s[n + 1])
                                ELSE Chosen(s, S)[n]
      BY <1>1, <2>1, ChosenValues
    <2>4. SubSeq(s, 1, n + 1) = Append(SubSeq(s, 1, n), s[n + 1])
      <3>1. SubSeq(s, 1, n + 1) \in Seq(T) /\ SubSeq(s, 1, n) \in Seq(T)
        BY <2>1
      <3>2. s[n + 1] \in T /\ Append(SubSeq(s, 1, n), s[n + 1]) \in Seq(T)
        BY <1>1, <2>1, <3>1
      <3>3. Len(SubSeq(s, 1, n + 1)) = n + 1 /\ Len(SubSeq(s, 1, n)) = n
        BY <1>1, <2>1
      <3>4. Len(Append(SubSeq(s, 1, n), s[n + 1])) = n + 1
        BY <3>1, <3>2, <3>3
      <3>5. ASSUME NEW i \in 1..(n + 1)
            PROVE  SubSeq(s, 1, n + 1)[i] = Append(SubSeq(s, 1, n), s[n + 1])[i]
        <4>1. SubSeq(s, 1, n + 1)[i] = s[i]
          BY <1>1, <2>1
        <4>2. CASE i = n + 1
          BY <3>1, <3>2, <3>3, <4>1, <4>2
        <4>3. CASE i \in 1..n
          <5>1. SubSeq(s, 1, n)[i] = s[i]
            BY <1>1, <2>1, <4>3
          <5> QED
            BY <3>1, <3>2, <3>3, <4>1, <4>3, <5>1
        <4> QED
          BY <4>2, <4>3
      <3> QED
        BY <3>1, <3>2, <3>3, <3>4, <3>5, SeqEqual
    <2> QED
      BY <1>1, <2>1, <2>2, <2>3, <2>4
  <1> HIDE DEF G
  <1>4. Nat \subseteq G
    BY <1>2, <1>3, Induction
  <1>5. SubSeq(s, 1, Len(s)) = s
    OBVIOUS
  <1> QED
    BY <1>1, <1>4, <1>5 DEF G, Select
-----------------------------------------------------------------------------
(* Buffers.                                                                *)

LEMMA AppendOne ==
  ASSUME NEW T, NEW s \in Seq(T), NEW x \in T
  PROVE  /\ Append(s, x) \in Seq(T)
         /\ Len(s) \in Nat /\ DOMAIN s = 1..Len(s)
         /\ Len(Append(s, x)) = Len(s) + 1 /\ DOMAIN Append(s, x) = 1..(Len(s) + 1)
         /\ Append(s, x)[Len(s) + 1] = x
         /\ \A i \in 1..Len(s) : Append(s, x)[i] = s[i] /\ s[i] \in T
  OBVIOUS

LEMMA TailOne ==
  ASSUME NEW T, NEW s \in Seq(T), s # << >>
  PROVE  /\ Tail(s) \in Seq(T) /\ Head(s) \in T /\ Head(s) = s[1]
         /\ Len(s) \in Nat \ {0} /\ DOMAIN s = 1..Len(s)
         /\ Len(Tail(s)) = Len(s) - 1 /\ DOMAIN Tail(s) = 1..(Len(s) - 1)
         /\ \A i \in 1..(Len(s) - 1) : Tail(s)[i] = s[i + 1]
  OBVIOUS

LEMMA SubSeqOne ==
  ASSUME NEW T, NEW s \in Seq(T), NEW m \in Nat \ {0}, NEW n \in Nat, n <= Len(s)
  PROVE  /\ SubSeq(s, m, n) \in Seq(T)
         /\ Len(SubSeq(s, m, n)) = IF m <= n THEN n - m + 1 ELSE 0
         /\ \A i \in 1..(n - m + 1) : SubSeq(s, m, n)[i] = s[m + i - 1]
  OBVIOUS

(* A buffer never outgrows its cap, and keeps the newest.                  *)
LEMMA PushOne ==
  ASSUME NEW T, NEW s \in Seq(T), NEW x \in T, NEW cap \in Nat \ {0}, Len(s) <= cap
  PROVE  /\ Push(s, cap, x) \in Seq(T)
         /\ Len(Push(s, cap, x)) <= cap
         /\ Len(s) < cap => Push(s, cap, x) = Append(s, x)
         /\ Len(s) >= cap => Push(s, cap, x) = Append(Tail(s), x)
  <1>1. Len(s) \in Nat
    OBVIOUS
  <1>2. CASE Len(s) < cap
    <2>1. Push(s, cap, x) = Append(s, x)
      BY <1>1, <1>2 DEF Push
    <2> QED
      BY <1>1, <1>2, <2>1, AppendOne
  <1>3. CASE Len(s) = cap
    <2>1. s # << >> /\ Push(s, cap, x) = Append(Tail(s), x)
      BY <1>1, <1>3 DEF Push
    <2>2. Tail(s) \in Seq(T) /\ Len(Tail(s)) = Len(s) - 1
      BY <2>1, TailOne
    <2>3. Append(Tail(s), x) \in Seq(T) /\ Len(Append(Tail(s), x)) = cap
      BY <1>1, <1>3, <2>2, AppendOne
    <2> QED
      BY <1>1, <1>3, <2>1, <2>3
  <1> QED
    BY <1>1, <1>2, <1>3

LEMMA LastOfOne ==
  ASSUME NEW T, NEW s \in Seq(T), NEW n \in Nat
  PROVE  /\ LastOf(s, n) \in Seq(T)
         /\ Len(LastOf(s, n)) = Least(n, Len(s))
         /\ \A i \in 1..Least(n, Len(s)) : LastOf(s, n)[i] = s[Len(s) - Least(n, Len(s)) + i]
  <1> DEFINE m == Len(s) - Least(n, Len(s)) + 1
  <1>1. /\ Len(s) \in Nat /\ Least(n, Len(s)) \in Nat /\ Least(n, Len(s)) <= Len(s)
        /\ m \in Nat \ {0}
    BY DEF Least
  <1>2. LastOf(s, n) = SubSeq(s, m, Len(s))
    BY DEF LastOf
  <1> HIDE DEF m
  <1>3. /\ SubSeq(s, m, Len(s)) \in Seq(T)
        /\ Len(SubSeq(s, m, Len(s))) = IF m <= Len(s) THEN Len(s) - m + 1 ELSE 0
        /\ \A i \in 1..(Len(s) - m + 1) : SubSeq(s, m, Len(s))[i] = s[m + i - 1]
    BY <1>1, SubSeqOne
  <1>4. Len(s) - m + 1 = Least(n, Len(s)) /\ \A i \in Nat : m + i - 1 = Len(s) - Least(n, Len(s)) + i
    BY <1>1 DEF m
  <1>5. ASSUME NEW i \in 1..Least(n, Len(s))
        PROVE  SubSeq(s, m, Len(s))[i] = s[Len(s) - Least(n, Len(s)) + i]
    <2>1. i \in 1..(Len(s) - m + 1) /\ m + i - 1 = Len(s) - Least(n, Len(s)) + i
      BY <1>1, <1>4
    <2> QED
      BY <1>3, <2>1
  <1>6. (IF m <= Len(s) THEN Len(s) - m + 1 ELSE 0) = Least(n, Len(s))
    BY <1>1, <1>4
  <1> QED
    BY <1>2, <1>3, <1>5, <1>6

(* The newest n of a longer sequence are those of the shorter one with the *)
(* new element pushed.                                                     *)
LEMMA LastOfAppend ==
  ASSUME NEW T, NEW s \in Seq(T), NEW x \in T, NEW n \in Nat \ {0}
  PROVE  LastOf(Append(s, x), n) = Push(LastOf(s, n), n, x)
  <1> DEFINE t == Append(s, x)
             l == LastOf(s, n)
             p == Push(l, n, x)
             r == LastOf(t, n)
  <1>1. /\ t \in Seq(T) /\ Len(s) \in Nat /\ Len(t) = Len(s) + 1
        /\ t[Len(s) + 1] = x /\ \A i \in 1..Len(s) : t[i] = s[i]
    BY AppendOne
  <1>2. /\ l \in Seq(T) /\ Len(l) = Least(n, Len(s))
        /\ \A i \in 1..Least(n, Len(s)) : l[i] = s[Len(s) - Least(n, Len(s)) + i]
    BY LastOfOne
  <1> HIDE DEF t, l
  <1>3. /\ r \in Seq(T) /\ Len(r) = Least(n, Len(t))
        /\ \A i \in 1..Least(n, Len(t)) : r[i] = t[Len(t) - Least(n, Len(t)) + i]
    BY <1>1, LastOfOne
  <1>4. Len(l) <= n
    BY <1>1, <1>2 DEF Least
  <1> HIDE DEF r
  <1>5. /\ Push(l, n, x) \in Seq(T)
        /\ Len(l) < n => Push(l, n, x) = Append(l, x)
        /\ Len(l) >= n => Push(l, n, x) = Append(Tail(l), x)
    <2>1. Push(l, n, x) \in Seq(T)
      BY <1>2, <1>4, PushOne
    <2>2. Len(l) < n => Push(l, n, x) = Append(l, x)
      BY <1>2, <1>4, PushOne
    <2>3. Len(l) >= n => Push(l, n, x) = Append(Tail(l), x)
      BY DEF Push
    <2> QED
      BY <2>1, <2>2, <2>3
  <1> HIDE DEF p
  <1>6. ASSUME Len(s) < n PROVE r = p
    <2>1. /\ Least(n, Len(s)) = Len(s) /\ Least(n, Len(t)) = Len(s) + 1
          /\ Len(s) - Len(s) = 0 /\ Len(t) - (Len(s) + 1) = 0
      BY <1>1, <1>6 DEF Least
    <2>2. /\ p = Append(l, x) /\ Len(l) = Len(s) /\ Len(p) = Len(s) + 1
          /\ p[Len(s) + 1] = x /\ \A i \in 1..Len(s) : p[i] = l[i]
      BY <1>2, <1>5, <1>6, <2>1, AppendOne DEF p
    <2>3. \A i \in 1..Len(s) : l[i] = s[i]
      BY <1>1, <1>2, <2>1
    <2>4. \A i \in 1..(Len(s) + 1) : r[i] = t[i]
      BY <1>1, <1>3, <2>1
    <2>5. Len(r) = Len(p) /\ \A i \in 1..Len(r) : r[i] = p[i]
      BY <1>1, <1>3, <2>1, <2>2, <2>3, <2>4
    <2> QED
      BY <1>3, <1>5, <2>5, SeqEqual DEF p
  <1>7. ASSUME Len(s) >= n PROVE r = p
    <2>1. Least(n, Len(s)) = n /\ Least(n, Len(t)) = n
      BY <1>1, <1>7 DEF Least
    <2>2. p = Append(Tail(l), x) /\ Len(l) = n /\ l # << >>
      BY <1>2, <1>5, <2>1 DEF p
    <2>3. /\ Tail(l) \in Seq(T) /\ Len(Tail(l)) = n - 1
          /\ \A i \in 1..(n - 1) : Tail(l)[i] = l[i + 1]
      BY <1>2, <2>2, TailOne
    <2>4. /\ Len(p) = n /\ p[n] = x /\ \A i \in 1..(n - 1) : p[i] = Tail(l)[i]
      <3>1. /\ Len(Append(Tail(l), x)) = (n - 1) + 1
            /\ Append(Tail(l), x)[(n - 1) + 1] = x
            /\ \A i \in 1..(n - 1) : Append(Tail(l), x)[i] = Tail(l)[i]
        BY <2>3, AppendOne
      <3> QED
        BY <2>2, <3>1
    <2>5. ASSUME NEW i \in 1..n PROVE r[i] = p[i]
      <3>1. r[i] = t[Len(s) + 1 - n + i]
        BY <1>1, <1>3, <2>1
      <3>2. CASE i = n
        <4>1. Len(s) + 1 - n + i = Len(s) + 1
          BY <1>1, <3>2
        <4> QED
          BY <1>1, <2>4, <3>1, <3>2, <4>1
      <3>3. CASE i \in 1..(n - 1)
        <4>1. p[i] = l[i + 1] /\ i + 1 \in 1..n
          BY <2>3, <2>4, <3>3
        <4>2. l[i + 1] = s[Len(s) - n + (i + 1)]
          BY <1>2, <2>1, <4>1
        <4>3. Len(s) - n + (i + 1) = Len(s) + 1 - n + i /\ Len(s) + 1 - n + i \in 1..Len(s)
          BY <1>1, <1>7, <3>3
        <4> QED
          BY <1>1, <3>1, <4>1, <4>2, <4>3
      <3> QED
        BY <3>2, <3>3
    <2>6. Len(r) = n
      BY <1>3, <2>1
    <2> QED
      BY <1>3, <1>5, <2>4, <2>5, <2>6, SeqEqual DEF p
  <1> QED
    BY <1>1, <1>6, <1>7 DEF p, r, t, l

-----------------------------------------------------------------------------
(* Types.                                                                  *)

LEMMA Caps ==
  /\ TuiCap \in Nat \ {0} /\ MaxOpportunities \in Nat \ {0} /\ MaxSparkline \in Nat \ {0}
  /\ MaxBundles \in Nat \ {0} /\ MaxLogs \in Nat \ {0}
  /\ MaxEmitted \in Nat /\ MaxInputs \in Nat
  BY TuiAssumption

(* What a task logs is sent as events of their kind.                       *)
LEMMA EventKinds ==
  ASSUME NEW id \in 1..MaxEmitted, NEW l \in LogEvents
  PROVE  LET e == [id |-> id, line |-> l]
         IN  /\ Record(e) = [what |-> l.kind, id |-> id, line |-> l]
             /\ Line(e) = [what |-> "line", id |-> id, line |-> l]
             /\ Record(e) \in TuiEvents /\ Line(e) \in TuiEvents
  BY DEF Record, Line, TuiEvents, LogEvents

LEMMA TrySendTyped ==
  ASSUME TypeOK, NEW ev \in TuiEvents, TrySend(ev)
  PROVE  tuiQ' \in Seq(TuiEvents) /\ Len(tuiQ') <= TuiCap
  <1>1. tuiQ \in Seq(TuiEvents) /\ Len(tuiQ) <= TuiCap /\ Len(tuiQ) \in Nat
    BY DEF TypeOK
  <1>2. CASE ended \/ Len(tuiQ) >= TuiCap
    BY <1>1, <1>2 DEF TrySend
  <1>3. CASE ~(ended \/ Len(tuiQ) >= TuiCap)
    <2>1. tuiQ' = Append(tuiQ, ev)
      BY <1>3 DEF TrySend
    <2>2. Append(tuiQ, ev) \in Seq(TuiEvents) /\ Len(Append(tuiQ, ev)) = Len(tuiQ) + 1
      BY <1>1, AppendOne
    <2> QED
      BY <1>1, <1>3, <2>1, <2>2, Caps
  <1> QED
    BY <1>2, <1>3

LEMMA LayerTyped ==
  ASSUME TypeOK, Layer
  PROVE  TypeOK'
  <1>1. PICK w \in Tasks : ForwardLine(w) \/ \E l \in Lines[w] : OnEvent(w, l)
    BY DEF Layer
  <1>2. UNCHANGED <<ended, records, app, handled, inputs>>
    BY <1>1 DEF ForwardLine, OnEvent
  <1>3. /\ emitted \in 0..MaxEmitted
        /\ emitting \in [Tasks -> [id : 1..emitted, line : LogEvents] \cup {Idle}]
    BY DEF TypeOK
  <1>4. CASE ForwardLine(w)
    <2>1. emitting[w] \in [id : 1..emitted, line : LogEvents]
      BY <1>3, <1>4 DEF ForwardLine
    <2>2. Line(emitting[w]) \in TuiEvents
      BY <1>3, <2>1, Caps DEF Line, TuiEvents
    <2>3. tuiQ' \in Seq(TuiEvents) /\ Len(tuiQ') <= TuiCap
      BY <1>4, <2>2, TrySendTyped DEF ForwardLine
    <2>4. /\ emitted' = emitted
          /\ emitting' \in [Tasks -> [id : 1..emitted, line : LogEvents] \cup {Idle}]
      BY <1>3, <1>4 DEF ForwardLine
    <2> QED
      BY <1>2, <2>3, <2>4 DEF TypeOK, records
  <1>5. ASSUME NEW l \in Lines[w], OnEvent(w, l) PROVE TypeOK'
    <2> DEFINE e == [id |-> emitted + 1, line |-> l]
    <2>1. l \in LogEvents
      BY TuiAssumption
    <2>2. emitted' = emitted + 1 /\ emitted + 1 \in 1..MaxEmitted
      BY <1>3, <1>5, Caps DEF OnEvent
    <2>3. Record(e) \in TuiEvents /\ Line(e) \in TuiEvents
      BY <2>1, <2>2, EventKinds
    <2>4. e \in [id : 1..(emitted + 1), line : LogEvents]
      BY <2>1, <2>2
    <2>5. [id : 1..emitted, line : LogEvents] \subseteq [id : 1..(emitted + 1), line : LogEvents]
      BY <1>3
    <2> HIDE DEF e
    <2>6. /\ TrySend(Line(e)) \/ TrySend(Record(e))
          /\ emitting' = emitting \/ emitting' = [emitting EXCEPT ![w] = e]
      BY <1>5 DEF OnEvent, e
    <2>7. tuiQ' \in Seq(TuiEvents) /\ Len(tuiQ') <= TuiCap
      BY <2>3, <2>6, TrySendTyped
    <2>8. emitting' \in [Tasks -> [id : 1..emitted', line : LogEvents] \cup {Idle}]
      BY <1>3, <2>2, <2>4, <2>5, <2>6
    <2>9. emitted' \in 0..MaxEmitted
      BY <2>2
    <2> QED
      BY <1>2, <2>7, <2>8, <2>9 DEF TypeOK, records
  <1> QED
    BY <1>1, <1>4, <1>5

(* What the TUI task takes off the channel.                                *)
LEMMA ReceivedTyped ==
  ASSUME TypeOK, NEW what, Received(what)
  PROVE  /\ Head(tuiQ) \in TuiEvents /\ Head(tuiQ).what = what
         /\ Head(tuiQ).id \in 1..MaxEmitted
         /\ [id |-> Head(tuiQ).id, matches |-> Head(tuiQ).line.matches] \in LogLines
         /\ tuiQ' \in Seq(TuiEvents) /\ Len(tuiQ') <= TuiCap
         /\ tuiQ \in Seq(TuiEvents) /\ tuiQ # << >> /\ tuiQ' = Tail(tuiQ)
         /\ UNCHANGED <<emitted, emitting, ended, inputs>>
  <1>1. tuiQ \in Seq(TuiEvents) /\ Len(tuiQ) <= TuiCap /\ tuiQ # << >> /\ tuiQ' = Tail(tuiQ)
    BY DEF TypeOK, Received
  <1>2. /\ Head(tuiQ) \in TuiEvents /\ Tail(tuiQ) \in Seq(TuiEvents)
        /\ Len(Tail(tuiQ)) = Len(tuiQ) - 1 /\ Len(tuiQ) \in Nat
    BY <1>1, TailOne
  <1>3. /\ Head(tuiQ).id \in 1..MaxEmitted
        /\ [id |-> Head(tuiQ).id, matches |-> Head(tuiQ).line.matches] \in LogLines
    BY <1>2 DEF TuiEvents, LogEvents, LogLines
  <1> QED
    BY <1>1, <1>2, <1>3, Caps DEF Received, emitVars

LEMMA HandledTyped ==
  ASSUME TypeOK, NEW ev \in TuiEvents, handled' = Append(handled, ev)
  PROVE  handled' \in Seq(TuiEvents)
  BY AppendOne DEF TypeOK

LEMMA ReceivesTyped ==
  ASSUME TypeOK, Receives
  PROVE  TypeOK'
  <1> DEFINE ev == Head(tuiQ)
             x == [id |-> ev.id, matches |-> ev.line.matches]
  <1>1. /\ ev \in TuiEvents /\ ev.id \in 1..MaxEmitted /\ x \in LogLines
        /\ tuiQ' \in Seq(TuiEvents) /\ Len(tuiQ') <= TuiCap
        /\ UNCHANGED <<emitted, emitting, ended, inputs>>
    BY ReceivedTyped DEF Receives, OpportunityReceived, BundleReceived, LineReceived
  <1> HIDE DEF ev, x
  <1>2. /\ opps \in Seq(1..MaxEmitted) /\ Len(opps) <= MaxOpportunities
        /\ sparkline \in Seq(1..MaxEmitted) /\ Len(sparkline) <= MaxSparkline
        /\ bundles \in Seq(1..MaxEmitted) /\ Len(bundles) <= MaxBundles
        /\ logs \in Seq(LogLines) /\ Len(logs) <= MaxLogs
    BY DEF TypeOK
  <1>3. CASE OpportunityReceived
    <2>1. AddOpportunity(ev) /\ UNCHANGED <<bundlesSent, bundles, logs, app>>
      BY <1>3 DEF OpportunityReceived, ev
    <2>2. CASE app.paused
      BY <1>1, <2>1, <2>2 DEF TypeOK, AddOpportunity
    <2>3. CASE ~app.paused
      <3>1. /\ oppsFound' = oppsFound + 1 /\ handled' = Append(handled, ev)
            /\ sparkline' = Push(sparkline, MaxSparkline, ev.id)
            /\ opps' = Push(opps, MaxOpportunities, ev.id)
        BY <2>1, <2>3 DEF AddOpportunity
      <3>2. sparkline' \in Seq(1..MaxEmitted) /\ Len(sparkline') <= MaxSparkline
        BY <1>1, <1>2, <3>1, PushOne, Caps
      <3>3. opps' \in Seq(1..MaxEmitted) /\ Len(opps') <= MaxOpportunities
        BY <1>1, <1>2, <3>1, PushOne, Caps
      <3>4. handled' \in Seq(TuiEvents)
        BY <1>1, <3>1, HandledTyped
      <3> QED
        BY <1>1, <2>1, <3>1, <3>2, <3>3, <3>4 DEF TypeOK
    <2> QED
      BY <2>2, <2>3
  <1>4. CASE BundleReceived
    <2>1. /\ bundlesSent' = bundlesSent + 1 /\ handled' = Append(handled, ev)
          /\ bundles' = Push(bundles, MaxBundles, ev.id)
          /\ UNCHANGED <<oppsFound, opps, sparkline, logs, app>>
      BY <1>4 DEF BundleReceived, AddBundle, ev
    <2>2. bundles' \in Seq(1..MaxEmitted) /\ Len(bundles') <= MaxBundles
      BY <1>1, <1>2, <2>1, PushOne, Caps
    <2>3. handled' \in Seq(TuiEvents)
      BY <1>1, <2>1, HandledTyped
    <2> QED
      BY <1>1, <2>1, <2>2, <2>3 DEF TypeOK
  <1>5. CASE LineReceived
    <2>1. /\ logs' = Push(logs, MaxLogs, x) /\ handled' = Append(handled, ev)
          /\ \/ app' = app
             \/ (app.logScroll > 0 /\ app' = [app EXCEPT !.logScroll = @ - 1])
          /\ UNCHANGED <<oppsFound, opps, sparkline, bundlesSent, bundles>>
      BY <1>5 DEF LineReceived, AddLog, ev, x
    <2>2. logs' \in Seq(LogLines) /\ Len(logs') <= MaxLogs
      BY <1>1, <1>2, <2>1, PushOne, Caps
    <2>3. handled' \in Seq(TuiEvents)
      BY <1>1, <2>1, HandledTyped
    <2>4. app' \in [tab : 1..4, paused : BOOLEAN, filter : 1..4, logScroll : 0..inputs,
                    oppScroll : 0..inputs, banner : BOOLEAN, mouse : BOOLEAN]
      <3>1. app \in [tab : 1..4, paused : BOOLEAN, filter : 1..4, logScroll : 0..inputs,
                     oppScroll : 0..inputs, banner : BOOLEAN, mouse : BOOLEAN]
            /\ inputs \in Nat
        BY Caps DEF TypeOK
      <3>2. app.logScroll > 0 => app.logScroll - 1 \in 0..inputs
        BY <3>1
      <3> QED
        BY <2>1, <3>1, <3>2
    <2> QED
      BY <1>1, <2>1, <2>2, <2>3, <2>4 DEF TypeOK
  <1> QED
    BY <1>3, <1>4, <1>5 DEF Receives

(* A key moves the tab and the filter among four, and a scroll position by *)
(* at most one.                                                            *)
LEMMA UserTyped ==
  ASSUME TypeOK, User
  PROVE  TypeOK'
  <1> DEFINE App(n) == [tab : 1..4, paused : BOOLEAN, filter : 1..4, logScroll : 0..n,
                        oppScroll : 0..n, banner : BOOLEAN, mouse : BOOLEAN]
  <1>1. app \in App(inputs) /\ inputs \in 0..MaxInputs /\ MaxInputs \in Nat
    BY Caps DEF TypeOK
  <1>2. \A a : Input(a) => /\ app' = a /\ inputs' = inputs + 1 /\ inputs + 1 \in 0..MaxInputs
                           /\ UNCHANGED <<emitVars, tuiQ, ended, records, handled>>
    BY <1>1 DEF Input
  <1>3. ASSUME NEW n \in 0..inputs
        PROVE  n \in 0..(inputs + 1) /\ n + 1 \in 0..(inputs + 1) /\ Minus1(n) \in 0..(inputs + 1)
    BY <1>1 DEF Minus1
  <1>4. \A i \in 1..4 : Next4(i) \in 1..4 /\ Prev4(i) \in 1..4
    BY DEF Next4, Prev4
  <1>5. 0 \in 0..(inputs + 1) /\ DOMAIN Tabs = 1..4
    BY <1>1 DEF Tabs
  <1>6. ASSUME NEW a, Input(a), a \in App(inputs + 1) PROVE TypeOK'
    BY <1>2, <1>6 DEF TypeOK, emitVars, records
  <1>7. app.logScroll \in 0..inputs /\ app.oppScroll \in 0..inputs /\ app.tab \in 1..4
        /\ app.filter \in 1..4 /\ app.paused \in BOOLEAN /\ app.mouse \in BOOLEAN
    BY <1>1
  <1>8. app \in App(inputs + 1)
    BY <1>1, <1>3
  <1>9. CASE TabKey \/ JumpKey
    BY <1>4, <1>5, <1>6, <1>7, <1>8, <1>9 DEF TabKey, JumpKey
  <1>10. CASE PauseKey \/ ClearKey \/ MouseKey \/ TerminalError
    BY <1>6, <1>7, <1>8, <1>10 DEF PauseKey, ClearKey, MouseKey, TerminalError
  <1>11. CASE FilterKey \/ HomeKey
    BY <1>4, <1>5, <1>6, <1>7, <1>8, <1>11 DEF FilterKey, HomeKey
  <1>12. CASE ScrollKey \/ Wheel
    <2>1. /\ [app EXCEPT !.logScroll = @ + 1] \in App(inputs + 1)
          /\ [app EXCEPT !.logScroll = Minus1(@)] \in App(inputs + 1)
          /\ [app EXCEPT !.oppScroll = @ + 1] \in App(inputs + 1)
          /\ [app EXCEPT !.oppScroll = Minus1(@)] \in App(inputs + 1)
      BY <1>3, <1>7, <1>8
    <2> QED
      BY <1>6, <1>12, <2>1 DEF ScrollKey, Wheel
  <1> QED
    BY <1>9, <1>10, <1>11, <1>12 DEF User

LEMMA InitTyped == Init => TypeOK
  <1> SUFFICES ASSUME Init PROVE TypeOK
    OBVIOUS
  <1>1. /\ << >> \in Seq(TuiEvents) /\ << >> \in Seq(1..MaxEmitted) /\ << >> \in Seq(LogLines)
        /\ Len(<< >>) = 0
    OBVIOUS
  <1>2. app \in [tab : 1..4, paused : BOOLEAN, filter : 1..4, logScroll : 0..inputs,
                 oppScroll : 0..inputs, banner : BOOLEAN, mouse : BOOLEAN]
    BY TuiAssumption DEF Init
  <1>3. emitting \in [Tasks -> [id : 1..emitted, line : LogEvents] \cup {Idle}]
    BY DEF Init
  <1>4. inputs = 0 /\ emitted = 0 /\ ended = FALSE /\ oppsFound = 0 /\ bundlesSent = 0
        /\ tuiQ = << >> /\ opps = << >> /\ sparkline = << >> /\ bundles = << >>
        /\ logs = << >> /\ handled = << >>
    BY DEF Init
  <1>5. 0 \in Nat /\ 0 \in 0..MaxEmitted /\ 0 \in 0..MaxInputs
        /\ 0 <= TuiCap /\ 0 <= MaxOpportunities /\ 0 <= MaxSparkline
        /\ 0 <= MaxBundles /\ 0 <= MaxLogs
    BY Caps
  <1> QED
    BY <1>1, <1>2, <1>3, <1>4, <1>5 DEF TypeOK

(* Whatever is logged, received and pressed, no buffer outgrows its cap    *)
(* (src/tui/app.rs:6-13, 153-200).                                         *)
THEOREM TypeCorrect == Spec => []TypeOK
  <1>1. TypeOK /\ [Next]_vars => TypeOK'
    <2> SUFFICES ASSUME TypeOK, [Next]_vars PROVE TypeOK'
      OBVIOUS
    <2>1. CASE Leave
      <3>1. tuiQ' = << >> /\ << >> \in Seq(TuiEvents) /\ Len(<< >>) = 0 /\ ended' = TRUE
            /\ UNCHANGED <<emitVars, records, app, handled, inputs>>
        BY <2>1 DEF Leave
      <3>2. Len(tuiQ') <= TuiCap /\ tuiQ' \in Seq(TuiEvents)
        BY <3>1, Caps
      <3> QED
        BY <3>1, <3>2 DEF TypeOK, emitVars, records
    <2>2. CASE UNCHANGED vars
      BY <2>2 DEF TypeOK, vars, emitVars, records
    <2> QED
      BY <2>1, <2>2, LayerTyped, ReceivesTyped, UserTyped DEF Next, Quiet
  <1> QED
    BY <1>1, InitTyped, PTL DEF Spec

-----------------------------------------------------------------------------
(* The order of a log event's two TuiEvents.  A line still to be sent has  *)
(* not been sent before, and no two tasks send the line of one log event.  *)

NoLine(s, n) == \A i \in DOMAIN s : s[i].id = n => s[i].what # "line"

InOrder(s) ==
  \A i, j \in DOMAIN s : s[i].id = s[j].id /\ s[j].what = "line" => i <= j

Known(s) == \A i \in DOMAIN s : s[i].id \in 1..emitted

Sequenced ==
  /\ Known(handled) /\ Known(tuiQ)
  /\ InOrder(handled) /\ InOrder(tuiQ)
  /\ \A j \in DOMAIN tuiQ : NoLine(handled, tuiQ[j].id)
  /\ \A w \in Tasks : emitting[w] # Idle =>
       NoLine(handled, emitting[w].id) /\ NoLine(tuiQ, emitting[w].id)
  /\ \A v, w \in Tasks : v # w /\ emitting[v] # Idle /\ emitting[w] # Idle
                           => emitting[v].id # emitting[w].id

LEMMA InOrderAppend ==
  ASSUME NEW s \in Seq(TuiEvents), NEW x \in TuiEvents, InOrder(s), NoLine(s, x.id)
  PROVE  InOrder(Append(s, x))
  <1> DEFINE t == Append(s, x)
  <1>1. /\ DOMAIN t = 1..(Len(s) + 1) /\ Len(s) \in Nat /\ DOMAIN s = 1..Len(s)
        /\ t[Len(s) + 1] = x /\ \A i \in 1..Len(s) : t[i] = s[i]
    BY AppendOne
  <1> HIDE DEF t
  <1> SUFFICES ASSUME NEW i \in 1..(Len(s) + 1), NEW j \in 1..(Len(s) + 1),
                      t[i].id = t[j].id, t[j].what = "line"
               PROVE  i <= j
    BY <1>1 DEF InOrder, t
  <1>2. CASE j = Len(s) + 1
    BY <1>1, <1>2
  <1>3. CASE j \in 1..Len(s) /\ i \in 1..Len(s)
    BY <1>1, <1>3 DEF InOrder
  <1>4. CASE j \in 1..Len(s) /\ i = Len(s) + 1
    BY <1>1, <1>4 DEF NoLine
  <1> QED
    BY <1>1, <1>2, <1>3, <1>4

LEMMA InOrderTail ==
  ASSUME NEW s \in Seq(TuiEvents), s # << >>, InOrder(s)
  PROVE  /\ InOrder(Tail(s))
         /\ Head(s).what = "line" => \A j \in DOMAIN Tail(s) : Tail(s)[j].id # Head(s).id
         /\ \A n : NoLine(s, n) => NoLine(Tail(s), n)
         /\ \A j \in DOMAIN Tail(s) : \E i \in DOMAIN s : Tail(s)[j] = s[i]
  <1> DEFINE t == Tail(s)
  <1>1. /\ DOMAIN t = 1..(Len(s) - 1) /\ Len(s) \in Nat \ {0} /\ DOMAIN s = 1..Len(s)
        /\ Head(s) = s[1] /\ \A i \in 1..(Len(s) - 1) : t[i] = s[i + 1]
    BY TailOne
  <1> HIDE DEF t
  <1>2. \A i \in DOMAIN t : i \in Nat /\ i + 1 \in DOMAIN s /\ t[i] = s[i + 1]
    BY <1>1
  <1>3. InOrder(t)
    <2> SUFFICES ASSUME NEW i \in DOMAIN t, NEW j \in DOMAIN t,
                        t[i].id = t[j].id, t[j].what = "line"
                 PROVE  i <= j
      BY DEF InOrder
    <2>1. i + 1 <= j + 1
      BY <1>2 DEF InOrder
    <2> QED
      BY <1>2, <2>1
  <1>4. ASSUME Head(s).what = "line", NEW j \in DOMAIN t PROVE t[j].id # Head(s).id
    <2>1. 1 \in DOMAIN s /\ j + 1 \in DOMAIN s /\ ~(j + 1 <= 1)
      BY <1>1, <1>2
    <2>2. s[j + 1].id # s[1].id
      BY <1>1, <1>4, <2>1 DEF InOrder
    <2> QED
      BY <1>1, <1>2, <2>2
  <1>5. \A n : NoLine(s, n) => NoLine(t, n)
    BY <1>2 DEF NoLine
  <1>6. \A j \in DOMAIN t : \E i \in DOMAIN s : t[j] = s[i]
    BY <1>2
  <1> QED
    BY <1>3, <1>4, <1>5, <1>6 DEF t

LEMMA NoLineAppend ==
  ASSUME NEW s \in Seq(TuiEvents), NEW x \in TuiEvents, NEW n
  PROVE  NoLine(Append(s, x), n) <=> NoLine(s, n) /\ (x.id = n => x.what # "line")
  <1>1. /\ DOMAIN Append(s, x) = 1..(Len(s) + 1) /\ Len(s) \in Nat /\ DOMAIN s = 1..Len(s)
        /\ Append(s, x)[Len(s) + 1] = x /\ \A i \in 1..Len(s) : Append(s, x)[i] = s[i]
    BY AppendOne
  <1> QED
    BY <1>1 DEF NoLine

(* A TuiEvent put on the channel by the task that logs.                    *)
LEMMA SentInOrder ==
  ASSUME TypeOK, Sequenced, NEW ev \in TuiEvents, TrySend(ev), ev.id \in 1..emitted',
         emitted' \in Nat, emitted <= emitted', NoLine(tuiQ, ev.id), NoLine(handled, ev.id)
  PROVE  /\ InOrder(tuiQ')
         /\ \A j \in DOMAIN tuiQ' : tuiQ'[j].id \in 1..emitted' /\ NoLine(handled, tuiQ'[j].id)
         /\ \A n : NoLine(tuiQ, n) /\ (ev.id = n => ev.what # "line") => NoLine(tuiQ', n)
  <1>1. tuiQ \in Seq(TuiEvents) /\ emitted \in Nat
    BY DEF TypeOK
  <1>2. CASE tuiQ' = tuiQ
    BY <1>1, <1>2 DEF Sequenced, Known
  <1>3. CASE tuiQ' = Append(tuiQ, ev)
    <2>1. InOrder(tuiQ')
      BY <1>1, <1>3, InOrderAppend DEF Sequenced
    <2>2. \A n : NoLine(tuiQ, n) /\ (ev.id = n => ev.what # "line") => NoLine(tuiQ', n)
      BY <1>1, <1>3, NoLineAppend
    <2>3. \A j \in DOMAIN tuiQ' : tuiQ'[j] = ev \/ \E i \in DOMAIN tuiQ : tuiQ'[j] = tuiQ[i]
      BY <1>1, <1>3, AppendOne
    <2>4. \A i \in DOMAIN tuiQ : tuiQ[i].id \in 1..emitted' /\ NoLine(handled, tuiQ[i].id)
      BY <1>1 DEF Sequenced, Known
    <2> QED
      BY <2>1, <2>2, <2>3, <2>4
  <1> QED
    BY <1>2, <1>3 DEF TrySend

LEMMA LayerInOrder ==
  ASSUME TypeOK, Sequenced, Layer
  PROVE  Sequenced'
  <1>1. PICK w \in Tasks : ForwardLine(w) \/ \E l \in Lines[w] : OnEvent(w, l)
    BY DEF Layer
  <1>2. handled' = handled
    BY <1>1 DEF ForwardLine, OnEvent
  <1>3. /\ emitted \in 0..MaxEmitted /\ MaxEmitted \in Nat
        /\ emitting \in [Tasks -> [id : 1..emitted, line : LogEvents] \cup {Idle}]
    BY Caps DEF TypeOK
  <1>4. CASE ForwardLine(w)
    <2> DEFINE ev == Line(emitting[w])
    <2>1. emitting[w] \in [id : 1..emitted, line : LogEvents] /\ emitting[w] # Idle
      BY <1>3, <1>4 DEF ForwardLine
    <2>2. ev \in TuiEvents /\ ev.id = emitting[w].id /\ ev.id \in 1..emitted /\ ev.what = "line"
      BY <1>3, <2>1 DEF Line, TuiEvents
    <2>3. /\ TrySend(ev) /\ emitted' = emitted
          /\ emitting' = [emitting EXCEPT ![w] = Idle]
      BY <1>4 DEF ForwardLine
    <2> HIDE DEF ev
    <2>4. NoLine(tuiQ, ev.id) /\ NoLine(handled, ev.id)
      BY <2>1, <2>2 DEF Sequenced
    <2>5. /\ InOrder(tuiQ')
          /\ \A j \in DOMAIN tuiQ' : tuiQ'[j].id \in 1..emitted' /\ NoLine(handled, tuiQ'[j].id)
          /\ \A n : NoLine(tuiQ, n) /\ (ev.id = n => ev.what # "line") => NoLine(tuiQ', n)
      BY <1>3, <2>2, <2>3, <2>4, SentInOrder
    <2>6. \A v \in Tasks : emitting'[v] # Idle => v # w /\ emitting'[v] = emitting[v]
      BY <1>3, <2>3
    <2>7. \A v \in Tasks : emitting'[v] # Idle =>
            /\ NoLine(handled, emitting[v].id) /\ NoLine(tuiQ, emitting[v].id)
            /\ emitting[v].id # ev.id
      BY <2>1, <2>2, <2>6 DEF Sequenced
    <2>8. \A v \in Tasks : emitting'[v] # Idle =>
            NoLine(handled', emitting'[v].id) /\ NoLine(tuiQ', emitting'[v].id)
      BY <1>2, <2>5, <2>6, <2>7
    <2>9. \A u, v \in Tasks : u # v /\ emitting'[u] # Idle /\ emitting'[v] # Idle
                                => emitting'[u].id # emitting'[v].id
      BY <2>6 DEF Sequenced
    <2>10. Known(handled)' /\ InOrder(handled)' /\ Known(tuiQ)' /\ InOrder(tuiQ)'
           /\ \A j \in DOMAIN tuiQ' : NoLine(handled', tuiQ'[j].id)
      BY <1>2, <2>3, <2>5 DEF Sequenced, Known, InOrder
    <2> QED
      BY <2>8, <2>9, <2>10 DEF Sequenced, NoLine
  <1>5. ASSUME NEW l \in Lines[w], OnEvent(w, l) PROVE Sequenced'
    <2> DEFINE e == [id |-> emitted + 1, line |-> l]
    <2>1. l \in LogEvents /\ emitted' = emitted + 1 /\ emitted + 1 \in 1..MaxEmitted
      BY <1>3, <1>5, TuiAssumption DEF OnEvent
    <2>2. PICK ev \in {Line(e), Record(e)} :
            /\ TrySend(ev)
            /\ \/ (ev = Line(e) /\ emitting' = emitting)
               \/ (ev.what # "line" /\ emitting' = [emitting EXCEPT ![w] = e])
      <3>1. CASE l.kind = "other"
        BY <1>5, <3>1 DEF OnEvent
      <3>2. CASE l.kind # "other"
        <4>1. TrySend(Record(e)) /\ emitting' = [emitting EXCEPT ![w] = e]
          BY <1>5, <3>2 DEF OnEvent
        <4>2. Record(e).what # "line"
          BY <2>1 DEF Record, LogEvents, Kinds
        <4> QED
          BY <4>1, <4>2
      <3> QED
        BY <3>1, <3>2
    <2>3. ev \in TuiEvents /\ ev.id = emitted + 1
      <3>1. Record(e) \in TuiEvents /\ Line(e) \in TuiEvents
        BY <2>1, EventKinds
      <3>2. Record(e).id = emitted + 1 /\ Line(e).id = emitted + 1
        BY DEF Record, Line
      <3> QED
        BY <2>2, <3>1, <3>2
    <2>4. e.id = emitted + 1
      OBVIOUS
    <2> HIDE DEF e
    <2>5. NoLine(tuiQ, emitted + 1) /\ NoLine(handled, emitted + 1)
      BY <1>3 DEF Sequenced, Known, NoLine
    <2>6. /\ InOrder(tuiQ')
          /\ \A j \in DOMAIN tuiQ' : tuiQ'[j].id \in 1..emitted' /\ NoLine(handled, tuiQ'[j].id)
          /\ \A n : NoLine(tuiQ, n) /\ (ev.id = n => ev.what # "line") => NoLine(tuiQ', n)
      BY <1>3, <2>1, <2>2, <2>3, <2>5, SentInOrder
    <2>7. \A v \in Tasks : emitting'[v] # Idle =>
            \/ emitting'[v] = emitting[v] /\ emitting[v] # Idle
            \/ v = w /\ emitting'[v] = e /\ ev.what # "line"
      BY <1>3, <2>2
    <2>8. \A v \in Tasks : emitting[v] # Idle => emitting[v].id \in 1..emitted
      BY <1>3
    <2>9. ASSUME NEW v \in Tasks, emitting'[v] # Idle
          PROVE  NoLine(handled, emitting'[v].id) /\ NoLine(tuiQ', emitting'[v].id)
      <3>1. CASE emitting'[v] = emitting[v] /\ emitting[v] # Idle
        <4>1. NoLine(handled, emitting[v].id) /\ NoLine(tuiQ, emitting[v].id)
          BY <3>1 DEF Sequenced
        <4>2. ev.id # emitting[v].id
          BY <1>3, <2>3, <2>8, <3>1
        <4> QED
          BY <2>6, <3>1, <4>1, <4>2
      <3>2. CASE emitting'[v] = e /\ ev.what # "line"
        BY <2>4, <2>5, <2>6, <3>2
      <3> QED
        BY <2>7, <2>9, <3>1, <3>2
    <2>10. ASSUME NEW u \in Tasks, NEW v \in Tasks, u # v,
                  emitting'[u] # Idle, emitting'[v] # Idle
           PROVE  emitting'[u].id # emitting'[v].id
      <3>1. CASE emitting'[u] = emitting[u] /\ emitting[u] # Idle
                 /\ emitting'[v] = emitting[v] /\ emitting[v] # Idle
        BY <2>10, <3>1 DEF Sequenced
      <3>2. emitted + 1 \notin 1..emitted
        BY <1>3
      <3>3. CASE u = w /\ emitting'[u] = e
        <4>1. emitting'[v] = emitting[v] /\ emitting[v] # Idle
          BY <2>7, <2>10, <3>3
        <4>2. emitting'[v].id \in 1..emitted
          BY <2>8, <4>1
        <4> QED
          BY <2>4, <3>2, <3>3, <4>2
      <3>4. CASE v = w /\ emitting'[v] = e
        <4>1. emitting'[u] = emitting[u] /\ emitting[u] # Idle
          BY <2>7, <2>10, <3>4
        <4>2. emitting'[u].id \in 1..emitted
          BY <2>8, <4>1
        <4> QED
          BY <2>4, <3>2, <3>4, <4>2
      <3> QED
        BY <2>7, <2>10, <3>1, <3>3, <3>4
    <2>11. Known(handled)' /\ InOrder(handled)' /\ Known(tuiQ)' /\ InOrder(tuiQ)'
           /\ \A j \in DOMAIN tuiQ' : NoLine(handled', tuiQ'[j].id)
      <3>1. 1..emitted \subseteq 1..emitted'
        BY <1>3, <2>1
      <3> QED
        BY <1>2, <2>6, <3>1 DEF Sequenced, Known, InOrder
    <2>12. /\ \A v \in Tasks : emitting'[v] # Idle =>
                 NoLine(handled', emitting'[v].id) /\ NoLine(tuiQ', emitting'[v].id)
           /\ \A u, v \in Tasks : u # v /\ emitting'[u] # Idle /\ emitting'[v] # Idle
                                    => emitting'[u].id # emitting'[v].id
      BY <1>2, <2>9, <2>10
    <2> QED
      BY <2>11, <2>12 DEF Sequenced, NoLine
  <1> QED
    BY <1>1, <1>4, <1>5

LEMMA ReceivesInOrder ==
  ASSUME TypeOK, Sequenced, Receives
  PROVE  Sequenced'
  <1> DEFINE ev == Head(tuiQ)
  <1>1. /\ ev \in TuiEvents /\ tuiQ \in Seq(TuiEvents) /\ tuiQ # << >> /\ tuiQ' = Tail(tuiQ)
        /\ UNCHANGED <<emitted, emitting>>
        /\ handled \in Seq(TuiEvents)
    BY ReceivedTyped DEF Receives, OpportunityReceived, BundleReceived, LineReceived, TypeOK
  <1>2. handled' = handled \/ handled' = Append(handled, ev)
    BY DEF Receives, OpportunityReceived, BundleReceived, LineReceived, AddOpportunity,
           AddBundle, AddLog
  <1>3. 1 \in DOMAIN tuiQ /\ ev = tuiQ[1]
    BY <1>1, TailOne
  <1> HIDE DEF ev
  <1>4. /\ InOrder(tuiQ')
        /\ ev.what = "line" => \A j \in DOMAIN tuiQ' : tuiQ'[j].id # ev.id
        /\ \A n : NoLine(tuiQ, n) => NoLine(tuiQ', n)
        /\ \A j \in DOMAIN tuiQ' : \E i \in DOMAIN tuiQ : tuiQ'[j] = tuiQ[i]
    BY <1>1, InOrderTail DEF Sequenced, ev
  <1>5. /\ NoLine(handled, ev.id) /\ ev.id \in 1..emitted
        /\ \A w \in Tasks : emitting[w] # Idle =>
             (ev.id = emitting[w].id => ev.what # "line")
    BY <1>3 DEF Sequenced, Known, NoLine
  <1>6. /\ InOrder(handled')
        /\ \A n : NoLine(handled, n) /\ (ev.id = n => ev.what # "line") => NoLine(handled', n)
        /\ \A i \in DOMAIN handled' : handled'[i].id \in 1..emitted
    <2>1. CASE handled' = handled
      BY <2>1 DEF Sequenced, Known
    <2>2. CASE handled' = Append(handled, ev)
      <3>1. InOrder(handled')
        BY <1>1, <1>5, <2>2, InOrderAppend DEF Sequenced
      <3>2. \A n : NoLine(handled, n) /\ (ev.id = n => ev.what # "line") => NoLine(handled', n)
        BY <1>1, <2>2, NoLineAppend
      <3>3. \A i \in DOMAIN handled' :
              handled'[i] = ev \/ \E k \in DOMAIN handled : handled'[i] = handled[k]
        BY <1>1, <2>2, AppendOne
      <3> QED
        BY <1>5, <3>1, <3>2, <3>3 DEF Sequenced, Known
    <2> QED
      BY <1>2, <2>1, <2>2
  <1>7. ASSUME NEW j \in DOMAIN tuiQ' PROVE NoLine(handled', tuiQ'[j].id)
    <2>1. NoLine(handled, tuiQ'[j].id)
      BY <1>4 DEF Sequenced
    <2> QED
      BY <1>4, <1>6, <2>1
  <1>8. \A w \in Tasks : emitting[w] # Idle =>
          NoLine(handled', emitting[w].id) /\ NoLine(tuiQ', emitting[w].id)
    BY <1>4, <1>5, <1>6 DEF Sequenced
  <1>9. \A j \in DOMAIN tuiQ' : tuiQ'[j].id \in 1..emitted
    BY <1>4 DEF Sequenced, Known
  <1>10. \A v, w \in Tasks : v # w /\ emitting[v] # Idle /\ emitting[w] # Idle
                               => emitting[v].id # emitting[w].id
    BY DEF Sequenced
  <1> QED
    BY <1>1, <1>4, <1>6, <1>7, <1>8, <1>9, <1>10 DEF Sequenced, Known, InOrder, NoLine

LEMMA OthersInOrder ==
  ASSUME TypeOK, Sequenced, User \/ Leave \/ UNCHANGED vars
  PROVE  Sequenced'
  <1>1. UNCHANGED <<emitted, emitting, handled>> /\ (tuiQ' = tuiQ \/ tuiQ' = << >>)
    BY DEF User, Leave, vars, emitVars, TabKey, JumpKey, PauseKey, ClearKey, MouseKey,
           FilterKey, ScrollKey, Wheel, HomeKey, TerminalError, Input
  <1>2. DOMAIN << >> = {}
    OBVIOUS
  <1> QED
    BY <1>1, <1>2 DEF Sequenced, Known, InOrder, NoLine

LEMMA StaysInOrder ==
  ASSUME TypeOK, Sequenced, [Next]_vars
  PROVE  Sequenced'
  BY LayerInOrder, ReceivesInOrder, OthersInOrder DEF Next, Quiet

LEMMA InitInOrder == Init => Sequenced
  <1>1. DOMAIN << >> = {}
    OBVIOUS
  <1> QED
    BY <1>1 DEF Init, Sequenced, Known, InOrder, NoLine

LEMMA AlwaysInOrder == Spec => []Sequenced
  BY InitInOrder, StaysInOrder, TypeCorrect, PTL DEF Spec

(* Whatever is lost in a full channel, and whoever comes in between, the   *)
(* line of an opportunity or a bundle never overtakes its event            *)
(* (src/tui_logger.rs:103-125).                                            *)
THEOREM LinesFollow == Spec => []LineAfterRecord
  <1>1. TypeOK /\ Sequenced => LineAfterRecord
    <2> SUFFICES ASSUME TypeOK, Sequenced,
                        NEW i \in DOMAIN Arrivals, NEW j \in DOMAIN Arrivals,
                        Arrivals[i].id = Arrivals[j].id, Arrivals[j].what = "line"
                 PROVE  i <= j
      BY DEF LineAfterRecord
    <2> DEFINE m == Len(handled)
    <2>1. /\ handled \in Seq(TuiEvents) /\ tuiQ \in Seq(TuiEvents)
          /\ DOMAIN handled = 1..m /\ DOMAIN tuiQ = 1..Len(tuiQ)
          /\ m \in Nat /\ Len(tuiQ) \in Nat
      BY DEF TypeOK
    <2>2. /\ DOMAIN Arrivals = 1..(m + Len(tuiQ))
          /\ \A k \in 1..m : Arrivals[k] = handled[k]
          /\ \A k \in 1..Len(tuiQ) : Arrivals[m + k] = tuiQ[k]
      BY <2>1 DEF Arrivals
    <2> HIDE DEF m
    <2>3. CASE i \in 1..m
      <3>1. CASE j \in 1..m
        BY <2>1, <2>2, <2>3, <3>1 DEF Sequenced, InOrder
      <3> QED
        BY <2>1, <2>2, <2>3, <3>1
    <2>4. CASE i \notin 1..m
      <3>1. i - m \in 1..Len(tuiQ) /\ m + (i - m) = i
        BY <2>1, <2>2, <2>4
      <3>2. CASE j \in 1..m
        <4>1. NoLine(handled, tuiQ[i - m].id)
          BY <2>1, <3>1 DEF Sequenced
        <4> QED
          BY <2>1, <2>2, <3>1, <3>2, <4>1 DEF NoLine
      <3>3. CASE j \notin 1..m
        <4>1. j - m \in 1..Len(tuiQ) /\ m + (j - m) = j
          BY <2>1, <2>2, <3>3
        <4>2. tuiQ[i - m].id = tuiQ[j - m].id /\ tuiQ[j - m].what = "line"
          BY <2>2, <3>1, <4>1
        <4>3. i - m <= j - m
          BY <2>1, <3>1, <4>1, <4>2 DEF Sequenced, InOrder
        <4> QED
          BY <2>1, <2>2, <4>3
      <3> QED
        BY <3>2, <3>3
    <2> QED
      BY <2>3, <2>4
  <1> QED
    BY <1>1, AlwaysInOrder, TypeCorrect, PTL

-----------------------------------------------------------------------------
(* What the counters and the buffers say of the events handled.            *)

LEMMA IdsTyped ==
  ASSUME NEW T, NEW s \in Seq(T), \A y \in T : y.id \in 1..MaxEmitted
  PROVE  /\ Ids(s) \in Seq(1..MaxEmitted) /\ Len(Ids(s)) = Len(s)
         /\ \A i \in 1..Len(s) : Ids(s)[i] = s[i].id
  <1>1. DOMAIN s = 1..Len(s) /\ Len(s) \in Nat /\ \A i \in 1..Len(s) : s[i] \in T
    OBVIOUS
  <1>2. Ids(s) = [i \in 1..Len(s) |-> s[i].id]
    BY <1>1 DEF Ids
  <1> QED
    BY <1>1, <1>2

LEMMA IdsAppend ==
  ASSUME NEW T, NEW s \in Seq(T), NEW x \in T, \A y \in T : y.id \in 1..MaxEmitted
  PROVE  Ids(Append(s, x)) = Append(Ids(s), x.id)
  <1> DEFINE t == Append(s, x)
  <1>1. /\ t \in Seq(T) /\ Len(s) \in Nat /\ Len(t) = Len(s) + 1
        /\ t[Len(s) + 1] = x /\ \A i \in 1..Len(s) : t[i] = s[i]
    BY AppendOne
  <1> HIDE DEF t
  <1>2. /\ Ids(t) \in Seq(1..MaxEmitted) /\ Len(Ids(t)) = Len(t)
        /\ \A i \in 1..Len(t) : Ids(t)[i] = t[i].id
    BY <1>1, IdsTyped
  <1>3. /\ Ids(s) \in Seq(1..MaxEmitted) /\ Len(Ids(s)) = Len(s)
        /\ \A i \in 1..Len(s) : Ids(s)[i] = s[i].id
    BY IdsTyped
  <1>4. /\ Append(Ids(s), x.id) \in Seq(1..MaxEmitted)
        /\ Len(Append(Ids(s), x.id)) = Len(s) + 1
        /\ Append(Ids(s), x.id)[Len(s) + 1] = x.id
        /\ \A i \in 1..Len(s) : Append(Ids(s), x.id)[i] = Ids(s)[i]
    BY <1>3, AppendOne
  <1>5. \A i \in 1..(Len(s) + 1) : Ids(t)[i] = Append(Ids(s), x.id)[i]
    BY <1>1, <1>2, <1>3, <1>4
  <1> QED
    BY <1>1, <1>2, <1>4, <1>5, SeqEqual DEF t

LEMMA IdsTail ==
  ASSUME NEW T, NEW s \in Seq(T), s # << >>, \A y \in T : y.id \in 1..MaxEmitted
  PROVE  Ids(Tail(s)) = Tail(Ids(s))
  <1> DEFINE t == Tail(s)
  <1>1. /\ t \in Seq(T) /\ Len(s) \in Nat \ {0} /\ Len(t) = Len(s) - 1
        /\ \A i \in 1..(Len(s) - 1) : t[i] = s[i + 1]
    BY TailOne
  <1> HIDE DEF t
  <1>2. /\ Ids(t) \in Seq(1..MaxEmitted) /\ Len(Ids(t)) = Len(t)
        /\ \A i \in 1..Len(t) : Ids(t)[i] = t[i].id
    BY <1>1, IdsTyped
  <1>3. /\ Ids(s) \in Seq(1..MaxEmitted) /\ Len(Ids(s)) = Len(s)
        /\ \A i \in 1..Len(s) : Ids(s)[i] = s[i].id
    BY IdsTyped
  <1>4. /\ Tail(Ids(s)) \in Seq(1..MaxEmitted) /\ Len(Tail(Ids(s))) = Len(s) - 1
        /\ \A i \in 1..(Len(s) - 1) : Tail(Ids(s))[i] = Ids(s)[i + 1]
    BY <1>1, <1>3, TailOne
  <1>5. \A i \in 1..(Len(s) - 1) : i + 1 \in 1..Len(s)
    BY <1>1
  <1>6. \A i \in 1..(Len(s) - 1) : Ids(t)[i] = Tail(Ids(s))[i]
    BY <1>1, <1>2, <1>3, <1>4, <1>5
  <1> QED
    BY <1>1, <1>2, <1>4, <1>6, SeqEqual DEF t

LEMMA IdsPush ==
  ASSUME NEW T, NEW s \in Seq(T), NEW x \in T, NEW cap \in Nat \ {0},
         \A y \in T : y.id \in 1..MaxEmitted
  PROVE  Ids(Push(s, cap, x)) = Push(Ids(s), cap, x.id)
  <1>1. Len(Ids(s)) = Len(s) /\ Len(s) \in Nat
    BY IdsTyped
  <1>2. CASE Len(s) >= cap
    <2>1. Push(s, cap, x) = Append(Tail(s), x) /\ Push(Ids(s), cap, x.id) = Append(Tail(Ids(s)), x.id)
      BY <1>1, <1>2 DEF Push
    <2>2. s # << >>
      BY <1>1, <1>2
    <2>3. Tail(s) \in Seq(T) /\ Ids(Tail(s)) = Tail(Ids(s))
      BY <2>2, TailOne, IdsTail
    <2>4. Ids(Append(Tail(s), x)) = Append(Ids(Tail(s)), x.id)
      BY <2>3, IdsAppend
    <2> QED
      BY <2>1, <2>3, <2>4
  <1>3. CASE ~(Len(s) >= cap)
    <2>1. Push(s, cap, x) = Append(s, x) /\ Push(Ids(s), cap, x.id) = Append(Ids(s), x.id)
      BY <1>1, <1>3 DEF Push
    <2> QED
      BY <2>1, IdsAppend
  <1> QED
    BY <1>2, <1>3

LEMMA EventIds ==
  /\ \A y \in TuiEvents : y.id \in 1..MaxEmitted
  /\ \A y \in LogLines : y.id \in 1..MaxEmitted
  /\ \A y \in TuiEvents : \A what : y \in Are(what) <=> y.what = what
  BY DEF TuiEvents, LogLines, Are

LEMMA OfTyped ==
  ASSUME handled \in Seq(TuiEvents), NEW what
  PROVE  Of(what) \in Seq(1..MaxEmitted) /\ Len(Of(what)) \in Nat
  <1>1. Select(handled, Are(what)) \in Seq(TuiEvents)
    BY SelectTyped
  <1>2. Of(what) \in Seq(1..MaxEmitted)
    BY <1>1, EventIds, IdsTyped DEF Of
  <1> QED
    BY <1>2

(* A handled event is the last of its kind.                                *)
LEMMA OfAppend ==
  ASSUME handled \in Seq(TuiEvents), NEW ev \in TuiEvents,
         handled' = Append(handled, ev), NEW what
  PROVE  Of(what)' = IF ev.what = what THEN Append(Of(what), ev.id) ELSE Of(what)
  <1> DEFINE S == Select(handled, Are(what))
  <1>1. S \in Seq(TuiEvents)
    BY SelectTyped
  <1>2. Select(Append(handled, ev), Are(what))
          = IF ev \in Are(what) THEN Append(S, ev) ELSE S
    BY SelectAppend
  <1>3. Of(what) = Ids(S) /\ Of(what)' = Ids(Select(Append(handled, ev), Are(what)))
    BY DEF Of, Are
  <1> HIDE DEF S
  <1>4. Ids(Append(S, ev)) = Append(Ids(S), ev.id)
    BY <1>1, EventIds, IdsAppend
  <1> QED
    BY <1>2, <1>3, <1>4, EventIds

LEMMA OfKept == ASSUME handled' = handled, NEW what PROVE Of(what)' = Of(what)
  BY DEF Of, Are

(* A counter and a buffer after one more event of their kind.              *)
LEMMA OneMore ==
  ASSUME handled \in Seq(TuiEvents), NEW ev \in TuiEvents, NEW what, ev.what = what,
         handled' = Append(handled, ev), NEW cap \in Nat \ {0}
  PROVE  /\ Len(Of(what)') = Len(Of(what)) + 1
         /\ LastOf(Of(what)', cap) = Push(LastOf(Of(what), cap), cap, ev.id)
  <1> DEFINE O == Of(what)
  <1>1. O \in Seq(1..MaxEmitted) /\ ev.id \in 1..MaxEmitted
    BY OfTyped, EventIds
  <1>2. O' = Append(O, ev.id)
    BY OfAppend
  <1> HIDE DEF O
  <1>3. Len(Append(O, ev.id)) = Len(O) + 1
    BY <1>1
  <1>4. LastOf(Append(O, ev.id), cap) = Push(LastOf(O, cap), cap, ev.id)
    BY <1>1, LastOfAppend
  <1> QED
    BY <1>2, <1>3, <1>4 DEF O

LEMMA ReceivesAgree ==
  ASSUME TypeOK, RecordsAgree, Receives
  PROVE  RecordsAgree'
  <1> DEFINE ev == Head(tuiQ)
             x == [id |-> ev.id, matches |-> ev.line.matches]
  <1>1. ev \in TuiEvents /\ x \in LogLines /\ x.id = ev.id
    BY ReceivedTyped DEF Receives, OpportunityReceived, BundleReceived, LineReceived
  <1>2. handled \in Seq(TuiEvents) /\ logs \in Seq(LogLines) /\ Len(logs) <= MaxLogs
    BY DEF TypeOK
  <1>3. "opportunity" # "bundle" /\ "opportunity" # "line" /\ "bundle" # "line"
    OBVIOUS
  <1> HIDE DEF ev, x
  <1>4. ASSUME NEW what, ev.what # what, handled' = Append(handled, ev)
        PROVE  Of(what)' = Of(what)
    BY <1>1, <1>2, <1>4, OfAppend
  <1>5. CASE OpportunityReceived
    <2>1. AddOpportunity(ev) /\ ev.what = "opportunity"
          /\ UNCHANGED <<bundlesSent, bundles, logs>>
      BY <1>5 DEF OpportunityReceived, Received, ev
    <2>2. CASE app.paused
      <3>1. UNCHANGED <<oppsFound, opps, sparkline, handled>>
        BY <2>1, <2>2 DEF AddOpportunity
      <3>2. \A what : Of(what)' = Of(what)
        BY <3>1, OfKept
      <3> QED
        BY <2>1, <3>1, <3>2 DEF RecordsAgree, LastOf, Ids
    <2>3. CASE ~app.paused
      <3>1. /\ oppsFound' = oppsFound + 1 /\ handled' = Append(handled, ev)
            /\ sparkline' = Push(sparkline, MaxSparkline, ev.id)
            /\ opps' = Push(opps, MaxOpportunities, ev.id)
        BY <2>1, <2>3 DEF AddOpportunity
      <3>2. /\ Len(Of("opportunity")') = Len(Of("opportunity")) + 1
            /\ \A cap \in Nat \ {0} : LastOf(Of("opportunity")', cap)
                 = Push(LastOf(Of("opportunity"), cap), cap, ev.id)
        BY <1>1, <1>2, <2>1, <3>1, OneMore, Caps
      <3>3. Of("bundle")' = Of("bundle") /\ Of("line")' = Of("line")
        BY <1>3, <1>4, <2>1, <3>1
      <3>4. oppsFound' = Len(Of("opportunity")')
        BY <3>1, <3>2 DEF RecordsAgree
      <3>5. opps' = LastOf(Of("opportunity")', MaxOpportunities)
        BY <3>1, <3>2, Caps DEF RecordsAgree
      <3>6. sparkline' = LastOf(Of("opportunity")', MaxSparkline)
        BY <3>1, <3>2, Caps DEF RecordsAgree
      <3>7. bundlesSent' = Len(Of("bundle")') /\ bundles' = LastOf(Of("bundle")', MaxBundles)
            /\ Ids(logs)' = LastOf(Of("line")', MaxLogs)
        BY <2>1, <3>3 DEF RecordsAgree, Ids
      <3> QED
        BY <3>4, <3>5, <3>6, <3>7 DEF RecordsAgree, LastOf
    <2> QED
      BY <2>2, <2>3
  <1>6. CASE BundleReceived
    <2>1. /\ bundlesSent' = bundlesSent + 1 /\ handled' = Append(handled, ev)
          /\ bundles' = Push(bundles, MaxBundles, ev.id) /\ ev.what = "bundle"
          /\ UNCHANGED <<oppsFound, opps, sparkline, logs>>
      BY <1>6 DEF BundleReceived, AddBundle, Received, ev
    <2>2. /\ Len(Of("bundle")') = Len(Of("bundle")) + 1
          /\ LastOf(Of("bundle")', MaxBundles)
               = Push(LastOf(Of("bundle"), MaxBundles), MaxBundles, ev.id)
      BY <1>1, <1>2, <2>1, OneMore, Caps
    <2>3. Of("opportunity")' = Of("opportunity") /\ Of("line")' = Of("line")
      BY <1>3, <1>4, <2>1
    <2>4. bundlesSent' = Len(Of("bundle")') /\ bundles' = LastOf(Of("bundle")', MaxBundles)
      BY <2>1, <2>2 DEF RecordsAgree
    <2>5. /\ oppsFound' = Len(Of("opportunity")')
          /\ opps' = LastOf(Of("opportunity")', MaxOpportunities)
          /\ sparkline' = LastOf(Of("opportunity")', MaxSparkline)
          /\ Ids(logs)' = LastOf(Of("line")', MaxLogs)
      BY <2>1, <2>3 DEF RecordsAgree, Ids
    <2> QED
      BY <2>4, <2>5 DEF RecordsAgree, LastOf
  <1>7. CASE LineReceived
    <2>1. /\ logs' = Push(logs, MaxLogs, x) /\ handled' = Append(handled, ev)
          /\ ev.what = "line"
          /\ UNCHANGED <<oppsFound, opps, sparkline, bundlesSent, bundles>>
      BY <1>7 DEF LineReceived, AddLog, Received, ev, x
    <2>2. LastOf(Of("line")', MaxLogs) = Push(LastOf(Of("line"), MaxLogs), MaxLogs, ev.id)
      BY <1>1, <1>2, <2>1, OneMore, Caps
    <2>3. Of("opportunity")' = Of("opportunity") /\ Of("bundle")' = Of("bundle")
      BY <1>3, <1>4, <2>1
    <2>4. Ids(Push(logs, MaxLogs, x)) = Push(Ids(logs), MaxLogs, x.id)
      BY <1>1, <1>2, EventIds, Caps, IdsPush
    <2>5. Ids(logs)' = Ids(Push(logs, MaxLogs, x))
      BY <2>1 DEF Ids
    <2>6. Ids(logs)' = LastOf(Of("line")', MaxLogs)
      BY <1>1, <2>2, <2>4, <2>5 DEF RecordsAgree
    <2>7. /\ oppsFound' = Len(Of("opportunity")')
          /\ opps' = LastOf(Of("opportunity")', MaxOpportunities)
          /\ sparkline' = LastOf(Of("opportunity")', MaxSparkline)
          /\ bundlesSent' = Len(Of("bundle")') /\ bundles' = LastOf(Of("bundle")', MaxBundles)
      BY <2>1, <2>3 DEF RecordsAgree
    <2> QED
      BY <2>6, <2>7 DEF RecordsAgree, LastOf
  <1> QED
    BY <1>5, <1>6, <1>7 DEF Receives

(* Whatever is lost, paused or evicted, the counters count what was taken  *)
(* in, and each table, the chart and the log hold the newest part of it,   *)
(* in order (src/tui/app.rs:145-197).                                      *)
THEOREM RecordsTrue == Spec => []RecordsAgree
  <1>1. Init => RecordsAgree
    <2> SUFFICES ASSUME Init PROVE RecordsAgree
      OBVIOUS
    <2>1. \A what : Of(what) = Ids(<< >>)
      BY SelectEmpty DEF Of, Init
    <2>2. << >> \in Seq(TuiEvents)
      OBVIOUS
    <2>3. Ids(<< >>) \in Seq(1..MaxEmitted) /\ Len(Ids(<< >>)) = 0
      BY <2>2, EventIds, IdsTyped
    <2>4. Ids(<< >>) = << >>
      BY <2>3
    <2>5. ASSUME NEW cap \in Nat PROVE LastOf(<< >>, cap) = << >>
      <3>1. << >> \in Seq(Nat) /\ Len(<< >>) = 0
        OBVIOUS
      <3>2. LastOf(<< >>, cap) \in Seq(Nat) /\ Len(LastOf(<< >>, cap)) = Least(cap, 0)
        BY <3>1, LastOfOne
      <3> QED
        BY <3>2 DEF Least
    <2>6. MaxOpportunities \in Nat /\ MaxSparkline \in Nat /\ MaxBundles \in Nat /\ MaxLogs \in Nat
      BY Caps
    <2> QED
      BY <2>1, <2>3, <2>4, <2>5, <2>6 DEF RecordsAgree, Init
  <1>2. TypeOK /\ RecordsAgree /\ [Next]_vars => RecordsAgree'
    <2> SUFFICES ASSUME TypeOK, RecordsAgree, [Next]_vars PROVE RecordsAgree'
      OBVIOUS
    <2>1. CASE Receives
      BY <2>1, ReceivesAgree
    <2>2. CASE UNCHANGED <<records, handled>>
      <3>1. \A what : Of(what)' = Of(what)
        BY <2>2, OfKept
      <3> QED
        BY <2>2, <3>1 DEF RecordsAgree, records, LastOf, Ids
    <2>3. Layer \/ User \/ Leave \/ UNCHANGED vars => UNCHANGED <<records, handled>>
      BY DEF Layer, OnEvent, ForwardLine, User, Leave, vars, TabKey, JumpKey, PauseKey,
             ClearKey, MouseKey, FilterKey, ScrollKey, Wheel, HomeKey, TerminalError, Input
    <2> QED
      BY <2>1, <2>2, <2>3 DEF Next, Quiet
  <1> QED
    BY <1>1, <1>2, TypeCorrect, PTL DEF Spec

-----------------------------------------------------------------------------
(* The page.                                                               *)

LEMMA FilteredTyped == TypeOK => Filtered \in Seq(LogLines) /\ Len(Filtered) \in Nat
  <1>1. TypeOK => Filtered \in Seq(LogLines)
    BY SelectTyped DEF Filtered, TypeOK
  <1> QED
    BY <1>1

(* For every height, filter and scroll position, the page is as full as it *)
(* can be (src/tui/widgets/logs_viewer.rs:17-27).                          *)
THEOREM PageAlwaysFilled == Spec => []PageFilled
  <1>1. TypeOK => PageFilled
    <2> SUFFICES ASSUME TypeOK, NEW h \in Heights
                 PROVE  Len(Page(h)) = Least(h, Len(Filtered))
      BY DEF PageFilled
    <2> DEFINE f == Filtered
               n == Len(f)
               r == FirstRow(h)
               last == Least(r + h, n)
    <2>1. f \in Seq(LogLines) /\ n \in Nat /\ h \in Nat
      BY FilteredTyped, TuiAssumption
    <2>2. app.logScroll \in Nat
      BY Caps DEF TypeOK
    <2>3. r \in Nat /\ r <= n /\ (n > h => r <= n - h) /\ (n <= h => r = 0)
      BY <2>1, <2>2 DEF FirstRow, Least
    <2>4. Page(h) = SubSeq(f, r + 1, last)
      BY DEF Page
    <2> HIDE DEF f, n, r
    <2>5. last \in Nat /\ last <= n /\ last >= r
      BY <2>1, <2>3 DEF Least
    <2>6. last - r = Least(h, n)
      BY <2>1, <2>3 DEF Least
    <2> HIDE DEF last
    <2>7. Len(SubSeq(f, r + 1, last)) = IF r + 1 <= last THEN last - (r + 1) + 1 ELSE 0
      BY <2>1, <2>3, <2>5, SubSeqOne DEF n
    <2>8. (IF r + 1 <= last THEN last - (r + 1) + 1 ELSE 0) = last - r
      BY <2>3, <2>5
    <2> QED
      BY <2>4, <2>6, <2>7, <2>8 DEF n, f
  <1> QED
    BY <1>1, TypeCorrect, PTL

(* The top line of a page in the middle of an unfiltered log.              *)
TopLineIs ==
  \A h \in Nat \ {0} :
    /\ TypeOK /\ app.filter = 1
    /\ 0 < app.logScroll /\ app.logScroll <= Len(logs) - h
    => Page(h)[1] = logs[app.logScroll + 1]

LEMMA TopLine == TopLineIs
  <1> SUFFICES ASSUME NEW h \in Nat \ {0}, TypeOK, app.filter = 1,
                      0 < app.logScroll, app.logScroll <= Len(logs) - h
               PROVE  Page(h)[1] = logs[app.logScroll + 1]
    BY DEF TopLineIs
  <1>1. logs \in Seq(LogLines) /\ Len(logs) \in Nat /\ app.logScroll \in Nat
    BY Caps DEF TypeOK
  <1>2. Filtered = logs
    <2>1. LogLines \subseteq Shown
      BY DEF Shown
    <2> QED
      BY <1>1, <2>1, SelectAll DEF Filtered
  <1>3. FirstRow(h) = app.logScroll
    BY <1>1, <1>2 DEF FirstRow, Least
  <1>4. Least(app.logScroll + h, Len(logs)) = app.logScroll + h
    BY <1>1 DEF Least
  <1>5. Page(h) = SubSeq(logs, app.logScroll + 1, app.logScroll + h)
    BY <1>2, <1>3, <1>4 DEF Page
  <1> DEFINE r == app.logScroll
  <1>6. r \in Nat /\ r + h <= Len(logs)
    BY <1>1
  <1> HIDE DEF r
  <1>7. /\ r + 1 \in Nat \ {0} /\ r + h \in Nat /\ (r + 1) + 1 - 1 = r + 1
         /\ (r + h) - (r + 1) + 1 = h /\ 1 \in 1..h
    BY <1>6
  <1>8. SubSeq(logs, r + 1, r + h)[1] = logs[(r + 1) + 1 - 1]
    BY <1>1, <1>6, <1>7, SubSeqOne
  <1> QED
    BY <1>5, <1>6, <1>8 DEF r

(* A user who has scrolled to a line keeps the place, whatever arrives and *)
(* is evicted (src/tui/app.rs:181-187).                                    *)
THEOREM PlaceIsKept == Spec => PlaceKept
  <1> DEFINE Step == \A h \in Heights :
               /\ LineReceived /\ app.filter = 1 /\ h > 0
               /\ 1 < app.logScroll /\ app.logScroll <= Len(logs) - h
               => Page(h)'[1] = Page(h)[1]
  <1>1. ASSUME TypeOK, TypeOK', NEW h \in Heights, LineReceived, app.filter = 1, h > 0,
               1 < app.logScroll, app.logScroll <= Len(logs) - h
        PROVE  Page(h)'[1] = Page(h)[1]
    <2> DEFINE x == [id |-> Head(tuiQ).id, matches |-> Head(tuiQ).line.matches]
               r == app.logScroll
    <2>1. /\ h \in Nat \ {0} /\ r \in Nat /\ r > 1 /\ r + h <= Len(logs)
          /\ logs \in Seq(LogLines) /\ Len(logs) \in Nat /\ Len(logs) <= MaxLogs
      <3>1. h \in Nat \ {0}
        BY <1>1, TuiAssumption
      <3>2. /\ logs \in Seq(LogLines) /\ Len(logs) \in Nat /\ Len(logs) <= MaxLogs
            /\ r \in Nat
        BY <1>1, Caps DEF TypeOK
      <3> QED
        BY <1>1, <3>1, <3>2
    <2>2. x \in LogLines
      BY <1>1, ReceivedTyped DEF LineReceived
    <2>3. /\ logs' = Push(logs, MaxLogs, x)
          /\ app' = IF Len(logs) >= MaxLogs /\ app.logScroll > 0
                    THEN [app EXCEPT !.logScroll = @ - 1] ELSE app
      BY <1>1 DEF LineReceived, AddLog
    <2>4. Page(h)[1] = logs[r + 1]
      BY <1>1, <2>1, TopLine DEF TopLineIs
    <2>5. app \in [tab : 1..4, paused : BOOLEAN, filter : 1..4, logScroll : 0..inputs,
                   oppScroll : 0..inputs, banner : BOOLEAN, mouse : BOOLEAN]
      BY <1>1 DEF TypeOK
    <2> HIDE DEF x
    <2>6. ASSUME TypeOK', app'.filter = 1, 0 < app'.logScroll, app'.logScroll <= Len(logs') - h
          PROVE  Page(h)'[1] = logs'[app'.logScroll + 1]
      <3>1. TopLineIs'
        BY TopLine, PTL
      <3> QED
        BY <2>1, <2>6, <3>1 DEF TopLineIs
    <2>7. CASE Len(logs) >= MaxLogs
      <3>1. app' = [app EXCEPT !.logScroll = @ - 1] /\ logs' = Append(Tail(logs), x)
        BY <2>1, <2>3, <2>7 DEF Push
      <3>2. app'.filter = 1 /\ app'.logScroll = r - 1
        BY <1>1, <2>5, <3>1
      <3>3. /\ Tail(logs) \in Seq(LogLines) /\ Len(Tail(logs)) = Len(logs) - 1
            /\ \A i \in 1..(Len(logs) - 1) : Tail(logs)[i] = logs[i + 1]
        BY <2>1, TailOne
      <3>4. /\ Len(logs') = Len(Tail(logs)) + 1
            /\ \A i \in 1..Len(Tail(logs)) : logs'[i] = Tail(logs)[i]
        BY <2>2, <3>1, <3>3, AppendOne
      <3>5. Page(h)'[1] = logs'[(r - 1) + 1]
        BY <1>1, <2>1, <2>6, <3>2, <3>3, <3>4
      <3>6. logs'[r] = logs[r + 1]
        BY <2>1, <3>3, <3>4
      <3> QED
        BY <2>1, <2>4, <3>5, <3>6
    <2>8. CASE Len(logs) < MaxLogs
      <3>1. app' = app /\ logs' = Append(logs, x)
        BY <2>1, <2>3, <2>8, Caps DEF Push
      <3>2. Len(logs') = Len(logs) + 1 /\ \A i \in 1..Len(logs) : logs'[i] = logs[i]
        BY <2>1, <2>2, <3>1, AppendOne
      <3>3. Page(h)'[1] = logs'[r + 1]
        BY <1>1, <2>1, <2>6, <3>1, <3>2
      <3> QED
        BY <2>1, <2>4, <3>2, <3>3
    <2> QED
      BY <2>1, <2>7, <2>8, Caps
  <1>2. TypeOK /\ TypeOK' => Step
    BY <1>1
  <1> HIDE DEF Step
  <1>3. TypeOK /\ TypeOK' => [Step]_vars
    BY <1>2
  <1>4. [][Step]_vars => PlaceKept
    BY DEF PlaceKept, Step
  <1> QED
    BY <1>3, <1>4, TypeCorrect, PTL

-----------------------------------------------------------------------------
(* The refinement of TuiFeed.  In the channel, as in what is shown, a log  *)
(* event has at most its structured event and then its line.               *)

Single(s) ==
  \A i, j \in DOMAIN s :
    i < j /\ s[i].id = s[j].id => s[i].what # "line" /\ s[j].what = "line"

LEMMA SingleAppend ==
  ASSUME NEW s \in Seq(TuiEvents), NEW x \in TuiEvents, Single(s), NoLine(s, x.id),
         (\E i \in DOMAIN s : s[i].id = x.id) => x.what = "line"
  PROVE  Single(Append(s, x))
  <1> DEFINE t == Append(s, x)
  <1>1. /\ DOMAIN t = 1..(Len(s) + 1) /\ Len(s) \in Nat /\ DOMAIN s = 1..Len(s)
        /\ t[Len(s) + 1] = x /\ \A i \in 1..Len(s) : t[i] = s[i]
    BY AppendOne
  <1> HIDE DEF t
  <1> SUFFICES ASSUME NEW i \in 1..(Len(s) + 1), NEW j \in 1..(Len(s) + 1),
                      i < j, t[i].id = t[j].id
               PROVE  t[i].what # "line" /\ t[j].what = "line"
    BY <1>1 DEF Single, t
  <1>2. i \in 1..Len(s)
    BY <1>1
  <1>3. CASE j \in 1..Len(s)
    BY <1>1, <1>2, <1>3 DEF Single
  <1>4. CASE j = Len(s) + 1
    BY <1>1, <1>2, <1>4 DEF NoLine
  <1> QED
    BY <1>1, <1>3, <1>4

LEMMA SingleTail ==
  ASSUME NEW s \in Seq(TuiEvents), s # << >>, Single(s)
  PROVE  /\ Single(Tail(s))
         /\ \A j \in DOMAIN Tail(s) : Tail(s)[j].id = Head(s).id
              => Head(s).what # "line" /\ Tail(s)[j].what = "line"
  <1> DEFINE t == Tail(s)
  <1>1. /\ DOMAIN t = 1..(Len(s) - 1) /\ Len(s) \in Nat \ {0} /\ DOMAIN s = 1..Len(s)
        /\ Head(s) = s[1] /\ \A i \in 1..(Len(s) - 1) : t[i] = s[i + 1]
    BY TailOne
  <1> HIDE DEF t
  <1>2. \A i \in DOMAIN t : i \in Nat /\ i + 1 \in DOMAIN s /\ 1 < i + 1 /\ t[i] = s[i + 1]
    BY <1>1
  <1>3. 1 \in DOMAIN s
    BY <1>1
  <1>4. Single(t)
    <2> SUFFICES ASSUME NEW i \in DOMAIN t, NEW j \in DOMAIN t, i < j, t[i].id = t[j].id
                 PROVE  t[i].what # "line" /\ t[j].what = "line"
      BY DEF Single
    <2>1. i + 1 < j + 1
      BY <1>2
    <2> QED
      BY <1>2, <2>1 DEF Single
  <1>5. \A j \in DOMAIN t : t[j].id = Head(s).id => Head(s).what # "line" /\ t[j].what = "line"
    BY <1>1, <1>2, <1>3 DEF Single
  <1> QED
    BY <1>4, <1>5 DEF t

(* What is pending, element by element.                                    *)
PendingIs ==
  \A p : p \in Pending <=>
           \/ \E i \in DOMAIN tuiQ : p = tuiQ[i]
           \/ \E v \in Tasks : emitting[v] # Idle /\ p = Line(emitting[v])

LEMMA PendingElements == PendingIs
  BY DEF PendingIs, Pending

LEMMA PendingNext == PendingIs'
  BY PendingElements, PTL

LEMMA SentOrNot ==
  ASSUME TypeOK, NEW ev \in TuiEvents, TrySend(ev)
  PROVE  /\ \A i \in DOMAIN tuiQ : \E j \in DOMAIN tuiQ' : tuiQ'[j] = tuiQ[i]
         /\ \A j \in DOMAIN tuiQ' : tuiQ'[j] = ev \/ \E i \in DOMAIN tuiQ : tuiQ'[j] = tuiQ[i]
  <1>1. tuiQ \in Seq(TuiEvents)
    BY DEF TypeOK
  <1>2. CASE tuiQ' = tuiQ
    BY <1>2
  <1>3. CASE tuiQ' = Append(tuiQ, ev)
    <2>1. /\ DOMAIN tuiQ' = 1..(Len(tuiQ) + 1) /\ Len(tuiQ) \in Nat /\ DOMAIN tuiQ = 1..Len(tuiQ)
          /\ tuiQ'[Len(tuiQ) + 1] = ev /\ \A i \in 1..Len(tuiQ) : tuiQ'[i] = tuiQ[i]
      BY <1>1, <1>3, AppendOne
    <2> QED
      BY <2>1
  <1> QED
    BY <1>2, <1>3 DEF TrySend

(* on_event up to its first send is Log: the event sent and the line that  *)
(* is still to be forwarded are what the log event yields.                 *)
LEMMA OnEventIsLog ==
  ASSUME TypeOK, NEW w \in Tasks, NEW l \in Lines[w], OnEvent(w, l)
  PROVE  Feed!Log
  <1> DEFINE e == [id |-> emitted + 1, line |-> l]
  <1>1. /\ emitted \in 0..MaxEmitted /\ MaxEmitted \in Nat
        /\ emitting \in [Tasks -> [id : 1..emitted, line : LogEvents] \cup {Idle}]
    BY Caps DEF TypeOK
  <1>2. /\ l \in LogEvents /\ emitted' = emitted + 1 /\ emitted + 1 \in 1..MaxEmitted
        /\ emitting[w] = Idle /\ handled' = handled
    BY <1>1, TuiAssumption DEF OnEvent
  <1>3. /\ Line(e) = [what |-> "line", id |-> emitted + 1, line |-> l]
        /\ Record(e) = [what |-> l.kind, id |-> emitted + 1, line |-> l]
        /\ Line(e) \in TuiEvents /\ Record(e) \in TuiEvents
    BY <1>2, EventKinds
  <1>4. /\ Line(e) \in Feed!Yields(emitted + 1, l)
        /\ l.kind # "other" => Record(e) \in Feed!Yields(emitted + 1, l)
    BY <1>3, Zenon DEF Feed!Yields
  <1>5. PICK ev \in Feed!Yields(emitted + 1, l) :
          /\ TrySend(ev) /\ ev \in TuiEvents
          /\ emitting' = emitting \/ emitting' = [emitting EXCEPT ![w] = e]
    <2>1. CASE l.kind = "other"
      <3>1. TrySend(Line(e)) /\ emitting' = emitting
        BY <2>1 DEF OnEvent
      <3> QED
        BY <1>3, <1>4, <3>1
    <2>2. CASE l.kind # "other"
      <3>1. TrySend(Record(e)) /\ emitting' = [emitting EXCEPT ![w] = e]
        BY <2>2 DEF OnEvent
      <3> QED
        BY <1>3, <1>4, <2>2, <3>1
    <2> QED
      BY <2>1, <2>2
  <1> HIDE DEF e
  <1>6. /\ \A i \in DOMAIN tuiQ : \E j \in DOMAIN tuiQ' : tuiQ'[j] = tuiQ[i]
        /\ \A j \in DOMAIN tuiQ' : tuiQ'[j] = ev \/ \E i \in DOMAIN tuiQ : tuiQ'[j] = tuiQ[i]
    BY <1>5, SentOrNot
  <1>7. \A v \in Tasks :
          /\ emitting[v] # Idle => emitting'[v] = emitting[v]
          /\ emitting'[v] # emitting[v] => emitting'[v] = e
    BY <1>1, <1>2, <1>5
  <1>8. Pending \subseteq Pending'
    <2> SUFFICES ASSUME NEW p \in Pending PROVE p \in Pending'
      OBVIOUS
    <2>1. CASE \E i \in DOMAIN tuiQ : p = tuiQ[i]
      BY <1>6, <2>1, PendingNext DEF PendingIs
    <2>2. CASE \E v \in Tasks : emitting[v] # Idle /\ p = Line(emitting[v])
      BY <1>7, <2>2, PendingNext DEF PendingIs
    <2> QED
      BY <2>1, <2>2, PendingElements DEF PendingIs
  <1>9. Pending' \ Pending \subseteq Feed!Yields(emitted + 1, l)
    <2> SUFFICES ASSUME NEW p \in Pending', p \notin Pending
                 PROVE  p \in Feed!Yields(emitted + 1, l)
      OBVIOUS
    <2>1. CASE \E j \in DOMAIN tuiQ' : p = tuiQ'[j]
      BY <1>5, <1>6, <2>1, PendingElements DEF PendingIs
    <2>2. CASE \E v \in Tasks : emitting'[v] # Idle /\ p = Line(emitting'[v])
      <3>1. PICK v \in Tasks : emitting'[v] # Idle /\ p = Line(emitting'[v])
        BY <2>2
      <3>2. emitting'[v] # emitting[v]
        BY <3>1, PendingElements DEF PendingIs
      <3> QED
        BY <1>4, <1>7, <3>1, <3>2
    <2> QED
      BY <2>1, <2>2, PendingNext DEF PendingIs
  <1>10. \E S \in SUBSET Feed!Yields(emitted + 1, l) : Pending' = Pending \cup S
    <2>1. Pending' \ Pending \in SUBSET Feed!Yields(emitted + 1, l)
      BY <1>9, Zenon
    <2>2. Pending' = Pending \cup (Pending' \ Pending)
      BY <1>8, Zenon
    <2> QED
      BY <2>1, <2>2
  <1> QED
    BY <1>2, <1>10 DEF Feed!Log

(* ForwardLine, a key and the end of the loop lose at most.                *)
LEMMA NothingNew ==
  ASSUME TypeOK, User \/ Leave \/ Quiet \/ \E w \in Tasks : ForwardLine(w)
  PROVE  Feed!Lose
  <1>1. UNCHANGED <<emitted, handled>>
    BY DEF User, Leave, Quiet, vars, emitVars, TabKey, JumpKey, PauseKey, ClearKey, MouseKey,
           FilterKey, ScrollKey, Wheel, HomeKey, TerminalError, Input, ForwardLine
  <1>2. CASE User \/ Leave \/ Quiet
    <2>1. emitting' = emitting /\ (tuiQ' = tuiQ \/ tuiQ' = << >>)
      BY <1>2 DEF User, Leave, Quiet, vars, emitVars, TabKey, JumpKey, PauseKey, ClearKey,
             MouseKey, FilterKey, ScrollKey, Wheel, HomeKey, TerminalError, Input
    <2>2. DOMAIN << >> = {}
      OBVIOUS
    <2>3. \A p : p \in Pending' => p \in Pending
      BY <2>1, <2>2, PendingElements, PendingNext DEF PendingIs
    <2> QED
      BY <1>1, <2>3 DEF Feed!Lose
  <1>3. ASSUME NEW w \in Tasks, ForwardLine(w) PROVE Feed!Lose
    <2> DEFINE ev == Line(emitting[w])
    <2>1. /\ MaxEmitted \in Nat /\ emitted \in 0..MaxEmitted
          /\ emitting \in [Tasks -> [id : 1..emitted, line : LogEvents] \cup {Idle}]
      BY Caps DEF TypeOK
    <2>2. /\ emitting[w] # Idle /\ TrySend(ev)
          /\ emitting' = [emitting EXCEPT ![w] = Idle]
      BY <1>3 DEF ForwardLine
    <2>3. ev \in TuiEvents
      BY <2>1, <2>2 DEF Line, TuiEvents
    <2>4. ev \in Pending
      BY <2>2, PendingElements DEF PendingIs
    <2> HIDE DEF ev
    <2>5. \A j \in DOMAIN tuiQ' : tuiQ'[j] = ev \/ \E i \in DOMAIN tuiQ : tuiQ'[j] = tuiQ[i]
      BY <2>2, <2>3, SentOrNot
    <2>6. \A v \in Tasks : emitting'[v] # Idle => emitting'[v] = emitting[v]
      BY <2>1, <2>2
    <2>7. \A p : p \in Pending' => p \in Pending
      BY <2>4, <2>5, <2>6, PendingElements, PendingNext DEF PendingIs
    <2> QED
      BY <1>1, <2>7 DEF Feed!Lose
  <1> QED
    BY <1>2, <1>3

(* Taking an event off the channel shows it, or loses it if the App is     *)
(* paused.                                                                 *)
LEMMA ReceivesShow ==
  ASSUME TypeOK, Sequenced, Single(tuiQ), Receives
  PROVE  Feed!Next
  <1> DEFINE ev == Head(tuiQ)
  <1>1. /\ ev \in TuiEvents /\ tuiQ \in Seq(TuiEvents) /\ tuiQ # << >> /\ tuiQ' = Tail(tuiQ)
        /\ UNCHANGED <<emitted, emitting>>
    BY ReceivedTyped DEF Receives, OpportunityReceived, BundleReceived, LineReceived
  <1>2. handled' = handled \/ handled' = Append(handled, ev)
    BY DEF Receives, OpportunityReceived, BundleReceived, LineReceived, AddOpportunity,
           AddBundle, AddLog
  <1>3. /\ DOMAIN tuiQ' = 1..(Len(tuiQ) - 1) /\ Len(tuiQ) \in Nat \ {0}
        /\ DOMAIN tuiQ = 1..Len(tuiQ)
        /\ ev = tuiQ[1] /\ \A i \in 1..(Len(tuiQ) - 1) : tuiQ'[i] = tuiQ[i + 1]
    BY <1>1, TailOne
  <1>4. \A j \in DOMAIN tuiQ' : tuiQ'[j].id = ev.id => ev.what # "line" /\ tuiQ'[j].what = "line"
    BY <1>1, SingleTail
  <1> HIDE DEF ev
  <1>5. \A j \in DOMAIN tuiQ' : \E i \in DOMAIN tuiQ : tuiQ'[j] = tuiQ[i]
    BY <1>3
  <1>6. \A i \in DOMAIN tuiQ : tuiQ[i] = ev \/ \E j \in DOMAIN tuiQ' : tuiQ'[j] = tuiQ[i]
    <2> SUFFICES ASSUME NEW i \in DOMAIN tuiQ, i # 1
                 PROVE  \E j \in DOMAIN tuiQ' : tuiQ'[j] = tuiQ[i]
      BY <1>3
    <2>1. i - 1 \in 1..(Len(tuiQ) - 1) /\ (i - 1) + 1 = i
      BY <1>3
    <2> QED
      BY <1>3, <2>1
  <1>7. ev \in Pending
    BY <1>3, PendingElements DEF PendingIs
  <1>8. \A p : p \in Pending' => p \in Pending
    BY <1>1, <1>5, PendingElements, PendingNext DEF PendingIs
  <1>9. CASE handled' = handled
    BY <1>1, <1>8, <1>9 DEF Feed!Next, Feed!Lose
  <1>10. CASE handled' = Append(handled, ev)
    <2>1. \A p \in Pending' : p.id = ev.id => p.what = "line" /\ ev.what # "line"
      <3> SUFFICES ASSUME NEW p \in Pending', p.id = ev.id
                   PROVE  p.what = "line" /\ ev.what # "line"
        OBVIOUS
      <3>1. CASE \E j \in DOMAIN tuiQ' : p = tuiQ'[j]
        BY <1>4, <3>1
      <3>2. CASE \E v \in Tasks : emitting'[v] # Idle /\ p = Line(emitting'[v])
        <4>1. PICK v \in Tasks : emitting[v] # Idle /\ p = Line(emitting[v])
          BY <1>1, <3>2
        <4>2. p.what = "line" /\ p.id = emitting[v].id
          BY <4>1 DEF Line
        <4>3. NoLine(tuiQ, emitting[v].id)
          BY <4>1 DEF Sequenced
        <4>4. 1 \in DOMAIN tuiQ
          BY <1>3
        <4> QED
          BY <1>3, <4>2, <4>3, <4>4 DEF NoLine
      <3> QED
        BY <3>1, <3>2, PendingNext DEF PendingIs
    <2>2. \A p \in Pending : p = ev \/ p \in Pending'
      BY <1>1, <1>6, PendingElements, PendingNext DEF PendingIs
    <2>3. Pending' = {p \in Pending : p.id = ev.id => p.what = "line" /\ ev.what # "line"}
      BY <1>8, <2>1, <2>2
    <2> QED
      BY <1>1, <1>7, <1>10, <2>3 DEF Feed!Next, Feed!Show
  <1> QED
    BY <1>2, <1>9, <1>10

LEMMA StaysSingle ==
  ASSUME TypeOK, Sequenced, Single(tuiQ), [Next]_vars
  PROVE  Single(tuiQ)'
  <1>0. tuiQ \in Seq(TuiEvents)
    BY DEF TypeOK
  <1>1. ASSUME NEW w \in Tasks, ForwardLine(w) PROVE Single(tuiQ')
    <2> DEFINE ev == Line(emitting[w])
    <2>1. /\ emitting \in [Tasks -> [id : 1..emitted, line : LogEvents] \cup {Idle}]
          /\ MaxEmitted \in Nat /\ emitted \in 0..MaxEmitted
      BY Caps DEF TypeOK
    <2>2. /\ emitting[w] # Idle /\ ev.what = "line" /\ ev.id = emitting[w].id
          /\ tuiQ' = tuiQ \/ tuiQ' = Append(tuiQ, ev)
      BY <1>1 DEF ForwardLine, TrySend, Line
    <2>3. ev \in TuiEvents
      BY <2>1, <2>2 DEF Line, TuiEvents
    <2> HIDE DEF ev
    <2>4. NoLine(tuiQ, ev.id)
      BY <2>2 DEF Sequenced
    <2> QED
      BY <1>0, <2>2, <2>3, <2>4, SingleAppend
  <1>2. ASSUME NEW w \in Tasks, NEW l \in Lines[w], OnEvent(w, l) PROVE Single(tuiQ')
    <2> DEFINE e == [id |-> emitted + 1, line |-> l]
    <2>1. /\ l \in LogEvents /\ emitted + 1 \in 1..MaxEmitted /\ emitted \in Nat
      BY <1>2, TuiAssumption, Caps DEF OnEvent, TypeOK
    <2>2. Line(e) \in TuiEvents /\ Record(e) \in TuiEvents
      BY <2>1, EventKinds
    <2>3. Line(e).id = emitted + 1 /\ Record(e).id = emitted + 1
      BY DEF Line, Record
    <2>4. PICK ev \in {Line(e), Record(e)} : tuiQ' = tuiQ \/ tuiQ' = Append(tuiQ, ev)
      BY <1>2 DEF OnEvent, TrySend
    <2>5. ev \in TuiEvents /\ ev.id = emitted + 1
      BY <2>2, <2>3, <2>4
    <2>6. \A i \in DOMAIN tuiQ : tuiQ[i].id # ev.id
      BY <2>1, <2>5 DEF Sequenced, Known
    <2> QED
      BY <1>0, <2>4, <2>5, <2>6, SingleAppend DEF NoLine
  <1>3. CASE Receives
    <2>1. tuiQ # << >> /\ tuiQ' = Tail(tuiQ)
      BY <1>3, ReceivedTyped DEF Receives, OpportunityReceived, BundleReceived, LineReceived
    <2> QED
      BY <1>0, <2>1, SingleTail
  <1>4. CASE User \/ Leave \/ Quiet \/ UNCHANGED vars
    <2>1. tuiQ' = tuiQ \/ tuiQ' = << >>
      BY <1>4 DEF User, Leave, Quiet, vars, emitVars, TabKey, JumpKey, PauseKey, ClearKey,
             MouseKey, FilterKey, ScrollKey, Wheel, HomeKey, TerminalError, Input
    <2>2. Single(<< >>)
      BY DEF Single
    <2> QED
      BY <2>1, <2>2
  <1> QED
    BY <1>1, <1>2, <1>3, <1>4 DEF Next, Layer, Single

LEMMA AlwaysSingle == Spec => []Single(tuiQ)
  <1>1. Init => Single(tuiQ)
    BY DEF Init, Single
  <1> QED
    BY <1>1, StaysSingle, AlwaysInOrder, TypeCorrect, PTL DEF Spec

(* The layer, the channel and the App together keep the promise of TuiFeed *)
(* (src/tui_logger.rs:94-126, src/tui/mod.rs:273-290).                     *)
THEOREM Refinement == Spec => ImplementsFeed
  <1>1. Init => Feed!Init
    <2> SUFFICES ASSUME Init PROVE Feed!Init
      OBVIOUS
    <2>1. \A v \in Tasks : emitting[v] = Idle
      BY DEF Init
    <2>2. \A p : p \notin Pending
      BY <2>1, PendingElements DEF Init, PendingIs
    <2> QED
      BY <2>2 DEF Init, Feed!Init
  <1>2. ASSUME TypeOK, Sequenced, Single(tuiQ), [Next]_vars
        PROVE  [Feed!Next]_(Feed!feedVars)
    <2>1. CASE UNCHANGED vars
      <3>1. UNCHANGED <<emitted, emitting, tuiQ, handled>>
        BY <2>1 DEF vars, emitVars
      <3>2. Pending' = Pending
        BY <3>1 DEF Pending
      <3> QED
        BY <3>1, <3>2 DEF Feed!feedVars
    <2>2. CASE Layer
      <3>1. ASSUME NEW w \in Tasks, NEW l \in Lines[w], OnEvent(w, l) PROVE Feed!Next
        BY <1>2, <3>1, OnEventIsLog DEF Feed!Next
      <3>2. ASSUME NEW w \in Tasks, ForwardLine(w) PROVE Feed!Next
        BY <1>2, <3>2, NothingNew DEF Feed!Next
      <3> QED
        BY <2>2, <3>1, <3>2 DEF Layer
    <2>3. CASE Receives
      BY <1>2, <2>3, ReceivesShow
    <2>4. CASE User \/ Leave \/ Quiet
      BY <1>2, <2>4, NothingNew DEF Feed!Next
    <2> QED
      BY <1>2, <2>1, <2>2, <2>3, <2>4 DEF Next
  <1> QED
    BY <1>1, <1>2, TypeCorrect, AlwaysInOrder, AlwaysSingle, PTL
       DEF Spec, ImplementsFeed, Feed!Spec

-----------------------------------------------------------------------------
(* TuiFeed by itself.                                                      *)

FeedEvents == [what : Kinds \cup {"line"}, id : Nat, line : LogEvents]

(* What is pending of a log event that has been shown can only be its      *)
(* line, after its structured event.                                       *)
FeedInv ==
  /\ emitted \in Nat /\ handled \in Seq(FeedEvents)
  /\ \A p \in Pending : p \in FeedEvents /\ p.id \in 1..emitted
  /\ \A i \in DOMAIN handled : handled[i].id \in 1..emitted
  /\ \A p \in Pending : \A i \in DOMAIN handled :
       p.id = handled[i].id => p.what = "line" /\ handled[i].what # "line"
  /\ Feed!OnceInOrder

LEMMA YieldsTyped ==
  ASSUME NEW n \in Nat, NEW l \in LogEvents, NEW p \in Feed!Yields(n, l)
  PROVE  p \in FeedEvents /\ p.id = n
  <1>1. PICK what \in {"line"} \cup ({l.kind} \ {"other"}) :
          p = [what |-> what, id |-> n, line |-> l]
    BY Zenon DEF Feed!Yields
  <1>2. what \in Kinds \cup {"line"}
    BY <1>1 DEF LogEvents
  <1> QED
    BY <1>1, <1>2 DEF FeedEvents

LEMMA FeedStep ==
  ASSUME FeedInv, [Feed!Next]_(Feed!feedVars)
  PROVE  FeedInv'
  <1>1. CASE Feed!Log
    <2>1. PICK l \in LogEvents :
            /\ emitted' = emitted + 1 /\ handled' = handled
            /\ \E S \in SUBSET Feed!Yields(emitted + 1, l) : Pending' = Pending \cup S
      BY <1>1 DEF Feed!Log
    <2>2. PICK S \in SUBSET Feed!Yields(emitted + 1, l) : Pending' = Pending \cup S
      BY <2>1
    <2>3. emitted \in Nat /\ emitted' \in Nat
      BY <2>1 DEF FeedInv
    <2>4. \A p \in S : p \in FeedEvents /\ p.id = emitted + 1
      BY <2>3, YieldsTyped
    <2>5. emitted + 1 \in 1..emitted' /\ emitted + 1 \notin 1..emitted
          /\ \A n \in 1..emitted : n \in 1..emitted'
      BY <2>1, <2>3
    <2>6. \A p \in Pending' : p \in FeedEvents /\ p.id \in 1..emitted'
      BY <2>2, <2>4, <2>5 DEF FeedInv
    <2>7. \A p \in Pending' : \A i \in DOMAIN handled :
            p.id = handled[i].id => p.what = "line" /\ handled[i].what # "line"
      BY <2>2, <2>4, <2>5 DEF FeedInv
    <2>8. \A i \in DOMAIN handled : handled[i].id \in 1..emitted'
      BY <2>5 DEF FeedInv
    <2>9. Feed!OnceInOrder'
      BY <2>1 DEF FeedInv, Feed!OnceInOrder
    <2>10. handled \in Seq(FeedEvents)
      BY DEF FeedInv
    <2> QED
      BY <2>1, <2>3, <2>6, <2>7, <2>8, <2>9, <2>10 DEF FeedInv
  <1>2. CASE Feed!Lose \/ UNCHANGED Feed!feedVars
    <2>1. /\ Pending' \subseteq Pending /\ emitted' = emitted /\ handled' = handled
      BY <1>2 DEF Feed!Lose, Feed!feedVars
    <2>2. Feed!OnceInOrder'
      BY <2>1 DEF FeedInv, Feed!OnceInOrder
    <2> QED
      BY <2>1, <2>2 DEF FeedInv
  <1>3. ASSUME NEW ev \in Pending, Feed!Show(ev) PROVE FeedInv'
    <2> DEFINE n == Len(handled) + 1
    <2>1. /\ emitted' = emitted /\ handled' = Append(handled, ev)
          /\ Pending' = {p \in Pending : p.id = ev.id => p.what = "line" /\ ev.what # "line"}
      BY <1>3 DEF Feed!Show
    <2>2. ev \in FeedEvents /\ handled \in Seq(FeedEvents) /\ ev.id \in 1..emitted
      BY DEF FeedInv
    <2>3. /\ handled' \in Seq(FeedEvents) /\ DOMAIN handled' = 1..n /\ n \in Nat \ {0}
          /\ DOMAIN handled = 1..(n - 1) /\ handled'[n] = ev
          /\ \A i \in 1..(n - 1) : handled'[i] = handled[i]
      BY <2>1, <2>2, AppendOne
    <2> HIDE DEF n
    <2>4. \A i \in DOMAIN handled' :
            \/ i = n /\ handled'[i] = ev
            \/ i \in DOMAIN handled /\ i < n /\ handled'[i] = handled[i]
      BY <2>3
    <2>5. \A i \in DOMAIN handled :
            ev.id = handled[i].id => ev.what = "line" /\ handled[i].what # "line"
      BY DEF FeedInv
    <2>6. Feed!OnceInOrder'
      <3> SUFFICES ASSUME NEW i \in DOMAIN handled', NEW j \in DOMAIN handled',
                          i < j, handled'[i].id = handled'[j].id
                   PROVE  handled'[i].what # "line" /\ handled'[j].what = "line"
        BY DEF Feed!OnceInOrder
      <3>1. i \in DOMAIN handled /\ handled'[i] = handled[i]
        BY <2>3
      <3>2. CASE j = n
        BY <2>3, <2>5, <3>1, <3>2
      <3>3. CASE j \in DOMAIN handled /\ handled'[j] = handled[j]
        BY <3>1, <3>3 DEF FeedInv, Feed!OnceInOrder
      <3> QED
        BY <2>4, <3>2, <3>3
    <2>7. \A p \in Pending' : \A i \in DOMAIN handled' :
            p.id = handled'[i].id => p.what = "line" /\ handled'[i].what # "line"
      BY <2>1, <2>4 DEF FeedInv
    <2>8. \A i \in DOMAIN handled' : handled'[i].id \in 1..emitted
      BY <2>2, <2>4 DEF FeedInv
    <2>9. emitted \in Nat /\ \A p \in Pending' : p \in FeedEvents /\ p.id \in 1..emitted
      BY <2>1 DEF FeedInv
    <2> QED
      BY <2>1, <2>3, <2>6, <2>7, <2>8, <2>9 DEF FeedInv
  <1> QED
    BY <1>1, <1>2, <1>3 DEF Feed!Next

(* Of one log event the user sees at most one structured event and one     *)
(* line, in this order, whatever is lost (src/tui_logger.rs:103-125).      *)
THEOREM FeedOrdered == Feed!Spec => []Feed!OnceInOrder
  <1>1. Feed!Init => FeedInv
    <2>1. << >> \in Seq(FeedEvents) /\ DOMAIN << >> = {}
      OBVIOUS
    <2> QED
      BY <2>1 DEF Feed!Init, FeedInv, Feed!OnceInOrder
  <1>2. FeedInv => Feed!OnceInOrder
    BY DEF FeedInv
  <1> QED
    BY <1>1, <1>2, FeedStep, PTL DEF Feed!Spec

(* So the TUI shows every event once, and a line never before its          *)
(* structured event (src/tui_logger.rs:103-125, src/tui/mod.rs:273-290).   *)
THEOREM ShownOnce == Spec => []Feed!OnceInOrder
  BY Refinement, FeedOrdered, PTL DEF ImplementsFeed

=============================================================================
