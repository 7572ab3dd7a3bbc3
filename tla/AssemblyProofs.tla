--------------------------- MODULE AssemblyProofs --------------------------
(***************************************************************************)
(* Proofs about Assembly: whatever Jupiter answers, and however many setup *)
(* instructions it sends, the loan's first instruction finds its last, and *)
(* the trade is between them.                                              *)
(***************************************************************************)
EXTENDS Assembly, TLAPS

-----------------------------------------------------------------------------
(* The arithmetic, for every word size, cost, minimum tip and fraction.    *)

(* No estimate of amounts that fit turns a loss into a profit              *)
(* (src/jupiter/mod.rs:171-172).                                           *)
THEOREM EstimateExact ==
  ASSUME NEW amount \in Nat, NEW out \in Nat
  PROVE  ProfitExact(amount, out)
  <1> DEFINE half == U64 \div 2
             diff == out - amount - TxCost
  <1> SUFFICES ASSUME out < half, amount < half, amount + TxCost <= half
               PROVE  EstimateProfit(amount, out) = diff
    BY DEF ProfitExact
  <1>1. /\ U64 \in Nat /\ half \in Nat /\ TxCost \in Nat /\ TxCost < half
        /\ U64 = 2 * half /\ half > 0
    BY WordAssumption
  <1> HIDE DEF half
  <1>2. diff + half \in 0..(U64 - 1) /\ diff \in Int
    BY <1>1
  <1>3. AsI64(out) = out /\ AsI64(amount) = amount
    BY <1>1 DEF AsI64, half
  <1>4. (diff + half) % U64 = diff + half
    BY <1>1, <1>2
  <1>5. WrapI64(diff) = diff
    BY <1>1, <1>2, <1>4 DEF WrapI64, half
  <1> QED
    BY <1>3, <1>5 DEF EstimateProfit

(* Profits below twice MinTip are exactly those that have no tip           *)
(* (src/config/mod.rs:184).                                                *)
THEOREM PanicRange ==
  ASSUME NEW profit \in Int
  PROVE  TipPanicRange(profit)
  BY TipAssumption DEF TipPanicRange, TipPanics

(* The cap holds for every configured fraction (src/config/mod.rs:175-184).*)
THEOREM TipBounds ==
  ASSUME NEW profit \in Int
  PROVE  TipLeavesHalf(profit)
  <1> SUFFICES ASSUME profit > 0, ~TipPanics(profit)
               PROVE  /\ DynamicJitoTip(profit) >= MinTip
                      /\ 2 * DynamicJitoTip(profit) <= profit
    BY DEF TipLeavesHalf
  <1>1. MinTip \in Nat /\ MinTip <= profit \div 2 /\ profit \div 2 \in Int
    BY TipAssumption DEF TipPanics
  <1>2. 2 * (profit \div 2) <= profit
    OBVIOUS
  <1>3. RawTip(profit) \in Int
    <2>1. profit * TipFraction \in Int /\ U64 - 1 \in Int
      BY TipAssumption, WordAssumption
    <2>2. \A n \in Int : n \div TipScale \in Int
      BY TipAssumption
    <2> QED
      BY <2>1, <2>2 DEF RawTip
  <1>4. DynamicJitoTip(profit) \in MinTip..(profit \div 2)
    BY <1>1, <1>3 DEF DynamicJitoTip
  <1> QED
    BY <1>1, <1>2, <1>4

-----------------------------------------------------------------------------
(* The instruction list.                                                   *)

Ixs == [from : {"loan", "buy", "sell", "jito"},
        does : {"createAta", "start", "end", "setup", "swap", "cleanup", "tip"},
        data : Int]

Lamports == Int

Legs == {"buy", "sell"}

(* Two lists, one after the other.                                         *)
LEMMA Joined ==
  ASSUME NEW S, NEW s \in Seq(S), NEW t \in Seq(S)
  PROVE  /\ s \o t \in Seq(S)
         /\ Len(s \o t) = Len(s) + Len(t)
         /\ \A i \in 1..Len(s) : (s \o t)[i] = s[i]
         /\ \A i \in 1..Len(t) : (s \o t)[Len(s) + i] = t[i]
  OBVIOUS

LEMMA Pushed ==
  ASSUME NEW S, NEW s \in Seq(S), NEW x \in S, NEW m \in Nat, Len(s) = m
  PROVE  /\ Append(s, x) \in Seq(S)
         /\ Len(Append(s, x)) = m + 1
         /\ \A i \in 1..m : Append(s, x)[i] = s[i]
         /\ Append(s, x)[m + 1] = x
  OBVIOUS

(* A swap is its setup instructions and the swap itself.                   *)
LEMMA SwapShape ==
  ASSUME NEW leg \in Legs, NEW r \in Responses
  PROVE  /\ Swap(leg, r) \in Seq(Ixs)
         /\ Len(Swap(leg, r)) = r.setups + 1
         /\ \A i \in 1..r.setups : Swap(leg, r)[i] = Ix(leg, "setup")
         /\ Swap(leg, r)[r.setups + 1] = Ix(leg, "swap")
  <1> DEFINE n == r.setups
             setups == [i \in 1..n |-> Ix(leg, "setup")]
             swap == Ix(leg, "swap")
  <1>1. n \in Nat
    BY DEF Responses
  <1>2. Ix(leg, "setup") \in Ixs /\ swap \in Ixs
    BY DEF Ix, Ixs, Legs
  <1>3. setups \in Seq(Ixs) /\ Len(setups) = n
    BY <1>1, <1>2
  <1>4. \A i \in 1..n : setups[i] = Ix(leg, "setup")
    OBVIOUS
  <1>5. Swap(leg, r) = Append(setups, swap)
    BY DEF Swap
  <1> HIDE DEF n, setups, swap
  <1>6. /\ Append(setups, swap) \in Seq(Ixs)
        /\ Len(Append(setups, swap)) = n + 1
        /\ \A i \in 1..n : Append(setups, swap)[i] = setups[i]
        /\ Append(setups, swap)[n + 1] = swap
    BY <1>1, <1>2, <1>3, Pushed
  <1> QED
    BY <1>4, <1>5, <1>6 DEF n, swap

(* What stands where, up to end.                                           *)
LEMMA ToEndShape ==
  ASSUME NEW b \in Responses, NEW s \in Responses, NEW tip \in Lamports
  PROVE  LET list == ToEnd(b, s, tip)
         IN  /\ list \in Seq(Ixs)
             /\ Len(list) = b.setups + s.setups + 6
             /\ list[1] = Ix("loan", "createAta") /\ list[2] = StartIx
             /\ \A i \in 3..(b.setups + 2) : list[i] = Ix("buy", "setup")
             /\ list[b.setups + 3] = Ix("buy", "swap")
             /\ \A i \in (b.setups + 4)..(b.setups + s.setups + 3) :
                  list[i] = Ix("sell", "setup")
             /\ list[b.setups + s.setups + 4] = Ix("sell", "swap")
             /\ list[b.setups + s.setups + 5] = TipIx(tip)
             /\ list[b.setups + s.setups + 6] = EndIx
  <1> DEFINE m == b.setups
             n == s.setups
             l1 == ToStart
             first == Swap("buy", b)
             second == Swap("sell", s)
             last == <<TipIx(tip)>>
             l2 == l1 \o first
             l3 == l2 \o second
             l4 == l3 \o last
             l5 == Append(l4, EndIx)
  <1>0. m \in Nat /\ n \in Nat
    BY DEF Responses
  <1>1. /\ l1 \in Seq(Ixs) /\ Len(l1) = 2
        /\ l1[1] = Ix("loan", "createAta") /\ l1[2] = StartIx
    BY DEF ToStart, SetupIxs, StartIx, Ix, Ixs
  <1>2. /\ first \in Seq(Ixs) /\ Len(first) = m + 1
        /\ \A i \in 1..m : first[i] = Ix("buy", "setup")
        /\ first[m + 1] = Ix("buy", "swap")
    BY SwapShape DEF Legs
  <1>3. /\ second \in Seq(Ixs) /\ Len(second) = n + 1
        /\ \A i \in 1..n : second[i] = Ix("sell", "setup")
        /\ second[n + 1] = Ix("sell", "swap")
    BY SwapShape DEF Legs
  <1>4. /\ last \in Seq(Ixs) /\ Len(last) = 1 /\ last[1] = TipIx(tip)
        /\ EndIx \in Ixs
    BY DEF Ix, Ixs, EndIx, TipIx, Lamports
  <1>5. l5 = ToEnd(b, s, tip)
    BY DEF ToEnd
  <1>6. /\ 1 \in Nat /\ 2 \in Nat /\ m + 1 \in Nat /\ n + 1 \in Nat
        /\ m + 3 \in Nat /\ m + n + 4 \in Nat /\ m + n + 5 \in Nat
    BY <1>0
  <1> HIDE DEF m, n, l1, first, second, last
  <1>7. /\ l2 \in Seq(Ixs) /\ Len(l2) = m + 3
        /\ \A i \in 1..2 : l2[i] = l1[i]
        /\ \A i \in 1..(m + 1) : l2[2 + i] = first[i]
    <2>1. /\ l2 \in Seq(Ixs) /\ Len(l2) = Len(l1) + Len(first)
          /\ \A i \in 1..Len(l1) : l2[i] = l1[i]
          /\ \A i \in 1..Len(first) : l2[Len(l1) + i] = first[i]
      <3>1. l1 \in Seq(Ixs) /\ first \in Seq(Ixs)
        BY <1>1, <1>2
      <3> QED
        BY <3>1, Joined
    <2> HIDE DEF l2
    <2> QED
      BY <1>0, <1>1, <1>2, <2>1
  <1> HIDE DEF l2
  <1>8. /\ l3 \in Seq(Ixs) /\ Len(l3) = m + n + 4
        /\ \A i \in 1..(m + 3) : l3[i] = l2[i]
        /\ \A i \in 1..(n + 1) : l3[m + 3 + i] = second[i]
    <2>1. /\ l3 \in Seq(Ixs) /\ Len(l3) = Len(l2) + Len(second)
          /\ \A i \in 1..Len(l2) : l3[i] = l2[i]
          /\ \A i \in 1..Len(second) : l3[Len(l2) + i] = second[i]
      <3>1. l2 \in Seq(Ixs) /\ second \in Seq(Ixs)
        BY <1>3, <1>7
      <3> QED
        BY <3>1, Joined
    <2> HIDE DEF l3
    <2> QED
      BY <1>0, <1>3, <1>7, <2>1
  <1> HIDE DEF l3
  <1>9. /\ l4 \in Seq(Ixs) /\ Len(l4) = m + n + 5
        /\ \A i \in 1..(m + n + 4) : l4[i] = l3[i]
        /\ l4[m + n + 5] = TipIx(tip)
    <2>1. /\ l4 \in Seq(Ixs) /\ Len(l4) = Len(l3) + Len(last)
          /\ \A i \in 1..Len(l3) : l4[i] = l3[i]
          /\ \A i \in 1..Len(last) : l4[Len(l3) + i] = last[i]
      <3>1. l3 \in Seq(Ixs) /\ last \in Seq(Ixs)
        BY <1>4, <1>8
      <3> QED
        BY <3>1, Joined
    <2> HIDE DEF l4
    <2> QED
      BY <1>0, <1>4, <1>8, <2>1
  <1> HIDE DEF l4
  <1>10. /\ l5 \in Seq(Ixs) /\ Len(l5) = m + n + 6
         /\ \A i \in 1..(m + n + 5) : l5[i] = l4[i]
         /\ l5[m + n + 6] = EndIx
    <2>1. /\ l5 \in Seq(Ixs) /\ Len(l5) = (m + n + 5) + 1
          /\ \A i \in 1..(m + n + 5) : l5[i] = l4[i]
          /\ l5[(m + n + 5) + 1] = EndIx
      BY <1>4, <1>6, <1>9, Pushed
    <2> QED
      BY <1>0, <2>1
  <1> HIDE DEF l5
  <1>11. l5[1] = Ix("loan", "createAta") /\ l5[2] = StartIx
    BY <1>0, <1>1, <1>7, <1>8, <1>9, <1>10
  <1>12. \A i \in 1..(m + 1) : l5[2 + i] = first[i]
    <2>1. \A i \in 1..(m + 1) :
            2 + i \in 1..(m + 3) /\ 2 + i \in 1..(m + n + 4) /\ 2 + i \in 1..(m + n + 5)
      BY <1>0
    <2> QED
      BY <1>7, <1>8, <1>9, <1>10, <2>1
  <1>13. \A i \in 1..(n + 1) : l5[m + 3 + i] = second[i]
    <2>1. \A i \in 1..(n + 1) :
            m + 3 + i \in 1..(m + n + 4) /\ m + 3 + i \in 1..(m + n + 5)
      BY <1>0
    <2> QED
      BY <1>8, <1>9, <1>10, <2>1
  <1>14. /\ \A i \in 3..(m + 2) : l5[i] = Ix("buy", "setup")
         /\ l5[m + 3] = Ix("buy", "swap")
    <2>1. \A i \in 3..(m + 2) : i - 2 \in 1..m /\ i - 2 \in 1..(m + 1) /\ 2 + (i - 2) = i
      BY <1>0
    <2>2. m + 1 \in 1..(m + 1) /\ 2 + (m + 1) = m + 3
      BY <1>0
    <2> QED
      BY <1>2, <1>12, <2>1, <2>2
  <1>15. /\ \A i \in (m + 4)..(m + n + 3) : l5[i] = Ix("sell", "setup")
         /\ l5[m + n + 4] = Ix("sell", "swap")
    <2>1. \A i \in (m + 4)..(m + n + 3) :
            i - (m + 3) \in 1..n /\ i - (m + 3) \in 1..(n + 1) /\ m + 3 + (i - (m + 3)) = i
      BY <1>0
    <2>2. n + 1 \in 1..(n + 1) /\ m + 3 + (n + 1) = m + n + 4
      BY <1>0
    <2> QED
      BY <1>3, <1>13, <2>1, <2>2
  <1> QED
    BY <1>0, <1>5, <1>9, <1>10, <1>11, <1>14, <1>15 DEF m, n

LEMMA CleanupShape ==
  ASSUME NEW leg \in Legs, NEW r \in Responses
  PROVE  /\ Cleanup(leg, r) \in Seq(Ixs)
         /\ \A i \in 1..Len(Cleanup(leg, r)) : Cleanup(leg, r)[i].does = "cleanup"
  <1>1. CASE r.cleanup
    <2>1. Cleanup(leg, r) = <<Ix(leg, "cleanup")>>
      BY <1>1 DEF Cleanup
    <2>2. Ix(leg, "cleanup") \in Ixs /\ Ix(leg, "cleanup").does = "cleanup"
      BY DEF Ix, Ixs, Legs
    <2> QED
      BY <2>1, <2>2
  <1>2. CASE ~r.cleanup
    BY <1>2 DEF Cleanup
  <1> QED
    BY <1>1, <1>2

(* Cleanup instructions are all there is after end.                        *)
LEMMA AssembledShape ==
  ASSUME NEW b \in Responses, NEW s \in Responses, NEW tip \in Lamports
  PROVE  /\ Assembled(b, s, tip) \in Seq(Ixs)
         /\ Len(Assembled(b, s, tip)) >= Len(ToEnd(b, s, tip))
         /\ \A i \in 1..Len(ToEnd(b, s, tip)) : Assembled(b, s, tip)[i] = ToEnd(b, s, tip)[i]
         /\ \A i \in (Len(ToEnd(b, s, tip)) + 1)..Len(Assembled(b, s, tip)) :
              Assembled(b, s, tip)[i].does = "cleanup"
  <1> DEFINE list == ToEnd(b, s, tip)
             c1 == Cleanup("buy", b)
             c2 == Cleanup("sell", s)
             l1 == list \o c1
             l2 == l1 \o c2
  <1>1. list \in Seq(Ixs)
    BY ToEndShape
  <1>2. /\ c1 \in Seq(Ixs) /\ c2 \in Seq(Ixs)
        /\ \A i \in 1..Len(c1) : c1[i].does = "cleanup"
        /\ \A i \in 1..Len(c2) : c2[i].does = "cleanup"
    BY CleanupShape DEF Legs
  <1>3. l2 = Assembled(b, s, tip)
    BY DEF Assembled
  <1> HIDE DEF list, c1, c2
  <1>4. /\ l1 \in Seq(Ixs) /\ Len(l1) = Len(list) + Len(c1)
        /\ \A i \in 1..Len(list) : l1[i] = list[i]
        /\ \A i \in 1..Len(c1) : l1[Len(list) + i] = c1[i]
    <2>1. list \in Seq(Ixs) /\ c1 \in Seq(Ixs)
      BY <1>1, <1>2
    <2> QED
      BY <2>1, Joined
  <1> HIDE DEF l1
  <1>5. /\ l2 \in Seq(Ixs) /\ Len(l2) = Len(l1) + Len(c2)
        /\ \A i \in 1..Len(l1) : l2[i] = l1[i]
        /\ \A i \in 1..Len(c2) : l2[Len(l1) + i] = c2[i]
    <2>1. l1 \in Seq(Ixs) /\ c2 \in Seq(Ixs)
      BY <1>2, <1>4
    <2> QED
      BY <2>1, Joined
  <1>6. Len(list) \in Nat /\ Len(c1) \in Nat /\ Len(c2) \in Nat
    BY <1>1, <1>2
  <1> HIDE DEF l2
  <1>7. Len(l2) >= Len(list)
    BY <1>4, <1>5, <1>6
  <1>8. \A i \in 1..Len(list) : l2[i] = list[i]
    BY <1>4, <1>5, <1>6
  <1>9. \A i \in (Len(list) + 1)..Len(l2) : l2[i].does = "cleanup"
    <2> SUFFICES ASSUME NEW i \in (Len(list) + 1)..Len(l2)
                 PROVE  l2[i].does = "cleanup"
      OBVIOUS
    <2>1. CASE i <= Len(l1)
      <3>1. i - Len(list) \in 1..Len(c1) /\ Len(list) + (i - Len(list)) = i /\ i \in 1..Len(l1)
        BY <1>4, <1>6, <2>1
      <3>2. l2[i] = l1[i]
        BY <1>5, <3>1
      <3>3. l1[i] = c1[i - Len(list)]
        BY <1>4, <3>1
      <3> QED
        BY <1>2, <3>1, <3>2, <3>3
    <2>2. CASE i > Len(l1)
      <3>1. i - Len(l1) \in 1..Len(c2) /\ Len(l1) + (i - Len(l1)) = i
        BY <1>4, <1>5, <1>6, <2>2
      <3> QED
        BY <1>2, <1>5, <3>1
    <2> QED
      BY <1>4, <1>6, <2>1, <2>2
  <1> QED
    BY <1>3, <1>5, <1>7, <1>8, <1>9 DEF list

(* What stands where in the transaction.                                   *)
LEMMA TransactionShape ==
  ASSUME NEW b \in Responses, NEW s \in Responses, NEW tip \in Lamports
  PROVE  LET t == Transaction(b, s, tip)
             e == b.setups + s.setups + 6
         IN  /\ b.setups \in Nat /\ s.setups \in Nat
             /\ \E len \in Nat : len >= e /\ DOMAIN t = 1..len
             /\ t[1].does = "createAta"
             /\ t[2].does = "start" /\ t[2].data = e - 1
             /\ \A i \in 3..(e - 3) : i # b.setups + 3 => t[i].does = "setup"
             /\ t[b.setups + 3].does = "swap" /\ t[b.setups + 3].from = "buy"
             /\ t[e - 2].does = "swap" /\ t[e - 2].from = "sell"
             /\ t[e - 1].does = "tip" /\ t[e - 1].data = tip
             /\ t[e].does = "end"
             /\ \A i \in DOMAIN t : i > e => t[i].does = "cleanup"
  <1> DEFINE m == b.setups
             n == s.setups
             l == Assembled(b, s, tip)
             t == Transaction(b, s, tip)
             k == Len(l)
  <1>0. m \in Nat /\ n \in Nat
    BY DEF Responses
  <1>15. Len(ToEnd(b, s, tip)) = m + n + 6
    BY ToEndShape
  <1>1. l \in Seq(Ixs) /\ k >= m + n + 6
    BY <1>15, AssembledShape
  <1>2. /\ l[1] = Ix("loan", "createAta") /\ l[2] = StartIx
        /\ \A i \in 3..(m + 2) : l[i] = Ix("buy", "setup")
        /\ l[m + 3] = Ix("buy", "swap")
        /\ \A i \in (m + 4)..(m + n + 3) : l[i] = Ix("sell", "setup")
        /\ l[m + n + 4] = Ix("sell", "swap")
        /\ l[m + n + 5] = TipIx(tip)
        /\ l[m + n + 6] = EndIx
    <2>1. \A i \in 1..(m + n + 6) : l[i] = ToEnd(b, s, tip)[i]
      BY <1>15, AssembledShape
    <2>2. /\ \A i \in 3..(m + 2) : i \in 1..(m + n + 6)
          /\ \A i \in (m + 4)..(m + n + 3) : i \in 1..(m + n + 6)
          /\ {1, 2, m + 3, m + n + 4, m + n + 5, m + n + 6} \subseteq 1..(m + n + 6)
      BY <1>0
    <2> DEFINE list == ToEnd(b, s, tip)
    <2>3. /\ list[1] = Ix("loan", "createAta") /\ list[2] = StartIx
          /\ \A i \in 3..(m + 2) : list[i] = Ix("buy", "setup")
          /\ list[m + 3] = Ix("buy", "swap")
          /\ \A i \in (m + 4)..(m + n + 3) : list[i] = Ix("sell", "setup")
          /\ list[m + n + 4] = Ix("sell", "swap")
          /\ list[m + n + 5] = TipIx(tip)
          /\ list[m + n + 6] = EndIx
      BY ToEndShape
    <2> HIDE DEF m, n, l, list
    <2>4. \A i \in 1..(m + n + 6) : l[i] = list[i]
      BY <2>1 DEF list
    <2> QED
      BY <2>2, <2>3, <2>4
  <1>3. \A i \in (m + n + 7)..k : l[i].does = "cleanup"
    <2>1. m + n + 6 + 1 = m + n + 7
      BY <1>0
    <2> QED
      BY <1>15, <2>1, AssembledShape
  <1>4. StartIxPos = 1
    BY DEF StartIxPos, ToStart, SetupIxs
  <1>5. EndIxPos(b, s, tip) = m + n + 5
    BY <1>0, <1>15 DEF EndIxPos
  <1>6. t = [l EXCEPT ![2].data = m + n + 5]
    BY <1>4, <1>5 DEF Transaction
  <1> HIDE DEF m, n, l, t
  <1>7. DOMAIN t = 1..k /\ k \in Nat
    BY <1>1, <1>6
  <1>8. \A i \in 1..k : i # 2 => t[i] = l[i]
    BY <1>1, <1>6
  <1>9. t[2] = [StartIx EXCEPT !.data = m + n + 5]
    BY <1>0, <1>1, <1>2, <1>6
  <1>10. t[2].does = "start" /\ t[2].data = m + n + 5
    BY <1>9 DEF StartIx, Ix
  <1>11. /\ t[1] = l[1] /\ t[m + 3] = l[m + 3]
         /\ t[m + n + 4] = l[m + n + 4] /\ t[m + n + 5] = l[m + n + 5]
         /\ t[m + n + 6] = l[m + n + 6]
    BY <1>0, <1>1, <1>8
  <1>12. \A i \in 3..(m + n + 3) : i # m + 3 => t[i].does = "setup"
    <2> SUFFICES ASSUME NEW i \in 3..(m + n + 3), i # m + 3
                 PROVE  t[i].does = "setup"
      OBVIOUS
    <2>1. t[i] = l[i]
      BY <1>0, <1>1, <1>8
    <2>2. i \in 3..(m + 2) \/ i \in (m + 4)..(m + n + 3)
      BY <1>0
    <2>3. l[i] = Ix("buy", "setup") \/ l[i] = Ix("sell", "setup")
      BY <1>2, <2>2
    <2> QED
      BY <2>1, <2>3 DEF Ix
  <1>13. \A i \in DOMAIN t : i > m + n + 6 => t[i].does = "cleanup"
    BY <1>0, <1>3, <1>7, <1>8
  <1>14. /\ t[1].does = "createAta"
         /\ t[m + 3].does = "swap" /\ t[m + 3].from = "buy"
         /\ t[m + n + 4].does = "swap" /\ t[m + n + 4].from = "sell"
         /\ t[m + n + 5].does = "tip" /\ t[m + n + 5].data = tip
         /\ t[m + n + 6].does = "end"
    BY <1>2, <1>11 DEF Ix, EndIx, TipIx
  <1> DEFINE e == m + n + 6
  <1>16. e - 1 = m + n + 5 /\ e - 2 = m + n + 4 /\ e - 3 = m + n + 3 /\ e = m + n + 6
    BY <1>0
  <1>17. \E len \in Nat : len >= e /\ DOMAIN t = 1..len
    BY <1>1, <1>7
  <1> HIDE DEF e
  <1>18. /\ \E len \in Nat : len >= e /\ DOMAIN t = 1..len
         /\ t[1].does = "createAta"
         /\ t[2].does = "start" /\ t[2].data = e - 1
         /\ \A i \in 3..(e - 3) : i # m + 3 => t[i].does = "setup"
         /\ t[m + 3].does = "swap" /\ t[m + 3].from = "buy"
         /\ t[e - 2].does = "swap" /\ t[e - 2].from = "sell"
         /\ t[e - 1].does = "tip" /\ t[e - 1].data = tip
         /\ t[e].does = "end"
         /\ \A i \in DOMAIN t : i > e => t[i].does = "cleanup"
    BY <1>10, <1>12, <1>13, <1>14, <1>16, <1>17
  <1> QED
    BY <1>0, <1>18 DEF m, n, t, e

(* Which instruction does what.                                            *)
LEMMA WhereEachIs ==
  ASSUME NEW b \in Responses, NEW s \in Responses, NEW tip \in Lamports
  PROVE  LET t == Transaction(b, s, tip)
             e == b.setups + s.setups + 6
         IN  /\ e \in Nat /\ e >= 6 /\ {2, e} \subseteq DOMAIN t
             /\ b.setups + 3 < e - 2 /\ b.setups + 3 \in Nat
             /\ t[2].data + 1 = e
             /\ Does(t, "start") = {2} /\ Does(t, "end") = {e}
             /\ Does(t, "createAta") = {1}
             /\ Does(t, "tip") = {e - 1} /\ t[e - 1].data = tip
             /\ Does(t, "swap") = {b.setups + 3, e - 2}
             /\ t[b.setups + 3].from = "buy" /\ t[e - 2].from = "sell"
             /\ \A i \in Does(t, "setup") : 2 < i /\ i < e
             /\ \A i \in Does(t, "cleanup") : e < i
  <1> DEFINE m == b.setups
             n == s.setups
             t == Transaction(b, s, tip)
             e == m + n + 6
  <1>1. m \in Nat /\ n \in Nat
    BY TransactionShape
  <1>2. PICK len \in Nat : len >= e /\ DOMAIN t = 1..len
    BY TransactionShape
  <1>3. /\ t[1].does = "createAta"
        /\ t[2].does = "start" /\ t[2].data = e - 1
        /\ \A i \in 3..(e - 3) : i # m + 3 => t[i].does = "setup"
        /\ t[m + 3].does = "swap" /\ t[m + 3].from = "buy"
        /\ t[e - 2].does = "swap" /\ t[e - 2].from = "sell"
        /\ t[e - 1].does = "tip" /\ t[e - 1].data = tip
        /\ t[e].does = "end"
        /\ \A i \in DOMAIN t : i > e => t[i].does = "cleanup"
    BY TransactionShape
  <1> HIDE DEF t
  <1>4. ASSUME NEW i \in DOMAIN t
        PROVE  t[i].does = IF i = 1 THEN "createAta" ELSE IF i = 2 THEN "start"
                           ELSE IF i = m + 3 \/ i = e - 2 THEN "swap"
                           ELSE IF i = e - 1 THEN "tip" ELSE IF i = e THEN "end"
                           ELSE IF i > e THEN "cleanup" ELSE "setup"
    <2>1. \/ i = 1 \/ i = 2 \/ i = m + 3 \/ i = e - 2 \/ i = e - 1 \/ i = e \/ i > e
          \/ i \in 3..(e - 3) /\ i # m + 3
      <3>1. i \in Nat /\ i >= 1 /\ e \in Nat
        BY <1>1, <1>2
      <3> HIDE DEF e
      <3> QED
        BY <3>1
    <2> QED
      BY SMTT(30), <1>1, <1>2, <1>3, <2>1
  <1>5. /\ e \in Nat /\ e >= 6 /\ {1, 2, m + 3, e - 2, e - 1, e} \subseteq DOMAIN t
        /\ m + 3 < e - 2 /\ m + 3 \in Nat
    BY SMTT(30), <1>1, <1>2
  <1>6. t[2].data + 1 = e
    BY <1>3, <1>5
  <1> HIDE DEF e
  <1>7. Does(t, "start") = {2}
    BY <1>4, <1>5 DEF Does
  <1>8. Does(t, "end") = {e}
    BY <1>4, <1>5 DEF Does
  <1>9. Does(t, "createAta") = {1}
    BY <1>4, <1>5 DEF Does
  <1>10. Does(t, "tip") = {e - 1}
    BY <1>4, <1>5 DEF Does
  <1>11. Does(t, "swap") = {m + 3, e - 2}
    <2>1. \A i \in DOMAIN t : t[i].does = "swap" => i = m + 3 \/ i = e - 2
      BY <1>4
    <2>2. t[m + 3].does = "swap" /\ t[e - 2].does = "swap"
      BY <1>3
    <2>3. m + 3 \in DOMAIN t /\ e - 2 \in DOMAIN t
      BY <1>5
    <2> HIDE DEF m
    <2> QED
      BY <2>1, <2>2, <2>3 DEF Does
  <1>12. \A i \in DOMAIN t : i \in Nat \ {0}
    BY <1>2
  <1>13. \A i \in Does(t, "setup") : 2 < i /\ i < e
    BY <1>4, <1>5, <1>12 DEF Does
  <1>14. \A i \in Does(t, "cleanup") : e < i
    BY <1>4, <1>5, <1>12 DEF Does
  <1> QED
    BY <1>3, <1>5, <1>6, <1>7, <1>8, <1>9, <1>10, <1>11, <1>13, <1>14 DEF m, n, t, e

(* The index patched into start is that of end, for any answers            *)
(* (src/executor/mod.rs:141-157).                                          *)
THEOREM EndFound ==
  ASSUME NEW b \in Responses, NEW s \in Responses, NEW tip \in Lamports
  PROVE  EndIsFound(Transaction(b, s, tip))
  BY WhereEachIs DEF EndIsFound

(* Setup, swaps and tip are inside the loan, for any answers               *)
(* (src/executor/mod.rs:111-152).                                          *)
THEOREM TradeEnclosed ==
  ASSUME NEW b \in Responses, NEW s \in Responses, NEW tip \in Lamports
  PROVE  LoanEnclosesTrade(Transaction(b, s, tip))
  <1> DEFINE t == Transaction(b, s, tip)
             p == b.setups + 3
             e == b.setups + s.setups + 6
  <1>1. /\ e \in Nat /\ e >= 6 /\ p \in Nat /\ p < e - 2
        /\ Does(t, "start") = {2} /\ Does(t, "end") = {e}
        /\ Does(t, "createAta") = {1} /\ Does(t, "tip") = {e - 1}
        /\ Does(t, "swap") = {p, e - 2}
        /\ t[p].from = "buy" /\ t[e - 2].from = "sell"
        /\ \A i \in Does(t, "setup") : 2 < i /\ i < e
        /\ \A i \in Does(t, "cleanup") : e < i
    BY WhereEachIs
  <1>2. p > 2
    BY DEF Responses
  <1> HIDE DEF t, p, e
  <1>3. \A i \in Does(t, "setup") \cup Does(t, "swap") \cup Does(t, "tip") : 2 < i /\ i < e
    BY <1>1, <1>2
  <1>4. \A i, j \in Does(t, "swap") : t[i].from = "buy" /\ t[j].from = "sell" => i < j
    BY <1>1
  <1>5. /\ 2 < e
        /\ \A i \in Does(t, "createAta") : i < 2
        /\ \A i, j \in Does(t, "tip") : i = j
    BY <1>1
  <1>6. LoanEnclosesTrade(t)
    BY <1>1, <1>3, <1>4, <1>5 DEF LoanEnclosesTrade
  <1> QED
    BY <1>6 DEF t

-----------------------------------------------------------------------------
(* What holds of an execution task at each step.  TradePays is not         *)
(* inductive without the amounts being words and the first answer being    *)
(* one of Jupiter's.                                                       *)
IInv ==
  /\ loan \in Words /\ minOut \in Words
  /\ pc = "sellIx" => buy \in Answers
  /\ EstimateIsExact /\ TradePays /\ PatchedIndexIsEnd /\ TradeInsideLoan

LEMMA ProfitIsInt ==
  ASSUME loan \in Words, minOut \in Words
  PROVE  Profit \in Int
  <1>1. U64 \in Nat /\ U64 \div 2 \in Int /\ TxCost \in Int /\ U64 > 0
    BY WordAssumption
  <1>2. AsI64(minOut) \in Int /\ AsI64(loan) \in Int
    BY <1>1 DEF AsI64, Words
  <1>3. \A x \in Int : x % U64 \in Int
    BY <1>1
  <1>4. \A x \in Int : WrapI64(x) \in Int
    BY <1>1, <1>3 DEF WrapI64
  <1> QED
    BY <1>1, <1>2, <1>4 DEF Profit, EstimateProfit

LEMMA InitIInv == Init => IInv
  <1> SUFFICES ASSUME Init PROVE IInv
    OBVIOUS
  <1>1. loan \in Nat /\ minOut \in Nat
    BY WordAssumption DEF Init, Words
  <1>2. EstimateIsExact
    BY <1>1, EstimateExact DEF EstimateIsExact
  <1> QED
    BY <1>2 DEF Init, IInv, TradePays, PatchedIndexIsEnd, TradeInsideLoan

(* The only step that builds a transaction.                                *)
LEMMA BuildKeepsIInv ==
  ASSUME IInv, NEW sell \in Answers, Build(sell)
  PROVE  IInv'
  <1>1. /\ loan' = loan /\ minOut' = minOut /\ buy' = buy /\ pc' = "built"
        /\ tx' = Transaction(buy, sell, DynamicJitoTip(Profit))
        /\ Profit > 0 /\ ~TipPanics(Profit)
    BY DEF Build
  <1>2. buy \in Responses /\ sell \in Responses
    BY AnswerAssumption DEF IInv, Build
  <1>3. Profit \in Int /\ DynamicJitoTip(Profit) >= MinTip /\ 2 * DynamicJitoTip(Profit) <= Profit
    <2>1. Profit \in Int
      BY ProfitIsInt DEF IInv
    <2>2. TipLeavesHalf(Profit)
      BY <2>1, TipBounds
    <2> QED
      BY <1>1, <2>1, <2>2 DEF TipLeavesHalf
  <1> DEFINE d == DynamicJitoTip(Profit)
  <1>4. d \in Int /\ d \in Lamports
    <2>1. Profit * TipFraction \in Int /\ U64 - 1 \in Int
      BY <1>3, TipAssumption, WordAssumption
    <2>2. \A n \in Int : n \div TipScale \in Int
      BY TipAssumption
    <2>3. RawTip(Profit) \in Int
      BY <2>1, <2>2 DEF RawTip
    <2>4. Profit \div 2 \in Int /\ MinTip \in Int
      BY <1>3, TipAssumption
    <2> QED
      BY <2>3, <2>4 DEF DynamicJitoTip, Lamports
  <1>8. d >= MinTip /\ 2 * d <= Profit /\ tx' = Transaction(buy, sell, d)
    BY <1>1, <1>3
  <1> HIDE DEF d
  <1>9. TradePays'
    <2> SUFFICES ASSUME Fits
                 PROVE  /\ Does(tx', "tip") # {}
                        /\ \A i \in Does(tx', "tip") :
                             /\ tx'[i].data >= MinTip
                             /\ loan + TxCost + 2 * tx'[i].data <= minOut
      BY <1>1 DEF TradePays, Fits, Does
    <2>1. Profit = minOut - loan - TxCost
      BY DEF IInv, EstimateIsExact, ProfitExact, Fits, Profit
    <2>2. loan \in Int /\ minOut \in Int /\ TxCost \in Int
      BY WordAssumption DEF IInv, Words
    <2>3. loan + TxCost + 2 * d <= minOut
      BY <1>4, <1>8, <2>1, <2>2
    <2>4. \E e : Does(tx', "tip") = {e} /\ tx'[e].data = d
      BY <1>2, <1>4, <1>8, WhereEachIs
    <2> QED
      BY <1>8, <2>3, <2>4
  <1>5. PatchedIndexIsEnd'
    BY <1>1, <1>2, <1>4, <1>8, EndFound DEF PatchedIndexIsEnd
  <1>6. TradeInsideLoan'
    BY <1>1, <1>2, <1>4, <1>8, TradeEnclosed DEF TradeInsideLoan
  <1>7. EstimateIsExact'
    BY <1>1 DEF IInv, EstimateIsExact
  <1> QED
    BY <1>1, <1>5, <1>6, <1>7, <1>9 DEF IInv

LEMMA NextIInv == IInv /\ [Next]_vars => IInv'
  <1> SUFFICES ASSUME IInv, [Next]_vars PROVE IInv'
    OBVIOUS
  <1> USE DEF IInv, EstimateIsExact, TradePays, PatchedIndexIsEnd, TradeInsideLoan, Fits
  <1>1. CASE BuyArrives
    BY <1>1 DEF BuyArrives
  <1>2. CASE GivesUp
    BY <1>2 DEF GivesUp
  <1>3. CASE NotProfitable
    BY <1>3 DEF NotProfitable
  <1>4. CASE TipPanic
    BY <1>4 DEF TipPanic
  <1>5. CASE \E sell \in Answers : Build(sell)
    BY <1>5, BuildKeepsIInv
  <1>6. CASE Over
    BY <1>6 DEF Over, vars
  <1>7. CASE UNCHANGED vars
    BY <1>7 DEF vars
  <1> QED
    BY <1>1, <1>2, <1>3, <1>4, <1>5, <1>6, <1>7 DEF Next

THEOREM IInvHolds == Spec => []IInv
  BY InitIInv, NextIInv, PTL DEF Spec

(* The estimate a task computes is exact where amounts fit                 *)
(* (src/jupiter/mod.rs:171-172).                                           *)
THEOREM EstimatesExact == Spec => []EstimateIsExact
  <1>1. IInv => EstimateIsExact
    BY DEF IInv
  <1> QED
    BY <1>1, IInvHolds, PTL

(* Every transaction that is built pays for itself and for the tip its tip *)
(* instruction transfers, for every word, cost, fraction and minimum tip,  *)
(* where amounts fit (src/executor/mod.rs:131-139).                        *)
THEOREM TransactionsPay == Spec => []TradePays
  <1>1. IInv => TradePays
    BY DEF IInv
  <1> QED
    BY <1>1, IInvHolds, PTL

(* MarginFi finds end in every transaction that is built                   *)
(* (src/executor/mod.rs:154-157).                                          *)
THEOREM IndexCorrect == Spec => []PatchedIndexIsEnd
  <1>1. IInv => PatchedIndexIsEnd
    BY DEF IInv
  <1> QED
    BY <1>1, IInvHolds, PTL

(* No transaction moves money outside its loan                             *)
(* (src/executor/mod.rs:111-152).                                          *)
THEOREM LoanCorrect == Spec => []TradeInsideLoan
  <1>1. IInv => TradeInsideLoan
    BY DEF IInv
  <1> QED
    BY <1>1, IInvHolds, PTL

=============================================================================
