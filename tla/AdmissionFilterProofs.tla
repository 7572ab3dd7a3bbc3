----------------------- MODULE AdmissionFilterProofs -----------------------
(***************************************************************************)
(* Proofs about AdmissionFilter, for every value of its constants.         *)
(***************************************************************************)
EXTENDS AdmissionFilter, TLAPS

LEMMA AdmitStep ==
  ASSUME TypeOK, NEW e \in Events, Admit(e)
  PROVE  /\ admitted' \in Seq(Events)
         /\ Len(admitted) \in Nat
         /\ Len(admitted') = Len(admitted) + 1
         /\ admitted'[Len(admitted) + 1] = e
         /\ \A i \in 1..Len(admitted) : admitted'[i] = admitted[i]
  BY DEF TypeOK, Admit

LEMMA TypeStep == TypeOK /\ [Next]_admitted => TypeOK'
  <1>1. ASSUME TypeOK, NEW e \in Events, Admit(e) PROVE TypeOK'
    BY <1>1, AdmitStep DEF TypeOK
  <1> QED
    BY <1>1 DEF Next, TypeOK

(* The history is a sequence of events.                                    *)
THEOREM TypeCorrect == Spec => []TypeOK
  <1>1. Init => TypeOK
    BY DEF Init, TypeOK
  <1> QED
    BY <1>1, TypeStep, PTL DEF Spec

-----------------------------------------------------------------------------
LEMMA SlotsNat == \A e \in Events : e.slot \in Nat
  BY FilterAssumption DEF Events

(* The new admission is the only one to check: an admission less than      *)
(* RecentCap positions back is among the recent ones Spaced looks at.      *)
LEMMA SpacingStep ==
  ASSUME TypeOK, DedupSpacing, NEW e \in Events, Admit(e)
  PROVE  DedupSpacing'
  <1> DEFINE n == Len(admitted)
  <1>1. /\ n \in Nat /\ RecentCap \in Nat
        /\ DOMAIN admitted = 1..n /\ DOMAIN admitted' = 1..(n + 1)
    BY AdmitStep, FilterAssumption DEF TypeOK
  <1> SUFFICES ASSUME NEW i \in 1..(n + 1), NEW j \in 1..(n + 1),
                      i < j, j <= i + RecentCap,
                      admitted'[i].token = admitted'[j].token
               PROVE  admitted'[j].slot >= admitted'[i].slot + DedupSlots
    BY <1>1 DEF DedupSpacing
  <1>2. i \in 1..n /\ admitted'[i] = admitted[i]
    BY <1>1, AdmitStep
  <1>3. CASE j \in 1..n
    BY <1>1, <1>2, <1>3, AdmitStep DEF DedupSpacing
  <1>4. CASE j = n + 1
    <2>1. i \in Recent
      BY <1>1, <1>2, <1>4 DEF Recent
    <2>2. admitted'[j] = e
      BY <1>4, AdmitStep
    <2> QED
      BY <1>2, <2>1, <2>2 DEF Admit, Spaced
  <1> QED
    BY <1>1, <1>3, <1>4

(* Two admissions of a token within RecentCap admissions of each other are *)
(* in slot order and at least DedupSlots slots apart: the duplicate check  *)
(* of src/scanner/mod.rs:70-81 for every stream of events.                 *)
THEOREM Spacing == Spec => []DedupSpacing
  <1>1. Init => DedupSpacing
    BY DEF Init, DedupSpacing
  <1>2. TypeOK /\ DedupSpacing /\ [Next]_admitted => DedupSpacing'
    <2>1. ASSUME TypeOK, DedupSpacing, NEW e \in Events, Admit(e) PROVE DedupSpacing'
      BY <2>1, SpacingStep
    <2>2. ASSUME DedupSpacing, UNCHANGED admitted PROVE DedupSpacing'
      BY <2>2 DEF DedupSpacing
    <2> QED
      BY <2>1, <2>2 DEF Next
  <1> QED
    BY <1>1, <1>2, TypeCorrect, PTL DEF Spec

-----------------------------------------------------------------------------
(* The age check adds MaxAge to a slot on u64.                             *)
NoWrap == \A s \in Slots : s + MaxAge < U64

LEMMA AddExact ==
  ASSUME NoWrap, NEW s \in Slots
  PROVE  AddU64(s, MaxAge) = s + MaxAge
  <1>1. s + MaxAge \in Nat /\ U64 \in Nat /\ s + MaxAge < U64
    BY FilterAssumption, WordAssumption DEF NoWrap
  <1> QED
    BY <1>1 DEF AddU64

LEMMA Distribute ==
  ASSUME NEW k \in Nat, NEW m \in Nat
  PROVE  (k + 1) * m = k * m + m
  OBVIOUS

LEMMA DriftStep ==
  ASSUME NoWrap, TypeOK, DriftBounded, NEW e \in Events, Admit(e)
  PROVE  DriftBounded'
  <1> DEFINE n == Len(admitted)
  <1>1. /\ n \in Nat /\ MaxAge \in Nat
        /\ DOMAIN admitted = 1..n /\ DOMAIN admitted' = 1..(n + 1)
    BY AdmitStep, FilterAssumption DEF TypeOK
  <1> SUFFICES ASSUME NEW i \in 1..(n + 1), NEW j \in 1..(n + 1), i < j
               PROVE  admitted'[i].slot <= admitted'[j].slot + (j - i) * MaxAge
    BY <1>1 DEF DriftBounded
  <1>2. i \in 1..n /\ admitted'[i] = admitted[i]
    BY <1>1, AdmitStep
  <1>3. CASE j \in 1..n
    BY <1>1, <1>2, <1>3, AdmitStep DEF DriftBounded
  <1>4. CASE j = n + 1
    <2>1. admitted'[j] = e /\ n \in 1..n
      BY <1>1, <1>2, <1>4, AdmitStep
    <2>2. e.slot \in Slots /\ AddU64(e.slot, MaxAge) = e.slot + MaxAge
      BY AddExact DEF Events
    <2>3. admitted[n].slot <= e.slot + MaxAge
      BY <2>1, <2>2 DEF Admit, NotStale
    <2>4. /\ e.slot \in Nat /\ admitted[n].slot \in Nat /\ admitted[i].slot \in Nat
          /\ n - i \in Nat
      BY <1>1, <1>2, <2>1, SlotsNat DEF TypeOK
    <2>5. admitted[i].slot <= admitted[n].slot + (n - i) * MaxAge
      <3>1. CASE i = n
        BY <1>1, <2>4, <3>1
      <3>2. CASE i < n
        BY <1>1, <1>2, <2>1, <3>2 DEF DriftBounded
      <3> QED
        BY <1>1, <1>2, <3>1, <3>2
    <2>6. (j - i) * MaxAge = (n - i) * MaxAge + MaxAge
      BY <1>1, <1>4, <2>4, Distribute
    <2>7. (n - i) * MaxAge \in Nat
      BY <1>1, <2>4
    <2> QED
      BY <1>1, <1>2, <2>1, <2>3, <2>4, <2>5, <2>6, <2>7
  <1> QED
    BY <1>1, <1>3, <1>4

(* With no wrap-around in the sum of src/scanner/mod.rs:64, admitted slots *)
(* go backwards by at most MaxAge per admission.  AdmittedFresh of Scanner *)
(* fails because nothing better holds.                                     *)
THEOREM Drift ==
  ASSUME NoWrap
  PROVE  Spec => []DriftBounded
  <1>1. Init => DriftBounded
    BY DEF Init, DriftBounded
  <1>2. TypeOK /\ DriftBounded /\ [Next]_admitted => DriftBounded'
    <2>1. ASSUME TypeOK, DriftBounded, NEW e \in Events, Admit(e) PROVE DriftBounded'
      BY <2>1, DriftStep
    <2>2. ASSUME DriftBounded, UNCHANGED admitted PROVE DriftBounded'
      BY <2>2 DEF DriftBounded
    <2> QED
      BY <2>1, <2>2 DEF Next
  <1> QED
    BY <1>1, <1>2, TypeCorrect, PTL DEF Spec

=============================================================================
