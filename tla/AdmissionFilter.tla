-------------------------- MODULE AdmissionFilter --------------------------
(***************************************************************************)
(* What the front of the scanner promises, without its ring buffer: which  *)
(* events may be admitted, given everything admitted before.               *)
(*                                                                         *)
(*   - admitted : the sequence of events admitted so far, oldest first;    *)
(*                an event is a record with a token and a slot.            *)
(*                                                                         *)
(* Scanner implements this specification with a buffer of RecentCap keys.  *)
(***************************************************************************)
EXTENDS Integers, Sequences, Money

CONSTANTS
  Tokens,       \* accounts an event can name
  Slots,        \* slots an event can carry
  RecentCap,    \* capacity of recent_keys: 32 in the code
  DedupSlots,   \* width of the duplicate window in slots: 5 in the code
  MaxAge        \* config.max_opportunity_age_slots

ASSUME FilterAssumption ==
  /\ Slots \subseteq Nat
  /\ RecentCap \in Nat \ {0}
  /\ DedupSlots \in Nat \ {0}
  /\ MaxAge \in Nat

VARIABLE admitted

Events == [token : Tokens, slot : Slots]

(* Positions of the last RecentCap admissions.                             *)
Recent == {i \in DOMAIN admitted : i > Len(admitted) - RecentCap}

(* Mutant of Spaced: the window is one slot short.                         *)
Spaced_ShortWindow(e) ==
  \A i \in Recent : admitted[i].token = e.token
                      => e.slot + 1 >= admitted[i].slot + DedupSlots

(* No recent admission of the same token less than DedupSlots older (or    *)
(* newer: an event older than the recorded one counts as a duplicate).     *)
Spaced(e) ==
  \A i \in Recent : admitted[i].token = e.token
                      => e.slot >= admitted[i].slot + DedupSlots

(* Mutant of NotStale: compares with the first admission.                  *)
NotStale_AgainstFirst(e) ==
  admitted # << >> => admitted[1].slot <= AddU64(e.slot, MaxAge)

(* Not older than the last admission by more than MaxAge.                  *)
NotStale(e) ==
  admitted # << >> => admitted[Len(admitted)].slot <= AddU64(e.slot, MaxAge)

Admit(e) ==
  /\ Spaced(e)
  /\ NotStale(e)
  /\ admitted' = Append(admitted, e)

Init == admitted = << >>

Next == \E e \in Events : Admit(e)

Spec == Init /\ [][Next]_admitted

-----------------------------------------------------------------------------
TypeOK == admitted \in Seq(Events)

(* Two admissions of one token are at least DedupSlots slots apart, in     *)
(* order, or at least RecentCap events were admitted from the first to the *)
(* second (src/scanner/mod.rs:31-36, 71-81): the window can be outrun by   *)
(* many tokens but by nothing else.                                        *)
DedupSpacing ==
  \A i, j \in DOMAIN admitted :
    /\ i < j
    /\ j <= i + RecentCap
    /\ admitted[i].token = admitted[j].token
    => admitted[j].slot >= admitted[i].slot + DedupSlots

(* The age check compares with the last admission only, so slots can drift *)
(* backwards from one admission to the next, but never by more than MaxAge *)
(* each time (src/scanner/mod.rs:63-68).                                   *)
DriftBounded ==
  \A i, j \in DOMAIN admitted :
    i < j => admitted[i].slot <= admitted[j].slot + (j - i) * MaxAge

=============================================================================
