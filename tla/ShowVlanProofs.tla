--------------------------- MODULE ShowVlanProofs ---------------------------
(***************************************************************************)
(* show_vlan prints exactly the VLANs of any sorted vector, as maximal     *)
(* ranges and without overflow, whatever u16::MAX is.                      *)
(***************************************************************************)
EXTENDS ShowVlan, SequenceTheorems, TLAPS

IInv == TypeOK /\ LoopInv /\ Maximal

\* What the vectors satisfy, element by element.
LEMMA ListFacts ==
    ASSUME NEW s \in Lists
    PROVE  /\ Len(s) \in Nat
           /\ \A k \in 1 .. Len(s) : s[k] \in Vlan
           /\ \A k, l \in 1 .. Len(s) : k < l => s[k] < s[l]
<1>1. s \in Seq(Vlan)
  BY ListsAssumption
<1>2. Len(s) \in Nat /\ \A k \in 1 .. Len(s) : s[k] \in Vlan
  BY <1>1, LenProperties, ElementOfSeq
<1>3. QED
  BY <1>2, ListsAssumption

\* Between two elements end + 1 does not wrap.
LEMMA SuccExact ==
    ASSUME NEW x \in Vlan, NEW y \in Vlan, x < y
    PROVE  x < MaxVlan /\ Succ(x) = x + 1
<1>1. x \in Nat /\ y \in Nat /\ y <= MaxVlan /\ MaxVlan \in Nat
  BY MaxAssumption DEF Vlan
<1>2. x + 1 \in 0 .. MaxVlan /\ x < MaxVlan
  BY <1>1
<1>3. \A B \in Nat \ {0} : \A z \in 0 .. B - 1 : z % B = z
  BY SMT
<1>4. x + 1 \in 0 .. (MaxVlan + 1) - 1 /\ MaxVlan + 1 \in Nat \ {0}
  BY <1>1, <1>2
<1>5. QED
  BY <1>2, <1>3, <1>4, Zenon DEF Succ

LEMMA InitInv == Init => IInv
<1> SUFFICES ASSUME Init PROVE IInv
  OBVIOUS
<1>1. Len(vlans) \in Nat /\ vlans \in Lists
  BY ListFacts DEF Init
<1>2. TypeOK
  BY <1>1 DEF TypeOK, Init
<1>3. text = <<>> /\ Len(text) = 0 /\ i = 1 /\ start = 1
  BY DEF Init
<1>4. \A v \in Vlan : Printed(v) <=> Among(v, start - 1)
  BY <1>3 DEF Printed, Among
<1>5. pc = "done" => i = Len(vlans) + 1
  BY DEF Init
<1>6. LoopInv
  BY <1>3, <1>4, <1>5 DEF LoopInv
<1>7. Maximal
  BY <1>3 DEF Maximal
<1>8. QED
  BY <1>2, <1>6, <1>7 DEF IInv

LEMMA ExtendInv == IInv /\ Extend => IInv'
<1> SUFFICES ASSUME IInv, Extend PROVE IInv'
  OBVIOUS
<1>1. /\ vlans \in Lists /\ i \in 1 .. Len(vlans) + 1 /\ start \in 1 .. i
      /\ pc = "loop" /\ i <= Len(vlans) /\ ~Ends
      /\ i' = i + 1 /\ UNCHANGED <<vlans, start, text, pc>>
  BY DEF IInv, TypeOK, Extend
<1>2. /\ Len(vlans) \in Nat
      /\ \A k \in 1 .. Len(vlans) : vlans[k] \in Vlan
      /\ \A k, l \in 1 .. Len(vlans) : k < l => vlans[k] < vlans[l]
  BY <1>1, ListFacts
<1>3. i < Len(vlans) /\ vlans[i + 1] = vlans[i] + 1
  <2>1. i < Len(vlans) /\ vlans[i + 1] = Succ(vlans[i])
    BY <1>1 DEF Ends
  <2>2. i \in 1 .. Len(vlans) /\ i + 1 \in 1 .. Len(vlans) /\ i < i + 1
    BY <1>1, <1>2, <2>1
  <2>3. vlans[i] \in Vlan /\ vlans[i + 1] \in Vlan /\ vlans[i] < vlans[i + 1]
    BY <1>2, <2>2
  <2>4. QED
    BY <2>1, <2>3, SuccExact
<1>4. TypeOK'
  BY <1>1, <1>2, <1>3 DEF IInv, TypeOK
<1>5. \A k \in start .. i + 1 : vlans[k] = vlans[start] + (k - start)
  <2>1. vlans[start] \in Int
    BY <1>1, <1>2, MaxAssumption DEF Vlan
  <2>2. \A k \in start .. i : vlans[k] = vlans[start] + (k - start)
    <3>1. CASE start < i
      BY <3>1 DEF IInv, LoopInv
    <3>2. CASE start = i
      BY <1>1, <2>1, <3>2
    <3>3. QED
      BY <1>1, <3>1, <3>2
  <2>3. vlans[i] = vlans[start] + (i - start)
    BY <1>1, <2>2
  <2>4. vlans[i + 1] = vlans[start] + ((i + 1) - start)
    BY <1>1, <1>3, <2>1, <2>3
  <2>5. \A k \in start .. i + 1 : k \in start .. i \/ k = i + 1
    BY <1>1
  <2>6. QED
    BY <2>2, <2>4, <2>5, Zenon
<1>6. \A v \in Vlan : Printed(v)' <=> Among(v, start - 1)'
  BY <1>1 DEF IInv, LoopInv, Printed, Among
<1>7. LoopInv'
  BY <1>1, <1>2, <1>3, <1>5, <1>6 DEF LoopInv
<1>8. Maximal'
  BY <1>1 DEF IInv, Maximal
<1>9. QED
  BY <1>4, <1>7, <1>8 DEF IInv

LEMMA FlushInv == IInv /\ Flush => IInv'
<1> SUFFICES ASSUME IInv, Flush PROVE IInv'
  OBVIOUS
<1> DEFINE lo == vlans[start]
           hi == vlans[i]
           n  == Len(text)
<1>1. /\ vlans \in Lists /\ i \in 1 .. Len(vlans) + 1 /\ start \in 1 .. i
      /\ pc = "loop" /\ i <= Len(vlans) /\ Ends
      /\ i' = i + 1 /\ start' = i + 1 /\ UNCHANGED <<vlans, pc>>
  BY DEF IInv, TypeOK, Flush
<1>2. /\ Len(vlans) \in Nat
      /\ \A k \in 1 .. Len(vlans) : vlans[k] \in Vlan
      /\ \A k, l \in 1 .. Len(vlans) : k < l => vlans[k] < vlans[l]
  BY <1>1, ListFacts
<1>3. lo \in Vlan /\ hi \in Vlan /\ lo \in Int /\ hi \in Int
  <2>1. start \in 1 .. Len(vlans) /\ i \in 1 .. Len(vlans)
    BY <1>1, <1>2
  <2>2. lo \in Vlan /\ hi \in Vlan
    BY <1>2, <2>1
  <2>3. QED
    BY <2>2, MaxAssumption DEF Vlan
<1>4. text' = Append(text, <<lo, hi>>) /\ text \in Seq(Vlan \X Vlan)
  BY DEF Flush, IInv, TypeOK
<1>5. <<lo, hi>> \in Vlan \X Vlan
  BY <1>3
<1>6. \A k \in start .. i : vlans[k] = lo + (k - start)
  <2>1. CASE start < i
    BY <2>1 DEF IInv, LoopInv
  <2>2. CASE start = i
    BY <1>1, <1>3, <2>2
  <2>3. QED
    BY <1>1, <2>1, <2>2
<1> HIDE DEF lo, hi
<1>7. /\ n \in Nat /\ text' \in Seq(Vlan \X Vlan) /\ Len(text') = n + 1
      /\ \A k \in 1 .. n : text'[k] = text[k]
      /\ text'[n + 1] = <<lo, hi>>
  BY <1>4, <1>5, AppendProperties, LenProperties
<1>8. TypeOK'
  BY <1>1, <1>2, <1>7 DEF TypeOK
<1>9. hi = lo + (i - start) /\ lo <= hi
  <2>1. i \in start .. i /\ vlans[i] = hi
    BY <1>1 DEF hi
  <2>2. hi = lo + (i - start)
    BY <1>6, <2>1
  <2>3. QED
    BY <1>1, <1>3, <2>2
<1>10. ASSUME NEW v \in Vlan
       PROVE  (lo <= v /\ v <= hi) <=> \E k \in start .. i : vlans[k] = v
  <2>1. v \in Int
    BY MaxAssumption DEF Vlan
  <2>2. ASSUME lo <= v, v <= hi PROVE \E k \in start .. i : vlans[k] = v
    <3>1. start + (v - lo) \in start .. i
      BY <1>1, <1>3, <1>9, <2>1, <2>2
    <3>2. vlans[start + (v - lo)] = lo + ((start + (v - lo)) - start)
      BY <1>6, <3>1
    <3>3. lo + ((start + (v - lo)) - start) = v
      BY <1>1, <1>3, <2>1
    <3>4. QED
      BY <3>1, <3>2, <3>3
  <2>3. ASSUME NEW k \in start .. i, vlans[k] = v PROVE lo <= v /\ v <= hi
    <3>1. v = lo + (k - start)
      BY <1>6, <2>3
    <3>2. QED
      BY <1>1, <1>3, <1>9, <3>1
  <2>4. QED
    BY <2>2, <2>3
<1>11. ASSUME NEW v \in Vlan PROVE Printed(v)' <=> Among(v, start - 1)'
  <2>1. Printed(v)' <=> Printed(v) \/ (lo <= v /\ v <= hi)
    <3>1. Printed(v)' <=> \E k \in 1 .. n + 1 : text'[k][1] <= v /\ v <= text'[k][2]
      BY <1>7 DEF Printed
    <3>2. \A k : k \in 1 .. n + 1 <=> k \in 1 .. n \/ k = n + 1
      BY <1>7
    <3>3. text'[n + 1][1] = lo /\ text'[n + 1][2] = hi
      BY <1>7
    <3>4. Printed(v)' <=> \/ \E k \in 1 .. n : text'[k][1] <= v /\ v <= text'[k][2]
                          \/ text'[n + 1][1] <= v /\ v <= text'[n + 1][2]
      BY <3>1, <3>2, Zenon
    <3>5. QED
      BY <1>7, <3>3, <3>4, Zenon DEF Printed
  <2>2. Printed(v) <=> Among(v, start - 1)
    BY DEF IInv, LoopInv
  <2>3. Among(v, start - 1)' <=> Among(v, start - 1) \/ \E k \in start .. i : vlans[k] = v
    <3>1. (start - 1)' = i /\ vlans' = vlans
      BY <1>1
    <3>2. \A k : k \in 1 .. i <=> k \in 1 .. start - 1 \/ k \in start .. i
      BY <1>1
    <3>3. QED
      BY <3>1, <3>2, Zenon DEF Among
  <2>4. QED
    BY <1>10, <2>1, <2>2, <2>3
<1>12. LoopInv'
  BY <1>1, <1>11 DEF LoopInv
<1>13. /\ \A k \in 1 .. n - 1 : text[k][2] + 1 < text[k + 1][1]
       /\ \A k \in 1 .. n : text[k][1] <= text[k][2]
       /\ n > 0 => text[n][2] + 1 < lo
  BY <1>1, <1>2 DEF IInv, Maximal, lo
<1>14. start' <= Len(vlans') => hi + 1 < vlans[i + 1]
  <2> SUFFICES ASSUME i + 1 <= Len(vlans) PROVE hi + 1 < vlans[i + 1]
    BY <1>1
  <2>1. i \in 1 .. Len(vlans) /\ i + 1 \in 1 .. Len(vlans) /\ i < i + 1 /\ i < Len(vlans)
    BY <1>1, <1>2
  <2>2. hi < vlans[i + 1] /\ vlans[i + 1] \in Vlan
    BY <1>2, <2>1 DEF hi
  <2>3. vlans[i + 1] # Succ(hi)
    BY <1>1, <2>1 DEF Ends, hi
  <2>4. Succ(hi) = hi + 1
    BY <1>3, <2>2, SuccExact
  <2>5. vlans[i + 1] \in Int
    BY <2>2, MaxAssumption DEF Vlan
  <2>6. QED
    BY <1>3, <2>2, <2>3, <2>4, <2>5
<1>15. Maximal'
  <2>1. \A k \in 1 .. Len(text') - 1 : text'[k][2] + 1 < text'[k + 1][1]
    <3> SUFFICES ASSUME NEW k \in 1 .. n PROVE text'[k][2] + 1 < text'[k + 1][1]
      BY <1>7
    <3>1. CASE k = n
      BY <1>7, <1>13, <3>1
    <3>2. CASE k # n
      <4>1. k \in 1 .. n - 1 /\ k + 1 \in 1 .. n
        BY <1>7, <3>2
      <4>2. text'[k] = text[k] /\ text'[k + 1] = text[k + 1]
        BY <1>7, <4>1
      <4>3. QED
        BY <1>13, <4>1, <4>2
    <3>3. QED
      BY <3>1, <3>2
  <2>2. \A k \in 1 .. Len(text') : text'[k][1] <= text'[k][2]
    <3>1. \A k \in 1 .. n + 1 : k \in 1 .. n \/ k = n + 1
      BY <1>7
    <3>2. text'[n + 1][1] = lo /\ text'[n + 1][2] = hi
      BY <1>7
    <3>3. QED
      BY <1>7, <1>9, <1>13, <3>1, <3>2, Zenon
  <2>3. (Len(text') > 0 /\ start' <= Len(vlans'))
          => text'[Len(text')][2] + 1 < vlans'[start']
    BY <1>1, <1>7, <1>14
  <2>4. QED
    BY <2>1, <2>2, <2>3 DEF Maximal
<1>16. QED
  BY <1>8, <1>12, <1>15 DEF IInv

LEMMA ReturnInv == IInv /\ Return => IInv'
<1> SUFFICES ASSUME IInv, Return PROVE IInv'
  OBVIOUS
<1>1. /\ vlans \in Lists /\ i \in 1 .. Len(vlans) + 1 /\ i > Len(vlans)
      /\ pc' = "done" /\ UNCHANGED <<vlans, i, start, text>>
  BY DEF IInv, TypeOK, Return
<1>2. Len(vlans) \in Nat
  BY <1>1, ListFacts
<1>3. TypeOK' /\ Maximal'
  BY <1>1 DEF IInv, TypeOK, Maximal
<1>4. \A v \in Vlan : Printed(v)' <=> Among(v, start - 1)'
  BY <1>1 DEF IInv, LoopInv, Printed, Among
<1>5. i = Len(vlans) + 1
  BY <1>1, <1>2
<1>6. LoopInv'
  BY <1>1, <1>4, <1>5 DEF IInv, LoopInv
<1>7. QED
  BY <1>3, <1>6 DEF IInv

LEMMA StutterInv == IInv /\ UNCHANGED vars => IInv'
BY DEF IInv, TypeOK, LoopInv, Maximal, Printed, Among, vars

LEMMA Inductive == Spec => []IInv
<1>1. IInv /\ [Next]_vars => IInv'
  BY ExtendInv, FlushInv, ReturnInv, StutterInv DEF Next
<1>2. QED
  BY InitInv, <1>1, PTL DEF Spec

(***************************************************************************)
(* The loop of show_vlan keeps its indices in range and its invariant.     *)
(***************************************************************************)
THEOREM LoopCorrect == Spec => [](TypeOK /\ LoopInv)
<1>1. IInv => TypeOK /\ LoopInv
  BY DEF IInv
<1>2. QED
  BY <1>1, Inductive, PTL

(***************************************************************************)
(* For every sorted vector, show_vlan prints its VLANs and no other.       *)
(***************************************************************************)
THEOREM PrintsAllVlans == Spec => []PrintsAll
<1>1. IInv => PrintsAll
  <2> SUFFICES ASSUME IInv, pc = "done"
               PROVE  \A v \in Vlan : Printed(v) <=> Among(v, Len(vlans))
    BY DEF PrintsAll
  <2>1. Len(vlans) \in Nat /\ i \in 1 .. Len(vlans) + 1 /\ start \in 1 .. i
    BY ListFacts DEF IInv, TypeOK
  <2>2. start = Len(vlans) + 1
    BY <2>1 DEF IInv, LoopInv
  <2>3. start - 1 = Len(vlans)
    BY <2>1, <2>2
  <2>4. QED
    BY <2>3 DEF IInv, LoopInv
<1>2. QED
  BY <1>1, Inductive, PTL

(***************************************************************************)
(* The printed ranges are in order and never touch.                        *)
(***************************************************************************)
THEOREM RangesMaximal == Spec => []Maximal
<1>1. IInv => Maximal
  BY DEF IInv
<1>2. QED
  BY <1>1, Inductive, PTL

(***************************************************************************)
(* end + 1 does not overflow a u16, whatever the vector holds.             *)
(***************************************************************************)
THEOREM NeverOverflows == Spec => []NoOverflow
<1>1. IInv => NoOverflow
  <2> SUFFICES ASSUME IInv, i < Len(vlans) PROVE vlans[i] < MaxVlan
    BY DEF NoOverflow
  <2>1. vlans \in Lists /\ i \in 1 .. Len(vlans) + 1
    BY DEF IInv, TypeOK
  <2>2. /\ Len(vlans) \in Nat
        /\ \A k \in 1 .. Len(vlans) : vlans[k] \in Vlan
        /\ \A k, l \in 1 .. Len(vlans) : k < l => vlans[k] < vlans[l]
    BY <2>1, ListFacts
  <2>3. i \in 1 .. Len(vlans) /\ i + 1 \in 1 .. Len(vlans) /\ i < i + 1
    BY <2>1, <2>2
  <2>4. QED
    BY <2>2, <2>3, SuccExact
<1>2. QED
  BY <1>1, Inductive, PTL
=============================================================================
