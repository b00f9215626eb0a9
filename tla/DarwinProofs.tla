------------------------------ MODULE DarwinProofs ------------------------------
(***************************************************************************)
(* Safety of the whole Darwin back end as MCDarwin composes it: the parts  *)
(* that IoParts does not prove about, and what the parts promise together. *)
(***************************************************************************)
EXTENDS MCDarwin

-----------------------------------------------------------------------------
(* Barriers, for any number of threads and of rounds *)

BarPlaces == {"out", "meet", "met", "drain", "drained", "ending", "ended"}

BarState == [in : Nat, out : Nat, at : [Workers -> BarPlaces], destroyed : BOOLEAN,
          round : [Workers -> 0..Rounds], serial : [1..Rounds -> Nat]]

BarInside == {w \in Workers : bar.at[w] \in {"meet", "met"}}

\* The barrier is in its round r: everybody returned r times, or, while a round is leaving,
\* once more outside; so many threads got 1.
BarRound(r) ==
    /\ \A w \in Workers : bar.round[w] = IF bar.out # 0 /\ w \notin BarInside THEN r + 1 ELSE r
    /\ \A q \in 1..Rounds : bar.serial[q] = IF q <= r THEN 1 ELSE 0

\* Who is inside, who may come in, and who destroys.
BarSeated ==
    /\ bar.in = 0 \/ bar.out = 0
    /\ bar.in + bar.out = Cardinality(BarInside)
    /\ \A w \in Workers : /\ bar.at[w] \in {"meet", "met", "drain", "drained"} => bar.round[w] < Rounds
                          /\ bar.at[w] \in {"ending", "ended"} => bar.round[w] = Rounds
    /\ \A v, w \in Workers : {bar.at[v], bar.at[w]} \subseteq {"ending", "ended"} => v = w
    /\ bar.destroyed => \A w \in Workers : bar.at[w] = "out" /\ bar.round[w] = Rounds

BarInv == bar \in BarState /\ BarSeated /\ Barrier!NothingStranded /\ \E r \in Nat : BarRound(r)

\* At least one thread meets at a barrier (uv_barrier_init refuses 0).
BarConstants == IsFiniteSet(Workers) /\ Workers # {} /\ Rounds \in Nat

LEMMA BarOps ==
    /\ Barrier!Threshold = Cardinality(Workers)
    /\ \A S : Barrier!Cardinality(S) = Cardinality(S)
<1>1. \A S : Barrier!Cardinality(S) = Cardinality(S)
  BY DEF Barrier!Cardinality, Cardinality
<1> QED BY <1>1 DEF Barrier!Threshold

LEMMA BarCounts ==
    ASSUME BarConstants
    PROVE  /\ Barrier!Threshold \in Nat \ {0} /\ IsFiniteSet(BarInside)
           /\ Cardinality(BarInside) \in 0..Barrier!Threshold
           /\ Cardinality(BarInside) = 0 <=> BarInside = {}
           /\ Cardinality(BarInside) = Barrier!Threshold <=> BarInside = Workers
<1>1. IsFiniteSet(Workers) /\ Cardinality(Workers) \in Nat /\ Cardinality(Workers) # 0
  BY FS_CardinalityType, FS_EmptySet DEF BarConstants
<1>2. BarInside \subseteq Workers
  BY DEF BarInside
<1>3. IsFiniteSet(BarInside) /\ Cardinality(BarInside) \in Nat /\ Cardinality(BarInside) <= Cardinality(Workers)
      /\ (Cardinality(BarInside) = Cardinality(Workers) => BarInside = Workers)
  BY <1>1, <1>2, FS_Subset, FS_CardinalityType
<1>4. Cardinality(BarInside) = 0 <=> BarInside = {}
  BY <1>3, FS_EmptySet
<1> QED BY BarOps, <1>1, <1>3, <1>4

LEMMA BarBegins == ASSUME BarConstants, Barrier!Init PROVE BarInv
<1>1. bar \in BarState
  BY DEF Barrier!Init, BarState, BarPlaces, BarConstants
<1>2. BarInside = {} /\ Cardinality({}) = 0
  BY FS_EmptySet DEF Barrier!Init, BarInside
<1>3. BarRound(0)
  BY <1>2 DEF Barrier!Init, BarRound, BarConstants
<1>4. BarSeated
  BY <1>2 DEF Barrier!Init, BarSeated
<1>5. Barrier!NothingStranded
  BY DEF Barrier!Init, Barrier!NothingStranded
<1> QED BY <1>1, <1>3, <1>4, <1>5 DEF BarInv

\* What the end of uv_barrier_wait changes.
LEMMA BarLeft ==
    ASSUME BarConstants, NEW b \in BarState, NEW w \in Workers, b.round[w] < Rounds, b.out # 0
    PROVE  /\ Barrier!Left(b, w) \in BarState
           /\ Barrier!Left(b, w).in = b.in /\ Barrier!Left(b, w).out = b.out - 1 /\ Barrier!Left(b, w).destroyed = b.destroyed
           /\ Barrier!Left(b, w).round = [b.round EXCEPT ![w] = @ + 1]
           /\ Barrier!Left(b, w).serial = [b.serial EXCEPT ![b.round[w] + 1] = IF b.out = 1 THEN @ + 1 ELSE @]
           /\ \A v \in Workers : Barrier!Left(b, w).at[v] =
                IF v = w THEN "out" ELSE IF b.out = 1 THEN Barrier!Woken(b.at)[v] ELSE b.at[v]
<1>1. /\ b.in \in Nat /\ b.out \in Nat /\ b.at \in [Workers -> BarPlaces] /\ b.round \in [Workers -> 0..Rounds]
      /\ b.serial \in [1..Rounds -> Nat] /\ b.destroyed \in BOOLEAN
  BY DEF BarState
<1>2. Barrier!Woken(b.at) \in [Workers -> BarPlaces]
  BY <1>1 DEF Barrier!Woken, BarPlaces
<1>3. PICK rw \in 0..Rounds : rw = b.round[w] /\ rw < Rounds
  BY <1>1
<1>4. rw + 1 \in 0..Rounds /\ rw + 1 \in 1..Rounds
  BY <1>3 DEF BarConstants
<1> DEFINE at2 == [(IF b.out = 1 THEN Barrier!Woken(b.at) ELSE b.at) EXCEPT ![w] = "out"]
           round2 == [b.round EXCEPT ![w] = @ + 1]
           serial2 == [b.serial EXCEPT ![b.round[w] + 1] = IF b.out = 1 THEN @ + 1 ELSE @]
<1>5. at2 \in [Workers -> BarPlaces] /\ round2 \in [Workers -> 0..Rounds] /\ serial2 \in [1..Rounds -> Nat]
  <2>1. at2 \in [Workers -> BarPlaces]
    BY <1>1, <1>2 DEF BarPlaces
  <2>2. round2 \in [Workers -> 0..Rounds]
    BY <1>1, <1>3, <1>4
  <2>3. serial2 \in [1..Rounds -> Nat]
    <3>1. PICK k \in 1..Rounds : k = b.round[w] + 1
      BY <1>3, <1>4
    <3>2. b.serial[k] \in Nat
      BY <1>1
    <3> QED BY <1>1, <3>1, <3>2
  <2> QED BY <2>1, <2>2, <2>3
<1>6. Barrier!Left(b, w) = [b EXCEPT !.out = b.out - 1, !.round = round2, !.serial = serial2, !.at = at2]
  BY <1>1, <1>2 DEF Barrier!Left, BarState
<1> HIDE DEF at2, round2, serial2
<1>7. b.out - 1 \in Nat
  BY <1>1
<1> DEFINE l == [b EXCEPT !.out = b.out - 1, !.round = round2, !.serial = serial2, !.at = at2]
<1>9. /\ l.in = b.in /\ l.out = b.out - 1 /\ l.destroyed = b.destroyed
      /\ l.round = round2 /\ l.serial = serial2 /\ l.at = at2
  BY DEF BarState
<1>10. l \in BarState
  BY <1>5, <1>7 DEF BarState
<1>8. \A v \in Workers : at2[v] = IF v = w THEN "out" ELSE IF b.out = 1 THEN Barrier!Woken(b.at)[v] ELSE b.at[v]
  BY <1>1, <1>2 DEF at2
<1> QED BY <1>6, <1>8, <1>9, <1>10 DEF round2, serial2

\* A step that moves one thread and touches no counter.
LEMMA BarMoves ==
    ASSUME bar \in BarState, NEW w \in Workers, NEW p \in BarPlaces, bar' = [bar EXCEPT !.at[w] = p]
    PROVE  /\ bar' \in BarState /\ bar'.in = bar.in /\ bar'.out = bar.out /\ bar'.destroyed = bar.destroyed
           /\ bar'.round = bar.round /\ bar'.serial = bar.serial
           /\ \A v \in Workers : bar'.at[v] = IF v = w THEN p ELSE bar.at[v]
<1> DEFINE a == [bar.at EXCEPT ![w] = p]
<1>1. bar.at \in [Workers -> BarPlaces]
  BY DEF BarState
<1>2. a \in [Workers -> BarPlaces] /\ \A v \in Workers : a[v] = IF v = w THEN p ELSE bar.at[v]
  BY <1>1
<1>3. bar' = [bar EXCEPT !.at = a]
  BY <1>1 DEF BarState
<1> HIDE DEF a
<1>4. bar' \in BarState
  BY <1>2, <1>3 DEF BarState
<1>5. /\ bar'.in = bar.in /\ bar'.out = bar.out /\ bar'.destroyed = bar.destroyed
      /\ bar'.round = bar.round /\ bar'.serial = bar.serial /\ bar'.at = a
  BY <1>3 DEF BarState
<1> QED BY <1>2, <1>4, <1>5

LEMMA BarSameRound ==
    ASSUME NEW r \in Nat, BarRound(r), BarInside' = BarInside,
           bar'.out = bar.out, bar'.round = bar.round, bar'.serial = bar.serial
    PROVE  BarRound(r)'
BY DEF BarRound

LEMMA BarEnters ==
    ASSUME BarConstants, BarInv, NEW w \in Workers, Barrier!Enter(w) PROVE BarInv'
<1>0. /\ bar \in BarState /\ bar.in \in Nat /\ bar.out \in Nat /\ bar.at \in [Workers -> BarPlaces]
      /\ bar.round \in [Workers -> 0..Rounds] /\ bar.serial \in [1..Rounds -> Nat]
  BY DEF BarInv, BarState
<1>1. PICK r \in Nat : BarRound(r)
  BY DEF BarInv
<1>2. /\ w \notin BarInside /\ bar.at[w] \in {"out", "drained"} /\ bar.round[w] < Rounds /\ ~bar.destroyed
  <2>1. bar.at[w] \in {"out", "drained"} /\ (bar.at[w] = "out" => bar.round[w] < Rounds)
    BY DEF Barrier!Enter
  <2>2. bar.round[w] < Rounds
    BY <2>1 DEF BarInv, BarSeated
  <2>3. ~bar.destroyed
    BY <1>0, <2>2 DEF BarInv, BarSeated, BarConstants
  <2> QED BY <2>1, <2>2, <2>3 DEF BarInside
<1>3. CASE Barrier!Draining
  <2>1. bar' = [bar EXCEPT !.at[w] = "drain"] /\ bar.out # 0
    BY <1>3 DEF Barrier!Enter, Barrier!Draining
  <2>2. /\ bar' \in BarState /\ bar'.in = bar.in /\ bar'.out = bar.out /\ bar'.destroyed = bar.destroyed
        /\ bar'.round = bar.round /\ bar'.serial = bar.serial
        /\ \A v \in Workers : bar'.at[v] = IF v = w THEN "drain" ELSE bar.at[v]
    BY <1>0, <2>1, BarMoves DEF BarPlaces
  <2>3. BarInside' = BarInside
    BY <1>2, <2>2 DEF BarInside
  <2>4. BarRound(r)'
    BY <1>1, <2>2, <2>3, BarSameRound
  <2>5. BarSeated'
    BY <1>2, <2>2, <2>3 DEF BarInv, BarSeated
  <2>6. Barrier!NothingStranded'
    BY <2>1, <2>2 DEF BarInv, Barrier!NothingStranded
  <2> QED BY <2>2, <2>4, <2>5, <2>6 DEF BarInv
<1>4. CASE ~Barrier!Draining /\ bar.in + 1 # Barrier!Threshold
  <2>1. bar' = [bar EXCEPT !.in = @ + 1, !.at[w] = "meet"] /\ bar.out = 0
    BY <1>4 DEF Barrier!Enter, Barrier!Draining
  <2>2. /\ bar' \in BarState /\ bar'.in = bar.in + 1 /\ bar'.out = bar.out /\ bar'.destroyed = bar.destroyed
        /\ bar'.round = bar.round /\ bar'.serial = bar.serial
        /\ \A v \in Workers : bar'.at[v] = IF v = w THEN "meet" ELSE bar.at[v]
    <3> DEFINE a == [bar.at EXCEPT ![w] = "meet"]
    <3>1. a \in [Workers -> BarPlaces] /\ \A v \in Workers : a[v] = IF v = w THEN "meet" ELSE bar.at[v]
      BY <1>0 DEF BarPlaces
    <3>2. bar' = [bar EXCEPT !.in = bar.in + 1, !.at = a] /\ bar.in + 1 \in Nat
      BY <1>0, <2>1 DEF BarState
    <3> HIDE DEF a
    <3>3. bar' \in BarState
      BY <1>0, <3>1, <3>2 DEF BarState
    <3>4. /\ bar'.in = bar.in + 1 /\ bar'.out = bar.out /\ bar'.destroyed = bar.destroyed
          /\ bar'.round = bar.round /\ bar'.serial = bar.serial /\ bar'.at = a
      BY <1>0, <3>2 DEF BarState
    <3> QED BY <3>1, <3>3, <3>4
  <2>3. BarInside' = BarInside \union {w}
    BY <2>2 DEF BarInside
  <2>4. Cardinality(BarInside') = Cardinality(BarInside) + 1
    BY <1>2, <2>3, BarCounts, FS_AddElement
  <2>5. BarRound(r)'
    BY <1>1, <2>1, <2>2 DEF BarRound
  <2>6. BarSeated'
    <3>1. bar'.in + bar'.out = Cardinality(BarInside')
      <4>1. bar.in + bar.out = Cardinality(BarInside)
        BY DEF BarInv, BarSeated
      <4> QED BY <1>0, <2>2, <2>4, <4>1
    <3> QED BY <1>2, <2>1, <2>2, <3>1 DEF BarInv, BarSeated
  <2>7. Barrier!NothingStranded'
    BY <1>0, <2>1, <2>2 DEF BarInv, Barrier!NothingStranded
  <2> QED BY <2>2, <2>5, <2>6, <2>7 DEF BarInv
<1>5. CASE ~Barrier!Draining /\ bar.in + 1 = Barrier!Threshold
  <2>0. Barrier!Threshold \in Nat /\ Barrier!Threshold # 0 /\ bar.out = 0
    BY <1>5, BarCounts DEF Barrier!Draining
  <2> DEFINE b == [bar EXCEPT !.in = 0, !.out = Barrier!Threshold, !.at = Barrier!Woken(@)]
  <2>1. bar' = Barrier!Left(b, w)
    BY <1>5 DEF Barrier!Enter
  <2>2. Barrier!Woken(bar.at) \in [Workers -> BarPlaces]
    BY <1>0 DEF Barrier!Woken, BarPlaces
  <2>3. /\ b \in BarState /\ b.in = 0 /\ b.out = Barrier!Threshold /\ b.destroyed = bar.destroyed
        /\ b.round = bar.round /\ b.serial = bar.serial /\ b.at = Barrier!Woken(bar.at)
    BY <1>0, <2>0, <2>2 DEF BarState
  <2> HIDE DEF b
  <2>4. /\ bar' \in BarState
        /\ bar'.in = 0 /\ bar'.out = Barrier!Threshold - 1 /\ bar'.destroyed = bar.destroyed
        /\ bar'.round = [bar.round EXCEPT ![w] = @ + 1]
        /\ bar'.serial = [bar.serial EXCEPT ![bar.round[w] + 1] = IF Barrier!Threshold = 1 THEN @ + 1 ELSE @]
        /\ \A v \in Workers : bar'.at[v] =
             IF v = w THEN "out" ELSE IF Barrier!Threshold = 1 THEN Barrier!Woken(b.at)[v] ELSE b.at[v]
    <3>1. b.round[w] < Rounds /\ b.out # 0
      BY <1>2, <2>0, <2>3
    <3> QED BY <2>1, <2>3, <3>1, BarLeft
  \* Everybody else is inside.
  <2>5. BarInside \union {w} = Workers
    <3>1. Cardinality(BarInside \union {w}) = Cardinality(BarInside) + 1 /\ IsFiniteSet(BarInside)
      BY <1>2, BarCounts, FS_AddElement
    <3>2. Cardinality(BarInside) = bar.in
      BY <1>0, <2>0, BarCounts DEF BarInv, BarSeated
    <3>3. Cardinality(BarInside \union {w}) = Cardinality(Workers) /\ BarInside \union {w} \subseteq Workers
      BY BarOps, <1>5, <3>1, <3>2 DEF BarInside
    <3> QED BY <3>3, FS_Subset DEF BarConstants
  <2>6. \A v \in Workers : v # w => bar'.at[v] = "met"
    <3>1. \A v \in Workers : v # w => bar.at[v] \in {"meet", "met"}
      BY <2>5 DEF BarInside
    <3>2. \A v \in Workers : v # w => Barrier!Woken(bar.at)[v] = "met" /\ Barrier!Woken(Barrier!Woken(bar.at))[v] = "met"
      BY <3>1 DEF Barrier!Woken
    <3> QED BY <2>3, <2>4, <3>2
  <2>7. BarInside' = Workers \ {w} /\ bar'.at[w] = "out"
    BY <2>4, <2>6 DEF BarInside
  <2>8. Cardinality(BarInside') = Barrier!Threshold - 1
    BY BarOps, <2>7, FS_RemoveElement DEF BarConstants
  <2>9. /\ \A v \in Workers : bar.round[v] = r
        /\ \A v \in Workers : bar'.round[v] = IF v = w THEN r + 1 ELSE r
        /\ r < Rounds /\ r + 1 \in 1..Rounds
    BY <1>0, <1>1, <1>2, <2>0, <2>4 DEF BarRound, BarConstants
  <2>10. \E q \in Nat : BarRound(q)'
    <3>1. CASE Barrier!Threshold = 1
      <4>1. \A v \in Workers : v = w
        <5>1. IsFiniteSet(Workers \ {w}) /\ Cardinality(Workers \ {w}) = 0
          BY <2>7, <2>8, <3>1, FS_Subset DEF BarConstants
        <5>2. Workers \ {w} = {}
          BY <5>1, FS_EmptySet
        <5> QED BY <5>2
      <4>2. \A q \in 1..Rounds : bar'.serial[q] = IF q <= r + 1 THEN 1 ELSE 0
        <5>0. PICK k \in 1..Rounds : k = r + 1
          BY <2>9
        <5>1. bar'.serial = [bar.serial EXCEPT ![k] = bar.serial[k] + 1]
          BY <2>4, <2>9, <3>1, <5>0
        <5>2. \A q \in 1..Rounds : bar.serial[q] = IF q <= r THEN 1 ELSE 0
          BY <1>1 DEF BarRound
        <5>3. bar.serial[k] = 0
          BY <5>0, <5>2
        <5>4. \A q \in 1..Rounds : bar'.serial[q] = IF q = k THEN 1 ELSE bar.serial[q]
          <6>1. bar.serial[k] + 1 = 1
            BY <5>3
          <6> HIDE <5>3
          <6> QED BY <1>0, <5>1, <6>1
        <5> QED BY <5>0, <5>2, <5>4
      <4>3. BarRound(r + 1)'
        BY <2>0, <2>4, <2>9, <3>1, <4>1, <4>2 DEF BarRound
      <4> QED BY <4>3
    <3>2. CASE Barrier!Threshold # 1
      <4>1. bar'.serial = bar.serial
        BY <1>0, <2>4, <3>2
      <4>2. bar'.out # 0
        BY <2>0, <2>4, <3>2
      <4>3. BarRound(r)'
        BY <1>1, <2>7, <2>9, <4>1, <4>2 DEF BarRound
      <4> QED BY <4>3
    <3> QED BY <3>1, <3>2
  <2>11. BarSeated'
    <3>1. bar'.in + bar'.out = Cardinality(BarInside')
      BY <2>0, <2>4, <2>8
    <3> QED BY <1>2, <2>4, <2>6, <2>7, <2>9, <3>1 DEF BarSeated
  <2>12. Barrier!NothingStranded'
    BY <2>6, <2>7 DEF Barrier!NothingStranded
  <2> QED BY <2>4, <2>10, <2>11, <2>12 DEF BarInv
<1> QED BY <1>3, <1>4, <1>5

LEMMA BarLeaves ==
    ASSUME BarConstants, BarInv, NEW w \in Workers, Barrier!Leave(w) PROVE BarInv'
<1>0. /\ bar \in BarState /\ bar.in \in Nat /\ bar.out \in Nat /\ bar.at \in [Workers -> BarPlaces]
      /\ bar.round \in [Workers -> 0..Rounds] /\ bar.serial \in [1..Rounds -> Nat]
  BY DEF BarInv, BarState
<1>1. PICK r \in Nat : BarRound(r)
  BY DEF BarInv
<1>2. bar.at[w] = "met" /\ w \in BarInside /\ bar.round[w] < Rounds /\ ~bar.destroyed
  BY DEF Barrier!Leave, BarInside, BarInv, BarSeated
<1>3. CASE ~Barrier!RoundFull
  <2>1. bar' = [bar EXCEPT !.at[w] = "meet"] /\ bar.in # 0
    BY <1>3 DEF Barrier!Leave, Barrier!RoundFull
  <2>2. /\ bar' \in BarState /\ bar'.in = bar.in /\ bar'.out = bar.out /\ bar'.destroyed = bar.destroyed
        /\ bar'.round = bar.round /\ bar'.serial = bar.serial
        /\ \A v \in Workers : bar'.at[v] = IF v = w THEN "meet" ELSE bar.at[v]
    BY <1>0, <2>1, BarMoves DEF BarPlaces
  <2>3. BarInside' = BarInside
    BY <1>2, <2>2 DEF BarInside
  <2>4. BarRound(r)'
    BY <1>1, <2>2, <2>3, BarSameRound
  <2>5. BarSeated'
    BY <1>2, <2>2, <2>3 DEF BarInv, BarSeated
  <2>6. Barrier!NothingStranded'
    BY <2>1, <2>2 DEF BarInv, Barrier!NothingStranded
  <2> QED BY <2>2, <2>4, <2>5, <2>6 DEF BarInv
<1>4. CASE Barrier!RoundFull
  <2>1. bar.in = 0 /\ bar' = Barrier!Left(bar, w)
    BY <1>4 DEF Barrier!Leave, Barrier!RoundFull
  <2>2. /\ bar.out = Cardinality(BarInside) /\ bar.out # 0 /\ IsFiniteSet(BarInside)
    <3>1. bar.in + bar.out = Cardinality(BarInside)
      BY DEF BarInv, BarSeated
    <3>2. Cardinality(BarInside) # 0 /\ IsFiniteSet(BarInside)
      BY <1>2, BarCounts
    <3> QED BY <1>0, <2>1, <3>1, <3>2
  <2>3. /\ bar' \in BarState /\ bar'.in = 0 /\ bar'.out = bar.out - 1 /\ bar'.destroyed = bar.destroyed
        /\ bar'.round = [bar.round EXCEPT ![w] = @ + 1]
        /\ bar'.serial = [bar.serial EXCEPT ![bar.round[w] + 1] = IF bar.out = 1 THEN @ + 1 ELSE @]
        /\ \A v \in Workers : bar'.at[v] =
             IF v = w THEN "out" ELSE IF bar.out = 1 THEN Barrier!Woken(bar.at)[v] ELSE bar.at[v]
    BY <1>0, <1>2, <2>1, <2>2, BarLeft
  <2>4. \A v \in Workers :
            /\ Barrier!Woken(bar.at)[v] \notin {"meet", "drain", "ending"}
            /\ Barrier!Woken(bar.at)[v] \in {"meet", "met"} <=> bar.at[v] \in {"meet", "met"}
            /\ Barrier!Woken(bar.at)[v] \in {"drain", "drained"} <=> bar.at[v] \in {"drain", "drained"}
            /\ Barrier!Woken(bar.at)[v] \in {"ending", "ended"} <=> bar.at[v] \in {"ending", "ended"}
    BY <1>0 DEF Barrier!Woken, BarPlaces
  <2>5. BarInside' = BarInside \ {w}
    BY <2>3, <2>4 DEF BarInside
  <2>6. Cardinality(BarInside') = bar.out - 1
    BY <1>2, <2>2, <2>5, FS_RemoveElement
  <2>7. /\ bar.round[w] = r /\ r < Rounds /\ r + 1 \in 1..Rounds
        /\ \A v \in Workers : bar'.round[v] = IF v \in BarInside' THEN r ELSE r + 1
    <3>1. \A v \in Workers : bar.round[v] = IF v \notin BarInside THEN r + 1 ELSE r
      BY <1>1, <2>2 DEF BarRound
    <3>2. \A v \in Workers : bar'.round[v] = IF v = w THEN r + 1 ELSE bar.round[v]
      BY <1>0, <1>2, <2>3, <3>1
    <3>3. bar.round[w] = r /\ r < Rounds /\ r + 1 \in 1..Rounds
      BY <1>2, <3>1 DEF BarConstants
    <3> QED BY <2>5, <3>1, <3>2, <3>3
  <2>8. \E q \in Nat : BarRound(q)'
    <3>1. CASE bar.out = 1
      <4>1. BarInside' = {} /\ bar'.out = 0
        <5>1. IsFiniteSet(BarInside \ {w}) /\ Cardinality(BarInside \ {w}) = 0
          <6>1. Cardinality(BarInside \ {w}) = Cardinality(BarInside) - 1 /\ IsFiniteSet(BarInside \ {w})
            BY <1>2, <2>2, FS_RemoveElement
          <6> QED BY <2>2, <3>1, <6>1
        <5> QED BY <2>3, <2>5, <3>1, <5>1, FS_EmptySet
      <4>2. \A q \in 1..Rounds : bar'.serial[q] = IF q <= r + 1 THEN 1 ELSE 0
        <5>0. PICK k \in 1..Rounds : k = r + 1
          BY <2>7
        <5>1. bar'.serial = [bar.serial EXCEPT ![k] = bar.serial[k] + 1]
          BY <2>3, <2>7, <3>1, <5>0
        <5>2. \A q \in 1..Rounds : bar.serial[q] = IF q <= r THEN 1 ELSE 0
          BY <1>1 DEF BarRound
        <5>3. bar.serial[k] + 1 = 1
          BY <5>0, <5>2
        <5>4. \A q \in 1..Rounds : bar'.serial[q] = IF q = k THEN 1 ELSE bar.serial[q]
          BY <1>0, <5>1, <5>3
        <5> QED BY <5>0, <5>2, <5>4
      <4>3. BarRound(r + 1)'
        BY <2>7, <4>1, <4>2 DEF BarRound
      <4> QED BY <4>3
    <3>2. CASE bar.out # 1
      <4>1. bar'.serial = bar.serial
        BY <1>0, <2>3, <3>2
      <4>2. bar'.out # 0
        BY <1>0, <2>3, <3>2
      <4>3. BarRound(r)'
        BY <1>1, <2>7, <4>1, <4>2 DEF BarRound
      <4> QED BY <4>3
    <3> QED BY <3>1, <3>2
  <2>9. BarSeated'
    <3>1. bar'.in + bar'.out = Cardinality(BarInside')
      BY <1>0, <2>3, <2>6
    <3>2. \A v \in Workers : v # w => bar'.round[v] = bar.round[v]
      BY <1>0, <2>3
    <3>3. \A v \in Workers :
              /\ bar'.at[v] \in {"meet", "met", "drain", "drained"} =>
                   v # w /\ bar.at[v] \in {"meet", "met", "drain", "drained"}
              /\ bar'.at[v] \in {"ending", "ended"} => v # w /\ bar.at[v] \in {"ending", "ended"}
      BY <2>3, <2>4
    <3> QED BY <1>2, <2>3, <3>1, <3>2, <3>3 DEF BarInv, BarSeated
  <2>10. Barrier!NothingStranded'
    <3>1. bar.out # 1 => bar'.out # 0
      BY <1>0, <2>3
    <3>2. \A v \in Workers : bar.at[v] # "meet"
      BY <2>1 DEF BarInv, Barrier!NothingStranded
    <3> QED BY <2>3, <2>4, <3>1, <3>2 DEF BarInv, Barrier!NothingStranded
  <2> QED BY <2>3, <2>8, <2>9, <2>10 DEF BarInv
<1> QED BY <1>3, <1>4

LEMMA BarDestroys ==
    ASSUME BarConstants, BarInv, NEW w \in Workers, Barrier!Destroy(w) PROVE BarInv'
<1>0. /\ bar \in BarState /\ bar.out \in Nat /\ bar.at \in [Workers -> BarPlaces]
      /\ bar.round \in [Workers -> 0..Rounds]
  BY DEF BarInv, BarState
<1>1. PICK r \in Nat : BarRound(r)
  BY DEF BarInv
<1>2. /\ bar.at[w] \in {"out", "ended"} /\ w \notin BarInside /\ bar.round[w] = Rounds /\ ~bar.destroyed
      /\ \A v \in Workers : v # w => bar.at[v] \notin {"ending", "ended"}
  BY DEF Barrier!Destroy, BarInside, BarInv, BarSeated
<1>3. CASE Barrier!NoneLeaving
  <2>1. bar' = [bar EXCEPT !.at[w] = "out", !.destroyed = TRUE] /\ bar.out = 0
    BY <1>3 DEF Barrier!Destroy, Barrier!NoneLeaving
  <2>2. /\ bar' \in BarState /\ bar'.in = bar.in /\ bar'.out = bar.out
        /\ bar'.round = bar.round /\ bar'.serial = bar.serial
        /\ \A v \in Workers : bar'.at[v] = IF v = w THEN "out" ELSE bar.at[v]
    <3> DEFINE a == [bar.at EXCEPT ![w] = "out"]
    <3>1. a \in [Workers -> BarPlaces] /\ \A v \in Workers : a[v] = IF v = w THEN "out" ELSE bar.at[v]
      BY <1>0 DEF BarPlaces
    <3>2. bar' = [bar EXCEPT !.at = a, !.destroyed = TRUE]
      BY <1>0, <2>1 DEF BarState
    <3> HIDE DEF a
    <3>3. bar' \in BarState
      BY <1>0, <3>1, <3>2 DEF BarState
    <3>4. /\ bar'.in = bar.in /\ bar'.out = bar.out
          /\ bar'.round = bar.round /\ bar'.serial = bar.serial /\ bar'.at = a
      BY <1>0, <3>2 DEF BarState
    <3> QED BY <3>1, <3>3, <3>4
  <2>3. BarInside' = BarInside
    BY <1>2, <2>2 DEF BarInside
  <2>4. BarRound(r)'
    BY <1>1, <2>2, <2>3, BarSameRound
  <2>5. \A v \in Workers : bar.round[v] = Rounds
    BY <1>1, <1>2, <2>1 DEF BarRound
  <2>6. \A v \in Workers : bar'.at[v] = "out"
    <3>1. \A v \in Workers : v # w => bar.at[v] \notin {"meet", "met", "drain", "drained", "ending", "ended"}
      BY <1>2, <2>5 DEF BarInv, BarSeated, BarConstants
    <3> QED BY <1>0, <2>2, <3>1 DEF BarPlaces
  <2>7. BarSeated'
    BY <2>2, <2>3, <2>5, <2>6 DEF BarInv, BarSeated
  <2>8. Barrier!NothingStranded'
    BY <2>6 DEF Barrier!NothingStranded
  <2> QED BY <2>2, <2>4, <2>7, <2>8 DEF BarInv
<1>4. CASE ~Barrier!NoneLeaving
  <2>1. bar' = [bar EXCEPT !.at[w] = "ending"] /\ bar.out # 0
    BY <1>4 DEF Barrier!Destroy, Barrier!NoneLeaving
  <2>2. /\ bar' \in BarState /\ bar'.in = bar.in /\ bar'.out = bar.out /\ bar'.destroyed = bar.destroyed
        /\ bar'.round = bar.round /\ bar'.serial = bar.serial
        /\ \A v \in Workers : bar'.at[v] = IF v = w THEN "ending" ELSE bar.at[v]
    BY <1>0, <2>1, BarMoves DEF BarPlaces
  <2>3. BarInside' = BarInside
    BY <1>2, <2>2 DEF BarInside
  <2>4. BarRound(r)'
    BY <1>1, <2>2, <2>3, BarSameRound
  <2>5. BarSeated'
    BY <1>2, <2>2, <2>3 DEF BarInv, BarSeated
  <2>6. Barrier!NothingStranded'
    BY <2>1, <2>2 DEF BarInv, Barrier!NothingStranded
  <2> QED BY <2>2, <2>4, <2>5, <2>6 DEF BarInv
<1> QED BY <1>3, <1>4

LEMMA BarSpurious ==
    ASSUME BarInv, NEW w \in Workers, Barrier!Spurious(w) PROVE BarInv'
<1>0. bar \in BarState /\ bar.at \in [Workers -> BarPlaces]
  BY DEF BarInv, BarState
<1>1. PICK r \in Nat : BarRound(r)
  BY DEF BarInv
<1>2. PICK p \in BarPlaces : /\ bar' = [bar EXCEPT !.at[w] = p]
                          /\ \/ bar.at[w] = "meet" /\ p = "met"
                             \/ bar.at[w] = "drain" /\ p = "drained"
                             \/ bar.at[w] = "ending" /\ p = "ended"
  <2>1. Barrier!Woken(bar.at)[w] = IF bar.at[w] = "meet" THEN "met"
                           ELSE IF bar.at[w] = "drain" THEN "drained" ELSE "ended"
    BY DEF Barrier!Spurious, Barrier!Woken
  <2> QED BY <2>1 DEF Barrier!Spurious, BarPlaces
<1>3. /\ bar' \in BarState /\ bar'.in = bar.in /\ bar'.out = bar.out /\ bar'.destroyed = bar.destroyed
      /\ bar'.round = bar.round /\ bar'.serial = bar.serial
      /\ \A v \in Workers : bar'.at[v] = IF v = w THEN p ELSE bar.at[v]
  BY <1>0, <1>2, BarMoves
<1>4. BarInside' = BarInside
  BY <1>2, <1>3 DEF BarInside
<1>5. BarRound(r)'
  BY <1>1, <1>3, <1>4, BarSameRound
<1>6. BarSeated'
  BY <1>2, <1>3, <1>4 DEF BarInv, BarSeated
<1>7. Barrier!NothingStranded'
  BY <1>2, <1>3 DEF BarInv, Barrier!NothingStranded
<1> QED BY <1>3, <1>5, <1>6, <1>7 DEF BarInv

LEMMA BarStep == ASSUME BarConstants, BarInv, [Barrier!Next]_bar PROVE BarInv'
<1>1. ASSUME NEW w \in Workers, Barrier!Thread(w) \/ Barrier!Spurious(w) PROVE BarInv'
  BY <1>1, BarEnters, BarLeaves, BarDestroys, BarSpurious DEF Barrier!Thread
<1>2. CASE UNCHANGED bar
  BY <1>2 DEF BarInv, BarSeated, Barrier!NothingStranded, BarRound, BarInside
<1> QED BY <1>1, <1>2 DEF Barrier!Next

\* Types: neither counter exceeds the number of threads that meet.
LEMMA BarTypes == ASSUME BarConstants PROVE BarInv => Barrier!TypeOK
<1>1. ASSUME BarInv PROVE Barrier!TypeOK
  <2>1. bar \in BarState /\ bar.in \in Nat /\ bar.out \in Nat
    BY <1>1 DEF BarInv, BarState
  <2>2. bar.in + bar.out \in 0..Barrier!Threshold /\ Barrier!Threshold \in Nat
    BY <1>1, BarCounts DEF BarInv, BarSeated
  <2>3. bar.in \in 0..Barrier!Threshold /\ bar.out \in 0..Barrier!Threshold
    BY <2>1, <2>2
  <2> QED BY <2>1, <2>3 DEF Barrier!TypeOK, BarState, BarPlaces
<1> QED BY <1>1

\* Rounds: uv_barrier_wait lets nobody through early or twice, and tells one of each round.
LEMMA BarRounds == ASSUME BarConstants PROVE BarInv => Barrier!CountsAreExact
<1>1. ASSUME BarInv PROVE Barrier!CountsAreExact
  <2>0. bar.in \in Nat /\ bar.out \in Nat /\ bar.round \in [Workers -> 0..Rounds]
    BY <1>1 DEF BarInv, BarState
  <2>1. PICK r \in Nat : BarRound(r)
    BY <1>1 DEF BarInv
  <2>2. bar.in = 0 \/ bar.out = 0
    BY <1>1 DEF BarInv, BarSeated
  <2>3. bar.in + bar.out = Cardinality(BarInside)
    BY <1>1 DEF BarInv, BarSeated
  <2>4. \A w, v \in Workers : bar.round[w] <= bar.round[v] + 1
    BY <2>1 DEF BarRound
  <2>5. \E w \in Workers : bar.round[w] = r
    <3>1. CASE bar.out = 0
      BY <1>1, <2>1, <3>1 DEF BarRound, BarConstants
    <3>2. CASE bar.out # 0
      <4>1. PICK w \in Workers : w \in BarInside
        BY <1>1, <2>0, <2>2, <2>3, <3>2, BarCounts DEF BarInside
      <4> QED BY <2>1, <4>1 DEF BarRound
    <3> QED BY <3>1, <3>2
  <2>6. \A w \in Workers : bar.round[w] \in {r, r + 1}
    BY <2>1 DEF BarRound
  <2>7. \A q \in 1..Rounds : bar.serial[q] = IF \A w \in Workers : bar.round[w] >= q THEN 1 ELSE 0
    <3>1. SUFFICES ASSUME NEW q \in 1..Rounds
                   PROVE  bar.serial[q] = IF \A w \in Workers : bar.round[w] >= q THEN 1 ELSE 0
      OBVIOUS
    <3>2. q <= r <=> \A w \in Workers : bar.round[w] >= q
      BY <2>5, <2>6
    <3> QED BY <2>1, <3>2 DEF BarRound
  <2> QED BY BarOps, <2>2, <2>3, <2>4, <2>7 DEF Barrier!CountsAreExact, BarInside
<1> QED BY <1>1

\* No lost wakeup: nobody sleeps in uv_barrier_wait or uv_barrier_destroy for what has happened.
LEMMA BarNobodyStranded == ASSUME BarConstants PROVE BarInv => Barrier!NothingStranded
<1>1. BarInv => Barrier!NothingStranded
  BY DEF BarInv
<1> QED BY <1>1

\* Destruction: uv_barrier_destroy frees the barrier when all are through, and never while
\* some thread waits for a round.
LEMMA BarClosed == ASSUME BarConstants PROVE BarInv => Barrier!ClosedIsClean
<1>1. ASSUME BarInv PROVE Barrier!ClosedIsClean
  <2>1. PICK r \in Nat : BarRound(r)
    BY <1>1 DEF BarInv
  <2>2. ASSUME NEW w \in Workers, bar.at[w] \in {"ending", "ended"}, bar.in # 0 PROVE FALSE
    <3>1. bar.out = 0 /\ bar.round[w] = Rounds
      BY <1>1, <2>2 DEF BarInv, BarSeated
    <3>2. PICK v \in Workers : v \in BarInside
      <4>1. bar.in \in Nat /\ bar.in + bar.out = Cardinality(BarInside)
        BY <1>1 DEF BarInv, BarSeated, BarState
      <4> QED BY <1>1, <2>2, <3>1, <4>1, BarCounts DEF BarInside
    <3>3. bar.round[v] < Rounds
      BY <1>1, <3>2 DEF BarInv, BarSeated, BarInside
    <3>4. bar.round[v] = bar.round[w]
      BY <2>1, <3>1 DEF BarRound
    <3> QED BY <1>1, <3>1, <3>3, <3>4 DEF BarConstants
  <2> QED BY <1>1, <2>2 DEF Barrier!ClosedIsClean, BarInv, BarSeated
<1> QED BY <1>1

LEMMA BarKeeps ==
    ASSUME BarConstants
    PROVE  BarInv => Barrier!TypeOK /\ Barrier!CountsAreExact /\ Barrier!NothingStranded /\ Barrier!ClosedIsClean
BY BarTypes, BarRounds, BarNobodyStranded, BarClosed

\* Barriers, for any number of threads and rounds, spurious wakeups included: nobody passes a round
\* early and exactly one thread of each gets 1, nobody sleeps for what has happened, and the barrier
\* is destroyed when all are through.
THEOREM BarrierCorrect ==
    ASSUME BarConstants
    PROVE  Barrier!Spec => [](Barrier!TypeOK /\ Barrier!CountsAreExact /\ Barrier!NothingStranded /\
                              Barrier!ClosedIsClean)
<1>1. ASSUME Barrier!Init PROVE BarInv
  BY <1>1, BarBegins
<1>2. ASSUME BarInv, [Barrier!Next]_bar PROVE BarInv'
  BY <1>2, BarStep
<1>3. BarInv => Barrier!TypeOK /\ Barrier!CountsAreExact /\ Barrier!NothingStranded /\
              Barrier!ClosedIsClean
  BY BarKeeps
<1> QED BY <1>1, <1>2, <1>3, PTL DEF Barrier!Spec

-----------------------------------------------------------------------------
(* File events *)

FseConstants ==
    /\ "none" \notin FsEvents!Handles /\ \A h \in Dirs : h \notin Files
    /\ MaxEvents \in Nat /\ MaxStarts \in Nat

FseItems == Dirs \X {"Regular", "Closing"}

FseFields ==
    {"cf", "type", "batch", "cf_signals", "handles", "count", "need", "stream", "sem", "pc", "who",
     "waiting", "cf_events", "cf_error", "sent", "cf_cb", "active", "closing", "fd", "armed", "fired",
     "path", "taken", "takenError", "happened", "starts", "again", "heard", "told"}

FseQueues ==
    /\ fse.cf \in {"idle", "next", "destroyed", "final"} /\ fse.type \in {"Regular", "Closing"}
    /\ fse.batch \in Seq(FseItems) /\ fse.cf_signals \in Seq(FseItems)
    /\ fse.handles \in Seq(Dirs) /\ fse.count \in Int /\ fse.need \in BOOLEAN /\ fse.sem \in Nat
    /\ fse.pc \in {"program", "deliver", "callback", "file_callback"}
    /\ fse.who \in FsEvents!Handles \union {"none"} /\ fse.waiting \in Dirs \union {"none"}
    /\ fse.cf_events \in [Dirs -> Seq(Nat)] /\ fse.taken \in Seq(Nat) /\ fse.happened \in Nat

FseSets ==
    /\ fse.cf_error \subseteq Dirs /\ fse.sent \subseteq Dirs /\ fse.cf_cb \subseteq Dirs
    /\ fse.stream \subseteq Dirs /\ fse.active \subseteq FsEvents!Handles /\ fse.closing \subseteq FsEvents!Handles
    /\ fse.fd \subseteq Files /\ fse.armed \subseteq Files /\ fse.fired \subseteq Files
    /\ fse.path \subseteq FsEvents!Handles

FseTyped == DOMAIN fse = FseFields /\ FseQueues /\ FseSets

\* The list of the CF thread and what the loop says of its watchers.
FseLists ==
    /\ fse.count = Len(fse.handles) /\ Distinct(fse.handles)
    /\ \A h \in Dirs : Contains(fse.handles, h) <=> h \in fse.active
    /\ \A h \in FsEvents!Handles : h \in fse.path <=> h \in fse.active \/ h = fse.waiting
    /\ \A h \in fse.closing : h \notin fse.active
    /\ fse.waiting \notin fse.active

\* The signals that the CF thread has yet to take up.
Ahead == fse.batch \o fse.cf_signals

FseSignals ==
    /\ fse.cf = "idle" => fse.batch = <<>>
    /\ fse.need => Ahead # <<>>

\* Nothing else in a queue of signals closes a watcher.
Single(s) == \A i, j \in 1..Len(s) : s[i][2] = "Closing" /\ s[j][2] = "Closing" => i = j

\* The signal of uv__fsevents_close was taken up.
TakenUp == fse.sem > 0 \/ (fse.cf \in {"destroyed", "final"} /\ fse.type = "Closing")

\* The loop waits exactly while its signal is on the way, or taken up and not answered, or answered.
FseWaits ==
    /\ Single(Ahead)
    /\ \A x \in FseItems : Contains(Ahead, x) /\ x[2] = "Closing" =>
         fse.waiting # "none" /\ x = <<fse.waiting, "Closing">> /\ ~TakenUp
    /\ TakenUp => fse.waiting # "none"
    /\ fse.waiting # "none" => TakenUp \/ Contains(Ahead, <<fse.waiting, "Closing">>)
    /\ fse.sem <= 1
    /\ fse.sem > 0 => ~(fse.cf \in {"destroyed", "final"} /\ fse.type = "Closing")

\* The stream covers a watcher that left the list only until it is rebuilt.
FseStream ==
    /\ \A h \in fse.stream : Contains(fse.handles, h) \/ h = fse.waiting
    /\ ~fse.need => fse.waiting \notin fse.stream
    /\ TakenUp => ~fse.need

\* Whoever has something queued will be told, or is being closed.
FseSent ==
    /\ \A h \in Dirs :
         /\ h \in fse.cf_cb \/ h \in fse.sent \/ h \in fse.cf_error => h \in fse.active \/ h = fse.waiting
         /\ fse.cf_events[h] # <<>> \/ h \in fse.cf_error => h \in fse.sent \/ h = fse.waiting

\* A file that is watched is open, and its filter is there unless its callback runs.
FseFiles ==
    /\ \A h \in Files :
         /\ h \in fse.fd <=> h \in fse.active
         /\ h \in fse.armed \/ h \in fse.fired => h \in fse.fd
         /\ h \in fse.active =>
              h \in fse.armed \/ h \in fse.fired \/ (fse.pc = "file_callback" /\ fse.who = h)

FseInv == /\ FseTyped /\ FseLists /\ FseSignals /\ FseWaits /\ FseStream /\ FseSent /\ FseFiles

LEMMA FseOps ==
    /\ \A q, x : FsEvents!Unlink(q, x) = Unlink(q, x)
    /\ \A q : FsEvents!Range(q) = Range(q)
<1>1. \A q, x : FsEvents!Unlink(q, x) = Unlink(q, x)
  BY DEF FsEvents!Unlink, Unlink
<1>2. \A q : FsEvents!Range(q) = Range(q)
  BY DEF FsEvents!Range, Range
<1> QED BY <1>1, <1>2

LEMMA WholeQueue ==
    ASSUME NEW S, NEW q \in Seq(S)
    PROVE  SubSeq(q, 1, Len(q)) = q
  OBVIOUS

LEMMA AppendSignal ==
    ASSUME NEW p \in Seq(FseItems), NEW q \in Seq(FseItems), NEW x \in FseItems
    PROVE  p \o Append(q, x) = Append(p \o q, x)
  BY AppendConcat

LEMMA TakeSignal ==
    ASSUME NEW p \in Seq(FseItems), NEW q \in Seq(FseItems), p # <<>>
    PROVE  p \o q # <<>> /\ Head(p \o q) = Head(p) /\ Tail(p \o q) = Tail(p) \o q
  BY TailConcat

LEMMA SingleAppend ==
    ASSUME NEW S, NEW q \in Seq(S), NEW x \in S, Single(q),
           x[2] = "Closing" => \A y \in S : Contains(q, y) => y[2] # "Closing"
    PROVE  Single(Append(q, x))
  BY DEF Single, Contains

LEMMA SingleTail ==
    ASSUME NEW S, NEW q \in Seq(S), q # <<>>, Single(q)
    PROVE  /\ Single(Tail(q))
           /\ Head(q)[2] = "Closing" => \A y : Contains(Tail(q), y) => y[2] # "Closing"
<1>1. /\ Len(Tail(q)) = Len(q) - 1 /\ Head(q) = q[1] /\ Len(q) \in Nat \ {0}
      /\ \A i \in 1..Len(q) - 1 : Tail(q)[i] = q[i + 1]
  BY HeadTailProperties, EmptySeq
<1>2. Single(Tail(q))
  BY <1>1 DEF Single
<1>3. ASSUME Head(q)[2] = "Closing", NEW y, Contains(Tail(q), y) PROVE y[2] # "Closing"
  <2>1. PICK i \in 1..Len(q) - 1 : q[i + 1] = y
    BY <1>1, <1>3 DEF Contains
  <2>2. i + 1 \in 1..Len(q) /\ 1 \in 1..Len(q) /\ i + 1 # 1
    BY <1>1
  <2> QED BY <1>1, <1>3, <2>1, <2>2 DEF Single
<1> QED BY <1>2, <1>3

LEMMA FseBegins ==
    ASSUME FseConstants, FsEvents!Init
    PROVE  FseInv
<1>1. FseTyped
  BY EmptySeq DEF FseConstants, FsEvents!Init, FseTyped, FseQueues, FseSets, FseFields, FsEvents!Handles
<1>2. Ahead = <<>> /\ fse.handles = <<>> /\ fse.batch = <<>>
  BY DEF FsEvents!Init, Ahead
<1>3. FseLists
  BY <1>2, EmptyQueue DEF FsEvents!Init, FseLists, FseConstants, FsEvents!Handles
<1>4. FseSignals
  BY <1>2 DEF FsEvents!Init, FseSignals
<1>5. FseWaits
  BY <1>2, EmptyQueue DEF FsEvents!Init, FseWaits, Single, TakenUp
<1>6. FseStream
  BY DEF FsEvents!Init, FseStream, TakenUp, FseConstants, FsEvents!Handles
<1>7. FseSent
  BY DEF FsEvents!Init, FseSent
<1>8. FseFiles
  BY DEF FsEvents!Init, FseFiles
<1> QED BY <1>1, <1>3, <1>4, <1>5, <1>6, <1>7, <1>8 DEF FseInv

LEMMA FseLoop ==
    ASSUME FseConstants, FseInv, FsEvents!Loop
    PROVE  FseInv'
<1> FseConstants /\ (DOMAIN fse = FseFields) /\ FseQueues /\ FseSets /\ FseLists /\ FseSignals
         /\ FseWaits /\ FseStream /\ FseSent /\ FseFiles
  BY DEF FseInv, FseTyped
<1>1. ASSUME NEW h \in Dirs, FsEvents!StartDir(h) PROVE FseInv'
  <2>x. PICK x \in FseItems : x = <<h, "Regular">>
    BY DEF FseItems
  <2>x1. h \in FsEvents!Handles /\ h # "none" /\ h \notin Files /\ "none" \notin Dirs
    BY DEF FseConstants, FsEvents!Handles
  <2>a. /\ fse.cf_signals \in Seq(FseItems) /\ fse.batch \in Seq(FseItems)
        /\ Append(fse.cf_signals, x) \in Seq(FseItems)
    BY AppendQueue DEF FseQueues
  <2>u. /\ DOMAIN fse' = DOMAIN fse /\ fse'.cf_signals = Append(fse.cf_signals, x)
        /\ fse'.handles = Append(fse.handles, h) /\ fse'.count = fse.count + 1
        /\ fse'.need = TRUE /\ fse'.cf_events = [fse.cf_events EXCEPT ![h] = <<>>]
        /\ fse'.cf_error = fse.cf_error \ {h} /\ fse'.cf_cb = fse.cf_cb \union {h}
        /\ fse'.active = fse.active \union {h} /\ fse'.path = fse.path \union {h}
        /\ fse'.cf = fse.cf /\ fse'.type = fse.type /\ fse'.batch = fse.batch
        /\ fse'.stream = fse.stream /\ fse'.sem = fse.sem /\ fse'.pc = fse.pc
        /\ fse'.who = fse.who /\ fse'.waiting = fse.waiting /\ fse'.sent = fse.sent
        /\ fse'.closing = fse.closing /\ fse'.fd = fse.fd /\ fse'.armed = fse.armed
        /\ fse'.fired = fse.fired /\ fse'.taken = fse.taken /\ fse'.happened = fse.happened
    BY <1>1, <2>x, ZenonT(60) DEF FsEvents!StartDir, FsEvents!Program, FseTyped, FseFields
  <2>g. /\ fse.waiting = "none" /\ h \notin fse.active /\ h \notin fse.closing
    BY <1>1 DEF FsEvents!StartDir, FsEvents!Program
  <2>a2. fse.batch \o Append(fse.cf_signals, x) = Append(fse.batch \o fse.cf_signals, x)
    BY <2>a, AppendSignal
  <2>b. Ahead' = Append(Ahead, x)
    BY <2>u, <2>a2 DEF Ahead
  <2>c. Ahead \in Seq(FseItems)
    BY <2>a, ConcatQueue DEF Ahead
  <2>d. /\ \A y : Contains(Ahead', y) <=> Contains(Ahead, y) \/ y = x
        /\ Ahead' # <<>>
    BY <2>a, <2>b, <2>c, AppendQueue, EmptyQueue
  <2>e. Single(Ahead')
    BY <2>x, <2>b, <2>c, SingleAppend DEF FseWaits
  <2>f. /\ Append(fse.handles, h) \in Seq(Dirs) /\ Len(Append(fse.handles, h)) = Len(fse.handles) + 1
        /\ \A y : Contains(Append(fse.handles, h), y) <=> Contains(fse.handles, y) \/ y = h
        /\ Distinct(Append(fse.handles, h))
    BY <2>g, AppendQueue, AppendProperties DEF FseQueues, FseLists
  <2>q. fse.count + 1 \in Int /\ [fse.cf_events EXCEPT ![h] = <<>>] \in [Dirs -> Seq(Nat)]
    BY EmptySeq DEF FseQueues
  <2>1. (DOMAIN fse = FseFields)'
    BY <2>u, <2>g DEF FseTyped
  <2>2. FseQueues'
    BY <2>u, <2>g, <2>a, <2>f, <2>q DEF FseQueues
  <2>3. FseSets'
    BY <2>u, <2>g, <2>x1 DEF FseSets
  <2>4. FseLists'
    BY <2>u, <2>g, <2>f, <2>x1 DEF FseLists, FseConstants
  <2>5. FseSignals'
    BY <2>u, <2>g, <2>d DEF FseSignals
  <2>6. FseWaits'
    BY <2>u, <2>g, <2>x, <2>d, <2>e DEF FseWaits, TakenUp
  <2>7. FseStream'
    BY <2>u, <2>g, <2>f, <2>x1 DEF FseStream, TakenUp, FseWaits, FseSets
  <2>8. FseSent'
    BY <2>u, <2>g, <2>x1 DEF FseSent, FseQueues
  <2>9. FseFiles'
    BY <2>u, <2>g, <2>x1 DEF FseFiles
  <2> QED BY <2>1, <2>2, <2>3, <2>4, <2>5, <2>6, <2>7, <2>8, <2>9 DEF FseInv, FseTyped
<1>2. ASSUME NEW h \in Dirs, NEW c \in BOOLEAN, FsEvents!StopDir(h, c) PROVE FseInv'
  <2>x. PICK x \in FseItems : x = <<h, "Closing">>
    BY DEF FseItems
  <2>x1. h \in FsEvents!Handles /\ h # "none" /\ h \notin Files /\ "none" \notin Dirs
    BY DEF FseConstants, FsEvents!Handles
  <2>a. /\ fse.cf_signals \in Seq(FseItems) /\ fse.batch \in Seq(FseItems)
        /\ Append(fse.cf_signals, x) \in Seq(FseItems)
    BY AppendQueue DEF FseQueues
  <2>u. /\ DOMAIN fse' = DOMAIN fse /\ fse'.cf_signals = Append(fse.cf_signals, x)
        /\ fse'.handles = Unlink(fse.handles, h) /\ fse'.count = fse.count - 1
        /\ fse'.need = TRUE /\ fse'.waiting = h /\ fse'.active = fse.active \ {h}
        /\ fse'.closing = (IF c THEN fse.closing \union {h} ELSE fse.closing)
        /\ fse'.cf = fse.cf /\ fse'.type = fse.type /\ fse'.batch = fse.batch
        /\ fse'.stream = fse.stream /\ fse'.sem = fse.sem /\ fse'.pc = fse.pc
        /\ fse'.who = fse.who /\ fse'.cf_events = fse.cf_events /\ fse'.cf_error = fse.cf_error
        /\ fse'.sent = fse.sent /\ fse'.cf_cb = fse.cf_cb /\ fse'.fd = fse.fd
        /\ fse'.armed = fse.armed /\ fse'.fired = fse.fired /\ fse'.path = fse.path
        /\ fse'.taken = fse.taken /\ fse'.happened = fse.happened
    BY <1>2, <2>x, FseOps DEF FsEvents!StopDir, FsEvents!Program, FsEvents!CountAfter, FseTyped, FseFields
  <2>g. /\ fse.waiting = "none" /\ h \in fse.active
    BY <1>2 DEF FsEvents!StopDir, FsEvents!Program, FsEvents!CountAfter
  <2>a2. fse.batch \o Append(fse.cf_signals, x) = Append(fse.batch \o fse.cf_signals, x)
    BY <2>a, AppendSignal
  <2>b. Ahead' = Append(Ahead, x)
    BY <2>u, <2>a2 DEF Ahead
  <2>c. Ahead \in Seq(FseItems)
    BY <2>a, ConcatQueue DEF Ahead
  <2>d. /\ \A y : Contains(Ahead', y) <=> Contains(Ahead, y) \/ y = x
        /\ Ahead' # <<>>
    BY <2>a, <2>b, <2>c, AppendQueue, EmptyQueue
  <2>e. Single(Ahead')
    BY <2>g, <2>x, <2>b, <2>c, SingleAppend DEF FseWaits
  <2>f. /\ Unlink(fse.handles, h) \in Seq(Dirs) /\ Distinct(Unlink(fse.handles, h))
        /\ \A y : Contains(Unlink(fse.handles, h), y) <=> Contains(fse.handles, y) /\ y # h
        /\ Len(Unlink(fse.handles, h)) = Len(fse.handles) - 1
    BY <2>g, UnlinkDistinct, UnlinkIndices DEF FseQueues, FseLists
  <2>q. fse.count - 1 \in Int
    BY DEF FseQueues
  <2>1. (DOMAIN fse = FseFields)'
    BY <2>u, <2>g DEF FseTyped
  <2>2. FseQueues'
    BY <2>u, <2>g, <2>a, <2>f, <2>q DEF FseQueues
  <2>3. FseSets'
    BY <2>u, <2>g, <2>x1 DEF FseSets
  <2>4. FseLists'
    BY <2>u, <2>g, <2>f, <2>x1 DEF FseLists, FseConstants
  <2>5. FseSignals'
    BY <2>u, <2>g, <2>d DEF FseSignals
  <2>6. FseWaits'
    BY <2>u, <2>g, <2>x, <2>x1, <2>d, <2>e DEF FseWaits, TakenUp
  <2>7. FseStream'
    BY <2>u, <2>g, <2>f, <2>x1 DEF FseStream, TakenUp, FseWaits, FseSets
  <2>8. FseSent'
    BY <2>u, <2>g, <2>x1 DEF FseSent
  <2>9. FseFiles'
    BY <2>u, <2>g, <2>x1 DEF FseFiles
  <2> QED BY <2>1, <2>2, <2>3, <2>4, <2>5, <2>6, <2>7, <2>8, <2>9 DEF FseInv, FseTyped
<1>3. ASSUME NEW h \in Dirs, FsEvents!AsyncCb(h) PROVE FseInv'
  <2>u. /\ DOMAIN fse' = DOMAIN fse /\ fse'.pc = "deliver" /\ fse'.who = h
        /\ fse'.cf_events = [fse.cf_events EXCEPT ![h] = <<>>]
        /\ fse'.cf_error = fse.cf_error \ {h} /\ fse'.sent = fse.sent \ {h}
        /\ fse'.taken = fse.cf_events[h] /\ fse'.cf = fse.cf /\ fse'.type = fse.type
        /\ fse'.batch = fse.batch /\ fse'.cf_signals = fse.cf_signals
        /\ fse'.handles = fse.handles /\ fse'.count = fse.count /\ fse'.need = fse.need
        /\ fse'.stream = fse.stream /\ fse'.sem = fse.sem /\ fse'.waiting = fse.waiting
        /\ fse'.cf_cb = fse.cf_cb /\ fse'.active = fse.active /\ fse'.closing = fse.closing
        /\ fse'.fd = fse.fd /\ fse'.armed = fse.armed /\ fse'.fired = fse.fired
        /\ fse'.path = fse.path /\ fse'.happened = fse.happened
    BY <1>3 DEF FsEvents!AsyncCb, FseTyped, FseFields
  <2>g. fse.pc = "program"
    BY <1>3 DEF FsEvents!AsyncCb
  <2>a. Ahead' = Ahead
    BY <2>u DEF Ahead
  <2>b. h \in FsEvents!Handles /\ h \notin Files
    BY DEF FsEvents!Handles, FseConstants
  <2>1. (DOMAIN fse = FseFields)'
    BY <2>u, <2>g DEF FseTyped
  <2>2. FseQueues'
    BY <2>u, <2>g, EmptySeq, <2>b DEF FseQueues
  <2>3. FseSets'
    BY <2>u, <2>g DEF FseSets
  <2>4. FseLists'
    BY <2>u, <2>g DEF FseLists, FseConstants
  <2>5. FseSignals'
    BY <2>u, <2>g, <2>a DEF FseSignals
  <2>6. FseWaits'
    BY <2>u, <2>g, <2>a DEF FseWaits, TakenUp
  <2>7. FseStream'
    BY <2>u, <2>g DEF FseStream, TakenUp, FseWaits, FseSets
  <2>8. FseSent'
    BY <2>u, <2>g DEF FseSent, FseQueues
  <2>9. FseFiles'
    BY <2>u, <2>g, <2>b DEF FseFiles
  <2> QED BY <2>1, <2>2, <2>3, <2>4, <2>5, <2>6, <2>7, <2>8, <2>9 DEF FseInv, FseTyped
<1>4. ASSUME NEW h \in Files, FsEvents!StartFile(h) PROVE FseInv'
  <2>u. /\ DOMAIN fse' = DOMAIN fse /\ fse'.active = fse.active \union {h}
        /\ fse'.fd = fse.fd \union {h} /\ fse'.armed = fse.armed \union {h}
        /\ fse'.path = fse.path \union {h} /\ fse'.cf = fse.cf /\ fse'.type = fse.type
        /\ fse'.batch = fse.batch /\ fse'.cf_signals = fse.cf_signals
        /\ fse'.handles = fse.handles /\ fse'.count = fse.count /\ fse'.need = fse.need
        /\ fse'.stream = fse.stream /\ fse'.sem = fse.sem /\ fse'.pc = fse.pc
        /\ fse'.who = fse.who /\ fse'.waiting = fse.waiting /\ fse'.cf_events = fse.cf_events
        /\ fse'.cf_error = fse.cf_error /\ fse'.sent = fse.sent /\ fse'.cf_cb = fse.cf_cb
        /\ fse'.closing = fse.closing /\ fse'.fired = fse.fired /\ fse'.taken = fse.taken
        /\ fse'.happened = fse.happened
    BY <1>4 DEF FsEvents!StartFile, FsEvents!Program, FseTyped, FseFields
  <2>g. h \notin fse.closing /\ fse.waiting = "none"
    BY <1>4 DEF FsEvents!StartFile, FsEvents!Program
  <2>a. Ahead' = Ahead
    BY <2>u DEF Ahead
  <2>b. h \in FsEvents!Handles /\ h \notin Dirs /\ h # "none"
    BY DEF FsEvents!Handles, FseConstants
  <2>1. (DOMAIN fse = FseFields)'
    BY <2>u, <2>g DEF FseTyped
  <2>2. FseQueues'
    BY <2>u, <2>g DEF FseQueues
  <2>3. FseSets'
    BY <2>u, <2>g, <2>b DEF FseSets
  <2>4. FseLists'
    BY <2>u, <2>g, <2>b DEF FseLists, FseConstants
  <2>5. FseSignals'
    BY <2>u, <2>g, <2>a DEF FseSignals
  <2>6. FseWaits'
    BY <2>u, <2>g, <2>a DEF FseWaits, TakenUp
  <2>7. FseStream'
    BY <2>u, <2>g DEF FseStream, TakenUp, FseWaits, FseSets
  <2>8. FseSent'
    BY <2>u, <2>g, <2>b DEF FseSent
  <2>9. FseFiles'
    BY <2>u, <2>g DEF FseFiles
  <2> QED BY <2>1, <2>2, <2>3, <2>4, <2>5, <2>6, <2>7, <2>8, <2>9 DEF FseInv, FseTyped
<1>5. ASSUME NEW h \in Files, NEW c \in BOOLEAN, FsEvents!StopFile(h, c) PROVE FseInv'
  <2>u. /\ DOMAIN fse' = DOMAIN fse /\ fse'.active = fse.active \ {h}
        /\ fse'.closing = (IF c THEN fse.closing \union {h} ELSE fse.closing)
        /\ fse'.fd = fse.fd \ {h} /\ fse'.armed = fse.armed \ {h}
        /\ fse'.fired = fse.fired \ {h} /\ fse'.path = fse.path \ {h} /\ fse'.cf = fse.cf
        /\ fse'.type = fse.type /\ fse'.batch = fse.batch /\ fse'.cf_signals = fse.cf_signals
        /\ fse'.handles = fse.handles /\ fse'.count = fse.count /\ fse'.need = fse.need
        /\ fse'.stream = fse.stream /\ fse'.sem = fse.sem /\ fse'.pc = fse.pc
        /\ fse'.who = fse.who /\ fse'.waiting = fse.waiting /\ fse'.cf_events = fse.cf_events
        /\ fse'.cf_error = fse.cf_error /\ fse'.sent = fse.sent /\ fse'.cf_cb = fse.cf_cb
        /\ fse'.taken = fse.taken /\ fse'.happened = fse.happened
    BY <1>5 DEF FsEvents!StopFile, FsEvents!Program, FseTyped, FseFields
  <2>g. fse.waiting = "none"
    BY <1>5 DEF FsEvents!StopFile, FsEvents!Program
  <2>a. Ahead' = Ahead
    BY <2>u DEF Ahead
  <2>b. h \in FsEvents!Handles /\ h \notin Dirs /\ h # "none"
    BY DEF FsEvents!Handles, FseConstants
  <2>1. (DOMAIN fse = FseFields)'
    BY <2>u, <2>g DEF FseTyped
  <2>2. FseQueues'
    BY <2>u, <2>g DEF FseQueues
  <2>3. FseSets'
    BY <2>u, <2>g, <2>b DEF FseSets
  <2>4. FseLists'
    BY <2>u, <2>g, <2>b DEF FseLists, FseConstants
  <2>5. FseSignals'
    BY <2>u, <2>g, <2>a DEF FseSignals
  <2>6. FseWaits'
    BY <2>u, <2>g, <2>a DEF FseWaits, TakenUp
  <2>7. FseStream'
    BY <2>u, <2>g DEF FseStream, TakenUp, FseWaits, FseSets
  <2>8. FseSent'
    BY <2>u, <2>g, <2>b DEF FseSent
  <2>9. FseFiles'
    BY <2>u, <2>g DEF FseFiles
  <2> QED BY <2>1, <2>2, <2>3, <2>4, <2>5, <2>6, <2>7, <2>8, <2>9 DEF FseInv, FseTyped
<1>6. ASSUME NEW h \in Files, FsEvents!FsEvent(h) PROVE FseInv'
  <2>u. /\ DOMAIN fse' = DOMAIN fse /\ fse'.pc = "file_callback" /\ fse'.who = h
        /\ fse'.fired = fse.fired \ {h} /\ fse'.cf = fse.cf /\ fse'.type = fse.type
        /\ fse'.batch = fse.batch /\ fse'.cf_signals = fse.cf_signals
        /\ fse'.handles = fse.handles /\ fse'.count = fse.count /\ fse'.need = fse.need
        /\ fse'.stream = fse.stream /\ fse'.sem = fse.sem /\ fse'.waiting = fse.waiting
        /\ fse'.cf_events = fse.cf_events /\ fse'.cf_error = fse.cf_error
        /\ fse'.sent = fse.sent /\ fse'.cf_cb = fse.cf_cb /\ fse'.active = fse.active
        /\ fse'.closing = fse.closing /\ fse'.fd = fse.fd /\ fse'.armed = fse.armed
        /\ fse'.path = fse.path /\ fse'.taken = fse.taken /\ fse'.happened = fse.happened
    BY <1>6 DEF FsEvents!FsEvent, FseTyped, FseFields
  <2>g. fse.pc = "program"
    BY <1>6 DEF FsEvents!FsEvent
  <2>a. Ahead' = Ahead
    BY <2>u DEF Ahead
  <2>b. h \in FsEvents!Handles
    BY DEF FsEvents!Handles
  <2>1. (DOMAIN fse = FseFields)'
    BY <2>u, <2>g DEF FseTyped
  <2>2. FseQueues'
    BY <2>u, <2>g, <2>b DEF FseQueues
  <2>3. FseSets'
    BY <2>u, <2>g DEF FseSets
  <2>4. FseLists'
    BY <2>u, <2>g DEF FseLists, FseConstants
  <2>5. FseSignals'
    BY <2>u, <2>g, <2>a DEF FseSignals
  <2>6. FseWaits'
    BY <2>u, <2>g, <2>a DEF FseWaits, TakenUp
  <2>7. FseStream'
    BY <2>u, <2>g DEF FseStream, TakenUp, FseWaits, FseSets
  <2>8. FseSent'
    BY <2>u, <2>g DEF FseSent
  <2>9. FseFiles'
    BY <2>u, <2>g DEF FseFiles
  <2> QED BY <2>1, <2>2, <2>3, <2>4, <2>5, <2>6, <2>7, <2>8, <2>9 DEF FseInv, FseTyped
<1>7. ASSUME NEW h \in FsEvents!Handles, FsEvents!CloseStopped(h) PROVE FseInv'
  <2>u. /\ DOMAIN fse' = DOMAIN fse /\ fse'.closing = fse.closing \union {h} /\ fse'.cf = fse.cf
        /\ fse'.type = fse.type /\ fse'.batch = fse.batch /\ fse'.cf_signals = fse.cf_signals
        /\ fse'.handles = fse.handles /\ fse'.count = fse.count /\ fse'.need = fse.need
        /\ fse'.stream = fse.stream /\ fse'.sem = fse.sem /\ fse'.pc = fse.pc
        /\ fse'.who = fse.who /\ fse'.waiting = fse.waiting /\ fse'.cf_events = fse.cf_events
        /\ fse'.cf_error = fse.cf_error /\ fse'.sent = fse.sent /\ fse'.cf_cb = fse.cf_cb
        /\ fse'.active = fse.active /\ fse'.fd = fse.fd /\ fse'.armed = fse.armed
        /\ fse'.fired = fse.fired /\ fse'.path = fse.path /\ fse'.taken = fse.taken
        /\ fse'.happened = fse.happened
    BY <1>7 DEF FsEvents!CloseStopped, FsEvents!Program, FseTyped, FseFields
  <2>g. h \notin fse.active
    BY <1>7 DEF FsEvents!CloseStopped, FsEvents!Program
  <2>a. Ahead' = Ahead
    BY <2>u DEF Ahead
  <2>1. (DOMAIN fse = FseFields)'
    BY <2>u, <2>g DEF FseTyped
  <2>2. FseQueues'
    BY <2>u, <2>g DEF FseQueues
  <2>3. FseSets'
    BY <2>u, <2>g DEF FseSets
  <2>4. FseLists'
    BY <2>u, <2>g DEF FseLists, FseConstants
  <2>5. FseSignals'
    BY <2>u, <2>g, <2>a DEF FseSignals
  <2>6. FseWaits'
    BY <2>u, <2>g, <2>a DEF FseWaits, TakenUp
  <2>7. FseStream'
    BY <2>u, <2>g DEF FseStream, TakenUp, FseWaits, FseSets
  <2>8. FseSent'
    BY <2>u, <2>g DEF FseSent
  <2>9. FseFiles'
    BY <2>u, <2>g DEF FseFiles
  <2> QED BY <2>1, <2>2, <2>3, <2>4, <2>5, <2>6, <2>7, <2>8, <2>9 DEF FseInv, FseTyped
<1>8. CASE FsEvents!SemWaited
  <2>u. /\ DOMAIN fse' = DOMAIN fse /\ fse'.sem = fse.sem - 1 /\ fse'.waiting = "none"
        /\ fse'.cf_events = [fse.cf_events EXCEPT ![fse.waiting] = <<>>]
        /\ fse'.cf_error = fse.cf_error \ {fse.waiting} /\ fse'.sent = fse.sent \ {fse.waiting}
        /\ fse'.cf_cb = fse.cf_cb \ {fse.waiting} /\ fse'.path = fse.path \ {fse.waiting}
        /\ fse'.cf = fse.cf /\ fse'.type = fse.type /\ fse'.batch = fse.batch
        /\ fse'.cf_signals = fse.cf_signals /\ fse'.handles = fse.handles
        /\ fse'.count = fse.count /\ fse'.need = fse.need /\ fse'.stream = fse.stream
        /\ fse'.pc = fse.pc /\ fse'.who = fse.who /\ fse'.active = fse.active
        /\ fse'.closing = fse.closing /\ fse'.fd = fse.fd /\ fse'.armed = fse.armed
        /\ fse'.fired = fse.fired /\ fse'.taken = fse.taken /\ fse'.happened = fse.happened
    BY <1>8 DEF FsEvents!SemWaited, FseTyped, FseFields
  <2>g. fse.waiting # "none" /\ fse.sem > 0
    BY <1>8 DEF FsEvents!SemWaited
  <2>a. Ahead' = Ahead
    BY <2>u DEF Ahead
  <2>b. fse.waiting \in Dirs /\ "none" \notin FsEvents!Handles
    BY <2>g DEF FseQueues, FseConstants
  <2>1. (DOMAIN fse = FseFields)'
    BY <2>u, <2>g DEF FseTyped
  <2>2. FseQueues'
    BY <2>u, <2>g, EmptySeq, <2>b DEF FseQueues
  <2>3. FseSets'
    BY <2>u, <2>g DEF FseSets
  <2>4. FseLists'
    BY <2>u, <2>g, <2>b DEF FseLists, FseConstants, FseSets
  <2>5. FseSignals'
    BY <2>u, <2>g, <2>a DEF FseSignals
  <2>6. FseWaits'
    BY <2>u, <2>g, <2>a DEF FseWaits, TakenUp, FseQueues
  <2>7. FseStream'
    BY <2>u, <2>g, <2>b DEF FseStream, TakenUp, FseWaits, FseSets, FseQueues, FsEvents!Handles
  <2>8. FseSent'
    BY <2>u, <2>g, <2>b DEF FseSent, FseQueues
  <2>9. FseFiles'
    BY <2>u, <2>g, <2>b DEF FseFiles
  <2> QED BY <2>1, <2>2, <2>3, <2>4, <2>5, <2>6, <2>7, <2>8, <2>9 DEF FseInv, FseTyped
<1>9. CASE FsEvents!Deliver
  <2>p. PICK p \in {"callback", "deliver"} : p = fse'.pc
    BY <1>9 DEF FsEvents!Deliver, FseTyped, FseFields
  <2>t. Tail(fse.taken) \in Seq(Nat)
    BY <1>9, TailQueue DEF FsEvents!Deliver, FseQueues
  <2>u. /\ DOMAIN fse' = DOMAIN fse /\ fse'.pc = p /\ fse'.taken = Tail(fse.taken)
        /\ fse'.cf = fse.cf /\ fse'.type = fse.type /\ fse'.batch = fse.batch
        /\ fse'.cf_signals = fse.cf_signals /\ fse'.handles = fse.handles
        /\ fse'.count = fse.count /\ fse'.need = fse.need /\ fse'.stream = fse.stream
        /\ fse'.sem = fse.sem /\ fse'.who = fse.who /\ fse'.waiting = fse.waiting
        /\ fse'.cf_events = fse.cf_events /\ fse'.cf_error = fse.cf_error
        /\ fse'.sent = fse.sent /\ fse'.cf_cb = fse.cf_cb /\ fse'.active = fse.active
        /\ fse'.closing = fse.closing /\ fse'.fd = fse.fd /\ fse'.armed = fse.armed
        /\ fse'.fired = fse.fired /\ fse'.path = fse.path /\ fse'.happened = fse.happened
    BY <1>9, <2>p DEF FsEvents!Deliver, FseTyped, FseFields
  <2>g. fse.pc = "deliver"
    BY <1>9 DEF FsEvents!Deliver
  <2>a. Ahead' = Ahead
    BY <2>u DEF Ahead
  <2>1. (DOMAIN fse = FseFields)'
    BY <2>u, <2>g DEF FseTyped
  <2>2. FseQueues'
    BY <2>u, <2>g, <2>t DEF FseQueues
  <2>3. FseSets'
    BY <2>u, <2>g DEF FseSets
  <2>4. FseLists'
    BY <2>u, <2>g DEF FseLists, FseConstants
  <2>5. FseSignals'
    BY <2>u, <2>g, <2>a DEF FseSignals
  <2>6. FseWaits'
    BY <2>u, <2>g, <2>a DEF FseWaits, TakenUp
  <2>7. FseStream'
    BY <2>u, <2>g DEF FseStream, TakenUp, FseWaits, FseSets
  <2>8. FseSent'
    BY <2>u, <2>g DEF FseSent
  <2>9. FseFiles'
    BY <2>u, <2>g DEF FseFiles
  <2> QED BY <2>1, <2>2, <2>3, <2>4, <2>5, <2>6, <2>7, <2>8, <2>9 DEF FseInv, FseTyped
<1>10. CASE FsEvents!DeliverError
  <2>p. PICK p \in {"callback", "program"}, w \in {fse.who, "none"} : fse'.pc = p /\ fse'.who = w
    BY <1>10 DEF FsEvents!DeliverError, FseTyped, FseFields
  <2>u. /\ DOMAIN fse' = DOMAIN fse /\ fse'.pc = p /\ fse'.who = w /\ fse'.cf = fse.cf
        /\ fse'.type = fse.type /\ fse'.batch = fse.batch /\ fse'.cf_signals = fse.cf_signals
        /\ fse'.handles = fse.handles /\ fse'.count = fse.count /\ fse'.need = fse.need
        /\ fse'.stream = fse.stream /\ fse'.sem = fse.sem /\ fse'.waiting = fse.waiting
        /\ fse'.cf_events = fse.cf_events /\ fse'.cf_error = fse.cf_error
        /\ fse'.sent = fse.sent /\ fse'.cf_cb = fse.cf_cb /\ fse'.active = fse.active
        /\ fse'.closing = fse.closing /\ fse'.fd = fse.fd /\ fse'.armed = fse.armed
        /\ fse'.fired = fse.fired /\ fse'.path = fse.path /\ fse'.taken = fse.taken
        /\ fse'.happened = fse.happened
    BY <1>10, <2>p DEF FsEvents!DeliverError, FseTyped, FseFields
  <2>g. fse.pc = "deliver"
    BY <1>10 DEF FsEvents!DeliverError
  <2>a. Ahead' = Ahead
    BY <2>u DEF Ahead
  <2>1. (DOMAIN fse = FseFields)'
    BY <2>u, <2>g DEF FseTyped
  <2>2. FseQueues'
    BY <2>u, <2>g DEF FseQueues
  <2>3. FseSets'
    BY <2>u, <2>g DEF FseSets
  <2>4. FseLists'
    BY <2>u, <2>g DEF FseLists, FseConstants
  <2>5. FseSignals'
    BY <2>u, <2>g, <2>a DEF FseSignals
  <2>6. FseWaits'
    BY <2>u, <2>g, <2>a DEF FseWaits, TakenUp
  <2>7. FseStream'
    BY <2>u, <2>g DEF FseStream, TakenUp, FseWaits, FseSets
  <2>8. FseSent'
    BY <2>u, <2>g DEF FseSent
  <2>9. FseFiles'
    BY <2>u, <2>g DEF FseFiles
  <2> QED BY <2>1, <2>2, <2>3, <2>4, <2>5, <2>6, <2>7, <2>8, <2>9 DEF FseInv, FseTyped
<1>11. CASE FsEvents!CallbackReturns
  <2>u. /\ DOMAIN fse' = DOMAIN fse /\ fse'.pc = "deliver" /\ fse'.cf = fse.cf
        /\ fse'.type = fse.type /\ fse'.batch = fse.batch /\ fse'.cf_signals = fse.cf_signals
        /\ fse'.handles = fse.handles /\ fse'.count = fse.count /\ fse'.need = fse.need
        /\ fse'.stream = fse.stream /\ fse'.sem = fse.sem /\ fse'.who = fse.who
        /\ fse'.waiting = fse.waiting /\ fse'.cf_events = fse.cf_events
        /\ fse'.cf_error = fse.cf_error /\ fse'.sent = fse.sent /\ fse'.cf_cb = fse.cf_cb
        /\ fse'.active = fse.active /\ fse'.closing = fse.closing /\ fse'.fd = fse.fd
        /\ fse'.armed = fse.armed /\ fse'.fired = fse.fired /\ fse'.path = fse.path
        /\ fse'.taken = fse.taken /\ fse'.happened = fse.happened
    BY <1>11 DEF FsEvents!CallbackReturns, FseTyped, FseFields
  <2>g. fse.pc = "callback"
    BY <1>11 DEF FsEvents!CallbackReturns
  <2>a. Ahead' = Ahead
    BY <2>u DEF Ahead
  <2>1. (DOMAIN fse = FseFields)'
    BY <2>u, <2>g DEF FseTyped
  <2>2. FseQueues'
    BY <2>u, <2>g DEF FseQueues
  <2>3. FseSets'
    BY <2>u, <2>g DEF FseSets
  <2>4. FseLists'
    BY <2>u, <2>g DEF FseLists, FseConstants
  <2>5. FseSignals'
    BY <2>u, <2>g, <2>a DEF FseSignals
  <2>6. FseWaits'
    BY <2>u, <2>g, <2>a DEF FseWaits, TakenUp
  <2>7. FseStream'
    BY <2>u, <2>g DEF FseStream, TakenUp, FseWaits, FseSets
  <2>8. FseSent'
    BY <2>u, <2>g DEF FseSent
  <2>9. FseFiles'
    BY <2>u, <2>g DEF FseFiles
  <2> QED BY <2>1, <2>2, <2>3, <2>4, <2>5, <2>6, <2>7, <2>8, <2>9 DEF FseInv, FseTyped
<1>12. CASE FsEvents!FsEventReturns
  <2>u. /\ DOMAIN fse' = DOMAIN fse /\ fse'.pc = "program" /\ fse'.who = "none"
        /\ fse'.armed = fse.armed \union FsEvents!Rearms(fse.who) /\ fse'.cf = fse.cf
        /\ fse'.type = fse.type /\ fse'.batch = fse.batch /\ fse'.cf_signals = fse.cf_signals
        /\ fse'.handles = fse.handles /\ fse'.count = fse.count /\ fse'.need = fse.need
        /\ fse'.stream = fse.stream /\ fse'.sem = fse.sem /\ fse'.waiting = fse.waiting
        /\ fse'.cf_events = fse.cf_events /\ fse'.cf_error = fse.cf_error
        /\ fse'.sent = fse.sent /\ fse'.cf_cb = fse.cf_cb /\ fse'.active = fse.active
        /\ fse'.closing = fse.closing /\ fse'.fd = fse.fd /\ fse'.fired = fse.fired
        /\ fse'.path = fse.path /\ fse'.taken = fse.taken /\ fse'.happened = fse.happened
    BY <1>12 DEF FsEvents!FsEventReturns, FseTyped, FseFields
  <2>g. fse.pc = "file_callback"
    BY <1>12 DEF FsEvents!FsEventReturns
  <2>a. Ahead' = Ahead
    BY <2>u DEF Ahead
  <2>1. (DOMAIN fse = FseFields)'
    BY <2>u, <2>g DEF FseTyped
  <2>2. FseQueues'
    BY <2>u, <2>g DEF FseQueues
  <2>3. FseSets'
    BY <2>u, <2>g DEF FseSets, FsEvents!Rearms
  <2>4. FseLists'
    BY <2>u, <2>g DEF FseLists, FseConstants
  <2>5. FseSignals'
    BY <2>u, <2>g, <2>a DEF FseSignals
  <2>6. FseWaits'
    BY <2>u, <2>g, <2>a DEF FseWaits, TakenUp
  <2>7. FseStream'
    BY <2>u, <2>g DEF FseStream, TakenUp, FseWaits, FseSets
  <2>8. FseSent'
    BY <2>u, <2>g DEF FseSent
  <2>9. FseFiles'
    BY <2>u, <2>g DEF FseFiles, FsEvents!Rearms
  <2> QED BY <2>1, <2>2, <2>3, <2>4, <2>5, <2>6, <2>7, <2>8, <2>9 DEF FseInv, FseTyped
<1> QED BY <1>1, <1>2, <1>3, <1>4, <1>5, <1>6, <1>7, <1>8, <1>9, <1>10, <1>11, <1>12 DEF FsEvents!Loop

LEMMA FseCreate ==
    ASSUME FseConstants, FseInv, FsEvents!CreateStream
    PROVE  FseInv'
<1> FseConstants /\ (DOMAIN fse = FseFields) /\ FseQueues /\ FseSets /\ FseLists /\ FseSignals
         /\ FseWaits /\ FseStream /\ FseSent /\ FseFiles
  BY DEF FseInv, FseTyped
<1>c. fse.cf = "destroyed"
  BY DEF FsEvents!CreateStream
<1>1. CASE fse' = [fse EXCEPT !.cf_error = @ \union Range(fse.handles), !.sent = @ \union Range(fse.handles), !.cf = "final"]
  <2>b. /\ \A y : y \in Range(fse.handles) <=> Contains(fse.handles, y)
        /\ \A y : y \in Range(fse.handles) => y \in Dirs
    BY SetOfQueue, RangeQueue DEF FseQueues
  <2>u. /\ DOMAIN fse' = DOMAIN fse /\ fse'.cf = "final"
        /\ fse'.cf_error = fse.cf_error \union Range(fse.handles)
        /\ fse'.sent = fse.sent \union Range(fse.handles) /\ fse'.type = fse.type
        /\ fse'.batch = fse.batch /\ fse'.cf_signals = fse.cf_signals
        /\ fse'.handles = fse.handles /\ fse'.count = fse.count /\ fse'.need = fse.need
        /\ fse'.stream = fse.stream /\ fse'.sem = fse.sem /\ fse'.pc = fse.pc
        /\ fse'.who = fse.who /\ fse'.waiting = fse.waiting /\ fse'.cf_events = fse.cf_events
        /\ fse'.cf_cb = fse.cf_cb /\ fse'.active = fse.active /\ fse'.closing = fse.closing
        /\ fse'.fd = fse.fd /\ fse'.armed = fse.armed /\ fse'.fired = fse.fired
        /\ fse'.path = fse.path /\ fse'.taken = fse.taken /\ fse'.happened = fse.happened
    BY <1>1 DEF FseTyped, FseFields
  <2>a. Ahead' = Ahead
    BY <2>u DEF Ahead
  <2>1. (DOMAIN fse = FseFields)'
    BY <2>u DEF FseTyped
  <2>2. FseQueues'
    BY <2>u DEF FseQueues
  <2>3. FseSets'
    BY <2>u, <2>b DEF FseSets
  <2>4. FseLists'
    BY <2>u DEF FseLists, FseConstants
  <2>5. FseSignals'
    BY <2>u, <2>a, <1>c DEF FseSignals
  <2>6. FseWaits'
    BY <2>u, <2>a, <1>c DEF FseWaits, TakenUp
  <2>7. FseStream'
    BY <2>u, <1>c DEF FseStream, TakenUp, FseWaits, FseSets
  <2>8. FseSent'
    BY <2>u, <2>b DEF FseSent, FseLists
  <2>9. FseFiles'
    BY <2>u DEF FseFiles
  <2> QED BY <2>1, <2>2, <2>3, <2>4, <2>5, <2>6, <2>7, <2>8, <2>9 DEF FseInv, FseTyped
<1>2. CASE fse' = [fse EXCEPT !.stream = Range(SubSeq(fse.handles, 1, fse.count)), !.cf = "final"]
  <2>b. /\ \A y : y \in Range(fse.handles) <=> Contains(fse.handles, y)
        /\ \A y : y \in Range(fse.handles) => y \in Dirs
    BY SetOfQueue, RangeQueue DEF FseQueues
  <2>c. SubSeq(fse.handles, 1, fse.count) = fse.handles
    BY WholeQueue DEF FseLists, FseQueues
  <2>u. /\ DOMAIN fse' = DOMAIN fse /\ fse'.cf = "final" /\ fse'.stream = Range(fse.handles)
        /\ fse'.type = fse.type /\ fse'.batch = fse.batch /\ fse'.cf_signals = fse.cf_signals
        /\ fse'.handles = fse.handles /\ fse'.count = fse.count /\ fse'.need = fse.need
        /\ fse'.sem = fse.sem /\ fse'.pc = fse.pc /\ fse'.who = fse.who
        /\ fse'.waiting = fse.waiting /\ fse'.cf_events = fse.cf_events
        /\ fse'.cf_error = fse.cf_error /\ fse'.sent = fse.sent /\ fse'.cf_cb = fse.cf_cb
        /\ fse'.active = fse.active /\ fse'.closing = fse.closing /\ fse'.fd = fse.fd
        /\ fse'.armed = fse.armed /\ fse'.fired = fse.fired /\ fse'.path = fse.path
        /\ fse'.taken = fse.taken /\ fse'.happened = fse.happened
    BY <1>2, <2>c DEF FseTyped, FseFields
  <2>a. Ahead' = Ahead
    BY <2>u DEF Ahead
  <2>1. (DOMAIN fse = FseFields)'
    BY <2>u DEF FseTyped
  <2>2. FseQueues'
    BY <2>u DEF FseQueues
  <2>3. FseSets'
    BY <2>u, <2>b DEF FseSets
  <2>4. FseLists'
    BY <2>u DEF FseLists, FseConstants
  <2>5. FseSignals'
    BY <2>u, <2>a, <1>c DEF FseSignals
  <2>6. FseWaits'
    BY <2>u, <2>a, <1>c DEF FseWaits, TakenUp
  <2>7. FseStream'
    BY <2>u, <2>b, <1>c DEF FseStream, TakenUp, FseWaits, FseSets, FseLists
  <2>8. FseSent'
    BY <2>u DEF FseSent
  <2>9. FseFiles'
    BY <2>u DEF FseFiles
  <2> QED BY <2>1, <2>2, <2>3, <2>4, <2>5, <2>6, <2>7, <2>8, <2>9 DEF FseInv, FseTyped
<1> QED BY <1>1, <1>2, FseOps DEF FsEvents!CreateStream

LEMMA FseThread ==
    ASSUME FseConstants, FseInv, FsEvents!CfThread
    PROVE  FseInv'
<1> FseConstants /\ (DOMAIN fse = FseFields) /\ FseQueues /\ FseSets /\ FseLists /\ FseSignals
         /\ FseWaits /\ FseStream /\ FseSent /\ FseFiles
  BY DEF FseInv, FseTyped
<1>1. CASE FsEvents!CfLoopCb
  <2>u. /\ DOMAIN fse' = DOMAIN fse /\ fse'.cf = "next" /\ fse'.batch = fse.cf_signals
        /\ fse'.cf_signals = <<>> /\ fse'.type = fse.type /\ fse'.handles = fse.handles
        /\ fse'.count = fse.count /\ fse'.need = fse.need /\ fse'.stream = fse.stream
        /\ fse'.sem = fse.sem /\ fse'.pc = fse.pc /\ fse'.who = fse.who
        /\ fse'.waiting = fse.waiting /\ fse'.cf_events = fse.cf_events
        /\ fse'.cf_error = fse.cf_error /\ fse'.sent = fse.sent /\ fse'.cf_cb = fse.cf_cb
        /\ fse'.active = fse.active /\ fse'.closing = fse.closing /\ fse'.fd = fse.fd
        /\ fse'.armed = fse.armed /\ fse'.fired = fse.fired /\ fse'.path = fse.path
        /\ fse'.taken = fse.taken /\ fse'.happened = fse.happened
    BY <1>1 DEF FsEvents!CfLoopCb, FseTyped, FseFields
  <2>g. /\ fse.cf = "idle" /\ fse.cf_signals # <<>>
    BY <1>1 DEF FsEvents!CfLoopCb
  <2>a0. fse.cf_signals \o <<>> = fse.cf_signals /\ <<>> \o fse.cf_signals = fse.cf_signals
    BY ConcatEmptySeq DEF FseQueues
  <2>a. Ahead' = Ahead
    BY <2>u, <2>g, <2>a0 DEF FseSignals, Ahead
  <2>1. (DOMAIN fse = FseFields)'
    BY <2>u, <2>g DEF FseTyped
  <2>2. FseQueues'
    BY <2>u, <2>g, EmptySeq DEF FseQueues
  <2>3. FseSets'
    BY <2>u, <2>g DEF FseSets
  <2>4. FseLists'
    BY <2>u, <2>g DEF FseLists, FseConstants
  <2>5. FseSignals'
    BY <2>u, <2>g, <2>a DEF FseSignals
  <2>6. FseWaits'
    BY <2>u, <2>g, <2>a DEF FseWaits, TakenUp
  <2>7. FseStream'
    BY <2>u, <2>g DEF FseStream, TakenUp, FseWaits, FseSets
  <2>8. FseSent'
    BY <2>u, <2>g DEF FseSent
  <2>9. FseFiles'
    BY <2>u, <2>g DEF FseFiles
  <2> QED BY <2>1, <2>2, <2>3, <2>4, <2>5, <2>6, <2>7, <2>8, <2>9 DEF FseInv, FseTyped
<1>2. CASE FsEvents!Reschedule
  <2>a. fse.batch # <<>> /\ fse.batch \in Seq(FseItems) /\ fse.cf_signals \in Seq(FseItems)
    BY <1>2 DEF FsEvents!Reschedule, FseQueues
  <2>a0. PICK t \in {"Regular", "Closing"} : t = Head(fse.batch)[2]
    BY <2>a, TailQueue DEF FseItems
  <2>u. /\ DOMAIN fse' = DOMAIN fse /\ fse'.cf = (IF fse.need THEN "destroyed" ELSE "final")
        /\ fse'.type = t /\ fse'.batch = Tail(fse.batch) /\ fse'.need = FALSE
        /\ fse'.stream = (IF fse.need THEN {} ELSE fse.stream)
        /\ fse'.cf_signals = fse.cf_signals /\ fse'.handles = fse.handles
        /\ fse'.count = fse.count /\ fse'.sem = fse.sem /\ fse'.pc = fse.pc
        /\ fse'.who = fse.who /\ fse'.waiting = fse.waiting /\ fse'.cf_events = fse.cf_events
        /\ fse'.cf_error = fse.cf_error /\ fse'.sent = fse.sent /\ fse'.cf_cb = fse.cf_cb
        /\ fse'.active = fse.active /\ fse'.closing = fse.closing /\ fse'.fd = fse.fd
        /\ fse'.armed = fse.armed /\ fse'.fired = fse.fired /\ fse'.path = fse.path
        /\ fse'.taken = fse.taken /\ fse'.happened = fse.happened
    BY <1>2, <2>a0 DEF FsEvents!Reschedule, FseTyped, FseFields
  <2>g. fse.cf = "next"
    BY <1>2 DEF FsEvents!Reschedule
  <2>a1. Tail(fse.batch) \in Seq(FseItems)
    BY <2>a, TailQueue
  <2>a2. /\ fse.batch \o fse.cf_signals # <<>> /\ Head(fse.batch \o fse.cf_signals) = Head(fse.batch)
         /\ Tail(fse.batch \o fse.cf_signals) = Tail(fse.batch) \o fse.cf_signals
         /\ fse.batch \o fse.cf_signals \in Seq(FseItems)
    BY <2>a, TakeSignal, ConcatQueue
  <2>b. /\ Ahead \in Seq(FseItems) /\ Ahead # <<>> /\ Head(Ahead)[2] = t /\ Ahead' = Tail(Ahead)
    BY <2>u, <2>a0, <2>a2 DEF Ahead
  <2>c. /\ Head(Ahead) \in FseItems /\ Contains(Ahead, Head(Ahead))
        /\ \A y : Contains(Ahead, y) <=> Contains(Ahead', y) \/ y = Head(Ahead)
    BY <2>b, TailQueue
  <2>d. Single(Ahead') /\ (t = "Closing" => \A y : Contains(Ahead', y) => y[2] # "Closing")
    BY <2>b, SingleTail DEF FseWaits
  <2>1. (DOMAIN fse = FseFields)'
    BY <2>u, <2>g DEF FseTyped
  <2>2. FseQueues'
    BY <2>u, <2>g, <2>a1, <2>a0 DEF FseQueues
  <2>3. FseSets'
    BY <2>u, <2>g DEF FseSets
  <2>4. FseLists'
    BY <2>u, <2>g DEF FseLists, FseConstants
  <2>5. FseSignals'
    BY <2>u, <2>g, <2>b DEF FseSignals
  <2>6. FseWaits'
    BY <2>u, <2>g, <2>b, <2>c, <2>d, <2>a0 DEF FseWaits, TakenUp
  <2>7. FseStream'
    BY <2>u, <2>g, <2>b, <2>c DEF FseStream, TakenUp, FseWaits, FseSets
  <2>8. FseSent'
    BY <2>u, <2>g DEF FseSent
  <2>9. FseFiles'
    BY <2>u, <2>g DEF FseFiles
  <2> QED BY <2>1, <2>2, <2>3, <2>4, <2>5, <2>6, <2>7, <2>8, <2>9 DEF FseInv, FseTyped
<1>3. CASE FsEvents!Final
  <2>u. /\ DOMAIN fse' = DOMAIN fse /\ fse'.cf = "next"
        /\ fse'.sem = (IF fse.type = "Closing" THEN fse.sem + 1 ELSE fse.sem)
        /\ fse'.type = fse.type /\ fse'.batch = fse.batch /\ fse'.cf_signals = fse.cf_signals
        /\ fse'.handles = fse.handles /\ fse'.count = fse.count /\ fse'.need = fse.need
        /\ fse'.stream = fse.stream /\ fse'.pc = fse.pc /\ fse'.who = fse.who
        /\ fse'.waiting = fse.waiting /\ fse'.cf_events = fse.cf_events
        /\ fse'.cf_error = fse.cf_error /\ fse'.sent = fse.sent /\ fse'.cf_cb = fse.cf_cb
        /\ fse'.active = fse.active /\ fse'.closing = fse.closing /\ fse'.fd = fse.fd
        /\ fse'.armed = fse.armed /\ fse'.fired = fse.fired /\ fse'.path = fse.path
        /\ fse'.taken = fse.taken /\ fse'.happened = fse.happened
    BY <1>3 DEF FsEvents!Final, FsEvents!Posts, FseTyped, FseFields
  <2>g. fse.cf = "final"
    BY <1>3 DEF FsEvents!Final, FsEvents!Posts
  <2>a. Ahead' = Ahead
    BY <2>u DEF Ahead
  <2>1. (DOMAIN fse = FseFields)'
    BY <2>u, <2>g DEF FseTyped
  <2>2. FseQueues'
    BY <2>u, <2>g DEF FseQueues
  <2>3. FseSets'
    BY <2>u, <2>g DEF FseSets
  <2>4. FseLists'
    BY <2>u, <2>g DEF FseLists, FseConstants
  <2>5. FseSignals'
    BY <2>u, <2>g, <2>a DEF FseSignals
  <2>6. FseWaits'
    BY <2>u, <2>g, <2>a DEF FseWaits, TakenUp, FseQueues
  <2>7. FseStream'
    BY <2>u, <2>g DEF FseStream, TakenUp, FseWaits, FseSets
  <2>8. FseSent'
    BY <2>u, <2>g DEF FseSent
  <2>9. FseFiles'
    BY <2>u, <2>g DEF FseFiles
  <2> QED BY <2>1, <2>2, <2>3, <2>4, <2>5, <2>6, <2>7, <2>8, <2>9 DEF FseInv, FseTyped
<1>4. CASE FsEvents!BatchDone
  <2>u. /\ DOMAIN fse' = DOMAIN fse /\ fse'.cf = "idle" /\ fse'.type = fse.type
        /\ fse'.batch = fse.batch /\ fse'.cf_signals = fse.cf_signals
        /\ fse'.handles = fse.handles /\ fse'.count = fse.count /\ fse'.need = fse.need
        /\ fse'.stream = fse.stream /\ fse'.sem = fse.sem /\ fse'.pc = fse.pc
        /\ fse'.who = fse.who /\ fse'.waiting = fse.waiting /\ fse'.cf_events = fse.cf_events
        /\ fse'.cf_error = fse.cf_error /\ fse'.sent = fse.sent /\ fse'.cf_cb = fse.cf_cb
        /\ fse'.active = fse.active /\ fse'.closing = fse.closing /\ fse'.fd = fse.fd
        /\ fse'.armed = fse.armed /\ fse'.fired = fse.fired /\ fse'.path = fse.path
        /\ fse'.taken = fse.taken /\ fse'.happened = fse.happened
    BY <1>4 DEF FsEvents!BatchDone, FseTyped, FseFields
  <2>g. fse.cf = "next" /\ fse.batch = <<>>
    BY <1>4 DEF FsEvents!BatchDone
  <2>a. Ahead' = Ahead
    BY <2>u DEF Ahead
  <2>1. (DOMAIN fse = FseFields)'
    BY <2>u, <2>g DEF FseTyped
  <2>2. FseQueues'
    BY <2>u, <2>g DEF FseQueues
  <2>3. FseSets'
    BY <2>u, <2>g DEF FseSets
  <2>4. FseLists'
    BY <2>u, <2>g DEF FseLists, FseConstants
  <2>5. FseSignals'
    BY <2>u, <2>g, <2>a DEF FseSignals
  <2>6. FseWaits'
    BY <2>u, <2>g, <2>a DEF FseWaits, TakenUp
  <2>7. FseStream'
    BY <2>u, <2>g DEF FseStream, TakenUp, FseWaits, FseSets
  <2>8. FseSent'
    BY <2>u, <2>g DEF FseSent
  <2>9. FseFiles'
    BY <2>u, <2>g DEF FseFiles
  <2> QED BY <2>1, <2>2, <2>3, <2>4, <2>5, <2>6, <2>7, <2>8, <2>9 DEF FseInv, FseTyped
<1>5. CASE FsEvents!EventCb
  <2>m. PICK mine \in SUBSET Range(fse.handles) : fse' = [fse EXCEPT !.happened = @ + 1,
               !.cf_events = [h \in Dirs |-> IF h \in mine THEN Append(@[h], fse.happened) ELSE @[h]],
               !.heard = [h \in Dirs |-> IF h \in mine THEN Append(@[h], fse.happened) ELSE @[h]],
               !.sent = @ \union mine]
    BY <1>5, FseOps DEF FsEvents!EventCb
  <2>b. /\ \A y : y \in Range(fse.handles) <=> Contains(fse.handles, y)
        /\ \A y : y \in Range(fse.handles) => y \in Dirs
    BY SetOfQueue, RangeQueue DEF FseQueues
  <2>u. /\ DOMAIN fse' = DOMAIN fse
        /\ fse'.cf_events = [h \in Dirs |-> IF h \in mine THEN Append(fse.cf_events[h], fse.happened) ELSE fse.cf_events[h]]
        /\ fse'.sent = fse.sent \union mine /\ fse'.happened = fse.happened + 1
        /\ fse'.cf = fse.cf /\ fse'.type = fse.type /\ fse'.batch = fse.batch
        /\ fse'.cf_signals = fse.cf_signals /\ fse'.handles = fse.handles
        /\ fse'.count = fse.count /\ fse'.need = fse.need /\ fse'.stream = fse.stream
        /\ fse'.sem = fse.sem /\ fse'.pc = fse.pc /\ fse'.who = fse.who
        /\ fse'.waiting = fse.waiting /\ fse'.cf_error = fse.cf_error /\ fse'.cf_cb = fse.cf_cb
        /\ fse'.active = fse.active /\ fse'.closing = fse.closing /\ fse'.fd = fse.fd
        /\ fse'.armed = fse.armed /\ fse'.fired = fse.fired /\ fse'.path = fse.path
        /\ fse'.taken = fse.taken
    BY <1>5, <2>m DEF FseTyped, FseFields
  <2>a. Ahead' = Ahead
    BY <2>u DEF Ahead
  <2>q. \A h \in Dirs : Append(fse.cf_events[h], fse.happened) \in Seq(Nat)
    BY AppendQueue DEF FseQueues
  <2>1. (DOMAIN fse = FseFields)'
    BY <2>u DEF FseTyped
  <2>2. FseQueues'
    BY <2>u, <2>q DEF FseQueues
  <2>3. FseSets'
    BY <2>u, <2>b DEF FseSets
  <2>4. FseLists'
    BY <2>u DEF FseLists, FseConstants
  <2>5. FseSignals'
    BY <2>u, <2>a DEF FseSignals
  <2>6. FseWaits'
    BY <2>u, <2>a DEF FseWaits, TakenUp
  <2>7. FseStream'
    BY <2>u DEF FseStream, TakenUp, FseWaits, FseSets
  <2>8. FseSent'
    BY <2>u, <2>b DEF FseSent, FseLists, FseQueues
  <2>9. FseFiles'
    BY <2>u DEF FseFiles
  <2> QED BY <2>1, <2>2, <2>3, <2>4, <2>5, <2>6, <2>7, <2>8, <2>9 DEF FseInv, FseTyped
<1> QED BY FseCreate, <1>1, <1>2, <1>3, <1>4, <1>5 DEF FsEvents!CfThread

LEMMA FseFile ==
    ASSUME FseConstants, FseInv, NEW h \in Files, FsEvents!FileChanges(h)
    PROVE  FseInv'
<1> FseConstants /\ (DOMAIN fse = FseFields) /\ FseQueues /\ FseSets /\ FseLists /\ FseSignals
         /\ FseWaits /\ FseStream /\ FseSent /\ FseFiles
  BY DEF FseInv, FseTyped
<1>1. CASE FsEvents!FileChanges(h)
  <2>u. /\ DOMAIN fse' = DOMAIN fse /\ fse'.armed = fse.armed \ {h}
        /\ fse'.fired = fse.fired \union {h} /\ fse'.happened = fse.happened + 1
        /\ fse'.cf = fse.cf /\ fse'.type = fse.type /\ fse'.batch = fse.batch
        /\ fse'.cf_signals = fse.cf_signals /\ fse'.handles = fse.handles
        /\ fse'.count = fse.count /\ fse'.need = fse.need /\ fse'.stream = fse.stream
        /\ fse'.sem = fse.sem /\ fse'.pc = fse.pc /\ fse'.who = fse.who
        /\ fse'.waiting = fse.waiting /\ fse'.cf_events = fse.cf_events
        /\ fse'.cf_error = fse.cf_error /\ fse'.sent = fse.sent /\ fse'.cf_cb = fse.cf_cb
        /\ fse'.active = fse.active /\ fse'.closing = fse.closing /\ fse'.fd = fse.fd
        /\ fse'.path = fse.path /\ fse'.taken = fse.taken
    BY <1>1 DEF FsEvents!FileChanges, FseTyped, FseFields
  <2>g. h \in fse.armed
    BY <1>1 DEF FsEvents!FileChanges
  <2>a. Ahead' = Ahead
    BY <2>u DEF Ahead
  <2>1. (DOMAIN fse = FseFields)'
    BY <2>u, <2>g DEF FseTyped
  <2>2. FseQueues'
    BY <2>u, <2>g DEF FseQueues
  <2>3. FseSets'
    BY <2>u, <2>g DEF FseSets
  <2>4. FseLists'
    BY <2>u, <2>g DEF FseLists, FseConstants
  <2>5. FseSignals'
    BY <2>u, <2>g, <2>a DEF FseSignals
  <2>6. FseWaits'
    BY <2>u, <2>g, <2>a DEF FseWaits, TakenUp
  <2>7. FseStream'
    BY <2>u, <2>g DEF FseStream, TakenUp, FseWaits, FseSets
  <2>8. FseSent'
    BY <2>u, <2>g DEF FseSent
  <2>9. FseFiles'
    BY <2>u, <2>g DEF FseFiles
  <2> QED BY <2>1, <2>2, <2>3, <2>4, <2>5, <2>6, <2>7, <2>8, <2>9 DEF FseInv, FseTyped
<1> QED BY <1>1

LEMMA FseStep ==
    ASSUME FseConstants, FseInv, FsEvents!Next
    PROVE  FseInv'
  BY FseLoop, FseThread, FseFile DEF FsEvents!Next

LEMMA FseKeeps ==
    ASSUME FseConstants, FseInv
    PROVE  FsEvents!TypeOK /\ FsEvents!CountsAreExact /\ FsEvents!NothingStranded /\ FsEvents!ClosedIsClean
<1> FseTyped /\ FseQueues /\ FseSets /\ FseLists /\ FseSignals /\ FseWaits /\ FseStream /\ FseSent /\ FseFiles
  BY DEF FseInv, FseTyped
<1>0. Ahead \in Seq(FseItems)
  BY ConcatQueue DEF Ahead, FseQueues
<1>1. /\ \A y : y \in Range(Ahead) <=> Contains(Ahead, y)
      /\ Ahead # <<>> => 1 \in DOMAIN Ahead
  BY <1>0, SetOfQueue, EmptySeq
<1>2. \A y : y \in Range(fse.handles) <=> y \in Dirs /\ Contains(fse.handles, y)
  BY SetOfQueue, RangeQueue DEF FseQueues
<1>3. FsEvents!TypeOK
  BY DEF FseQueues, FseSets, FsEvents!TypeOK
<1>4. FsEvents!CountsAreExact
  <2>1. Range(fse.handles) = fse.active \cap Dirs
    BY <1>2 DEF FseLists
  <2>2. fse.path = fse.active \union ({fse.waiting} \ {"none"})
    BY DEF FseLists, FseSets, FseQueues, FseConstants, FsEvents!Handles
  <2>3. fse.sem <= IF fse.waiting = "none" THEN 0 ELSE 1
    BY DEF FseWaits, TakenUp, FseQueues
  <2> QED BY <2>1, <2>2, <2>3, FseOps DEF FsEvents!CountsAreExact, FseLists
<1>5. FsEvents!NothingStranded
  <2>1. fse.need => \E i \in DOMAIN (fse.batch \o fse.cf_signals) : TRUE
    BY <1>1 DEF FseSignals, Ahead
  <2>2. fse.cf = "idle" /\ fse.cf_signals = <<>> => ~fse.need
    BY ConcatEmptySeq, EmptySeq DEF FseSignals, Ahead
  <2>3. fse.waiting # "none" =>
          \/ fse.sem > 0 \/ <<fse.waiting, "Closing">> \in FsEvents!Range(fse.batch \o fse.cf_signals)
          \/ fse.cf \in {"destroyed", "final"} /\ fse.type = "Closing"
    BY <1>1, FseOps DEF FseWaits, TakenUp, Ahead
  <2> QED BY <2>1, <2>2, <2>3 DEF FsEvents!NothingStranded, FseSent, FseFiles
<1>6. FsEvents!ClosedIsClean
  BY <1>2, FseOps DEF FseSets, FseLists, FseStream, FseSent, FseFiles, FsEvents!ClosedIsClean
<1> QED BY <1>3, <1>4, <1>5, <1>6

LEMMA FseChanges ==
    ASSUME FseConstants, FseInv, [FsEvents!Next]_fse
    PROVE  FseInv'
<1>1. CASE FsEvents!Next
  BY <1>1, FseStep
<1>2. CASE UNCHANGED fse
  BY <1>2 DEF FseInv, FseFiles, FseLists, FseSent, FseSignals, FseStream, FseTyped, FseWaits, Ahead,
              TakenUp, FseQueues, FseSets
<1> QED BY <1>1, <1>2

\* File events, for any watchers: the list of the CF thread is the active ones, a signal that is
\* queued will be taken up, what waits has a wakeup posted, and a stopped watcher is covered by no
\* stream and gets no callback.
THEOREM FsEventsCorrect ==
    ASSUME FseConstants
    PROVE  FsEvents!Spec => [](FsEvents!TypeOK /\ FsEvents!CountsAreExact /\
                               FsEvents!NothingStranded /\ FsEvents!ClosedIsClean)
<1>1. ASSUME FsEvents!Init PROVE FseInv
  BY <1>1, FseBegins
<1>2. ASSUME FseInv, [FsEvents!Next]_fse PROVE FseInv'
  BY <1>2, FseChanges
<1>3. FseInv => FsEvents!TypeOK /\ FsEvents!CountsAreExact /\ FsEvents!NothingStranded /\
              FsEvents!ClosedIsClean
  BY FseKeeps
<1> QED BY <1>1, <1>2, <1>3, PTL DEF FsEvents!Spec

\* What a watcher heard is what it was told, then what its callback is being told, then its queue.
\* Only the delivery of a directory's events has taken some.
Whole(told, taken, queued) == told \o taken \o queued

Taken(h) == IF fse.who = h THEN fse.taken ELSE <<>>

FseTurn == fse.who \in Dirs <=> fse.pc \in {"deliver", "callback"}

FseTold ==
    /\ fse.heard \in [Dirs -> Seq(Nat)] /\ fse.told \in [Dirs -> Seq(Nat)] /\ FseTurn
    /\ \A h \in Dirs : h \notin fse.again =>
         /\ Begins(fse.heard[h], fse.told[h])
         /\ h \in fse.active => fse.heard[h] = Whole(fse.told[h], Taken(h), fse.cf_events[h])

LEMMA BeginsAppend ==
    ASSUME NEW q \in Seq(Nat), NEW p \in Seq(Nat), NEW n \in Nat, Begins(q, p)
    PROVE  Begins(Append(q, n), p)
<1>1. Len(p) \in Nat /\ Len(q) \in Nat /\ Len(Append(q, n)) = Len(q) + 1 /\ Len(p) <= Len(q)
  BY DEF Begins
<1>2. SubSeq(Append(q, n), 1, Len(p)) = SubSeq(q, 1, Len(p))
  BY <1>1
<1> QED BY <1>1, <1>2 DEF Begins

LEMMA BeginsConcat ==
    ASSUME NEW p \in Seq(Nat), NEW q \in Seq(Nat) PROVE Begins(p \o q, p)
<1>1. /\ p \o q \in Seq(Nat) /\ Len(p \o q) = Len(p) + Len(q) /\ Len(p) \in Nat /\ Len(q) \in Nat
      /\ \A i \in 1..Len(p) : (p \o q)[i] = p[i]
  BY ConcatProperties
<1> DEFINE r == p \o q
<1>2. r \in Seq(Nat) /\ Len(p) <= Len(r) /\ \A i \in 1..Len(p) : r[i] = p[i]
  BY <1>1
<1> HIDE DEF r
<1>3. SubSeq(r, 1, Len(p)) = p
  BY <1>1, <1>2
<1> QED BY <1>2, <1>3 DEF Begins, r

LEMMA WholeQueues ==
    ASSUME NEW t \in Seq(Nat), NEW x \in Seq(Nat), NEW e \in Seq(Nat)
    PROVE  /\ Whole(t, x, e) \in Seq(Nat) /\ Begins(Whole(t, x, e), t)
           /\ Whole(t, e, <<>>) = Whole(t, <<>>, e)
           /\ x # <<>> => Whole(Append(t, Head(x)), Tail(x), e) = Whole(t, x, e)
<1>1. /\ x \o e \in Seq(Nat) /\ t \o x \in Seq(Nat) /\ t \o (x \o e) = (t \o x) \o e
      /\ t \o e \in Seq(Nat) /\ t \o <<>> = t /\ (t \o e) \o <<>> = t \o e /\ <<>> \in Seq(Nat)
      /\ (t \o x) \o e \in Seq(Nat)
  <2>1. x \o e \in Seq(Nat) /\ t \o x \in Seq(Nat) /\ t \o e \in Seq(Nat) /\ <<>> \in Seq(Nat)
    BY EmptySeq
  <2>2. (t \o x) \o e = t \o (x \o e)
    BY ConcatAssociative
  <2>3. \A q \in Seq(Nat) : q \o <<>> = q
    BY ConcatEmptySeq
  <2>4. (t \o x) \o e \in Seq(Nat)
    BY <2>1
  <2> QED BY <2>1, <2>2, <2>3, <2>4
<1>2. Begins(t \o (x \o e), t)
  BY <1>1, BeginsConcat
<1>4. ASSUME x # <<>> PROVE Append(t, Head(x)) \o Tail(x) = t \o x
  <2>0. t \in Seq(Nat)
    OBVIOUS
  <2>1. Head(x) \in Nat /\ Tail(x) \in Seq(Nat)
    BY <1>4, TailQueue
  <2>2. <<Head(x)>> \in Seq(Nat) /\ Append(t, Head(x)) = t \o <<Head(x)>>
    BY <2>1, AppendIsConcat
  <2>3. (t \o <<Head(x)>>) \o Tail(x) = t \o (<<Head(x)>> \o Tail(x))
    BY ONLY <2>0, <2>1, <2>2, ConcatAssociative
  <2>4. <<Head(x)>> \o Tail(x) = x
    BY <1>4
  <2> QED BY <2>2, <2>3, <2>4
<1> QED BY <1>1, <1>2, <1>4 DEF Whole

LEMMA WholeAppend ==
    ASSUME NEW t \in Seq(Nat), NEW x \in Seq(Nat), NEW e \in Seq(Nat), NEW n \in Nat
    PROVE  Whole(t, x, Append(e, n)) = Append(Whole(t, x, e), n)
<1>1. t \o x \in Seq(Nat)
  OBVIOUS
<1> QED BY <1>1, AppendConcat DEF Whole

LEMMA FseToldFirst == ASSUME FseConstants, FsEvents!Init PROVE FseTold
<1>1. /\ fse.heard = [h \in Dirs |-> <<>>] /\ fse.told = [h \in Dirs |-> <<>>] /\ fse.who = "none"
      /\ fse.pc = "program" /\ fse.active = {}
  BY DEF FsEvents!Init
<1>2. <<>> \in Seq(Nat) /\ Begins(<<>>, <<>>)
  BY DEF Begins
<1> QED BY <1>1, <1>2 DEF FseTold, FseTurn, FseConstants, FsEvents!Handles

\* A step that leaves the events alone.
LEMMA FseQuiet ==
    ASSUME FseTold, fse'.heard = fse.heard, fse'.told = fse.told, fse'.cf_events = fse.cf_events,
           fse'.again = fse.again, \A h \in Dirs : h \in fse'.active => h \in fse.active,
           FseTurn', \A h \in Dirs : Taken(h)' = Taken(h)
    PROVE  FseTold'
  BY DEF FseTold

LEMMA FseTellsLoop == ASSUME FseConstants, FseInv, FseTold, FsEvents!Loop PROVE FseTold'
<1> FseConstants /\ (DOMAIN fse = FseFields) /\ FseQueues /\ FseSets /\ FseLists
  BY DEF FseInv, FseTyped
<1>0. FseTurn /\ "none" \notin Dirs /\ \A h \in Files : h \notin Dirs
  BY DEF FseTold, FseConstants, FsEvents!Handles
<1>1. ASSUME NEW h \in Dirs, FsEvents!StartDir(h) PROVE FseTold'
  <2>1. PICK a : a = fse'.again /\ (fse.pc = "callback" /\ fse.who = h => h \in a)
                 /\ \A g : g # h => (g \in a <=> g \in fse.again)
    <3>1. fse'.again = IF fse.pc = "callback" /\ fse.who = h THEN fse.again \union {h} ELSE fse.again \ {h}
      BY <1>1 DEF FsEvents!StartDir, FseFields
    <3> QED BY <3>1
  <2>2. /\ fse'.heard = [fse.heard EXCEPT ![h] = <<>>] /\ fse'.told = [fse.told EXCEPT ![h] = <<>>]
        /\ fse'.cf_events = [fse.cf_events EXCEPT ![h] = <<>>]
        /\ fse'.active = fse.active \union {h} /\ fse'.who = fse.who /\ fse'.pc = fse.pc
        /\ fse'.taken = fse.taken
    BY <1>1 DEF FsEvents!StartDir, FseFields
  <2>3. fse.pc # "deliver"
    BY <1>1 DEF FsEvents!StartDir, FsEvents!Program
  <2>4. <<>> \in Seq(Nat) /\ Begins(<<>>, <<>>) /\ Whole(<<>>, <<>>, <<>>) = <<>>
    BY DEF Begins, Whole
  <2>5. /\ fse'.heard \in [Dirs -> Seq(Nat)] /\ fse'.told \in [Dirs -> Seq(Nat)]
        /\ fse'.heard[h] = <<>> /\ fse'.told[h] = <<>> /\ fse'.cf_events[h] = <<>>
        /\ \A g \in Dirs : g # h => fse'.heard[g] = fse.heard[g] /\ fse'.told[g] = fse.told[g]
                                    /\ fse'.cf_events[g] = fse.cf_events[g]
    BY <2>2, <2>4 DEF FseTold, FseQueues
  <2>6. FseTurn'
    BY <1>0, <2>2 DEF FseTurn
  <2>7. h \notin a => Taken(h)' = <<>>
    BY <1>0, <2>1, <2>2, <2>3 DEF FseTurn, Taken
  <2>8. \A g \in Dirs : Taken(g)' = Taken(g)
    BY <2>2 DEF Taken
  <2>9. ASSUME NEW g \in Dirs, g \notin a
        PROVE  /\ Begins(fse'.heard[g], fse'.told[g])
               /\ g \in fse'.active => fse'.heard[g] = Whole(fse'.told[g], Taken(g)', fse'.cf_events[g])
    <3>1. CASE g = h
      BY <2>4, <2>5, <2>7, <2>9, <3>1
    <3>2. CASE g # h
      BY <2>1, <2>2, <2>5, <2>8, <2>9, <3>2 DEF FseTold
    <3> QED BY <3>1, <3>2
  <2> QED BY <2>1, <2>5, <2>6, <2>9 DEF FseTold
<1>2. ASSUME NEW h \in Dirs, NEW c \in BOOLEAN, FsEvents!StopDir(h, c) PROVE FseTold'
  <2>1. /\ fse'.heard = fse.heard /\ fse'.told = fse.told /\ fse'.cf_events = fse.cf_events
        /\ fse'.again = fse.again /\ fse'.active = fse.active \ {h} /\ fse'.who = fse.who
        /\ fse'.pc = fse.pc /\ fse'.taken = fse.taken
    BY <1>2 DEF FsEvents!StopDir, FseFields
  <2> QED BY <1>0, <2>1, FseQuiet DEF FseTurn, Taken
<1>3. ASSUME NEW h \in Dirs, FsEvents!AsyncCb(h) PROVE FseTold'
  <2>1. /\ fse'.heard = fse.heard /\ fse'.told = fse.told /\ fse.pc = "program"
        /\ fse'.cf_events = [fse.cf_events EXCEPT ![h] = <<>>] /\ fse'.taken = fse.cf_events[h]
        /\ fse'.again = fse.again /\ fse'.active = fse.active /\ fse'.who = h /\ fse'.pc = "deliver"
    BY <1>3 DEF FsEvents!AsyncCb, FseFields
  <2>2. fse.who \notin Dirs
    BY <1>0, <2>1 DEF FseTurn
  <2>3. /\ fse'.cf_events[h] = <<>> /\ Taken(h)' = fse.cf_events[h] /\ Taken(h) = <<>>
        /\ \A g \in Dirs : g # h => fse'.cf_events[g] = fse.cf_events[g] /\ Taken(g)' = Taken(g)
    BY <2>1, <2>2 DEF Taken, FseQueues
  <2>4. Whole(fse.told[h], fse.cf_events[h], <<>>) = Whole(fse.told[h], <<>>, fse.cf_events[h])
    <3>1. fse.told[h] \in Seq(Nat) /\ fse.cf_events[h] \in Seq(Nat)
      BY DEF FseTold, FseQueues
    <3> QED BY <3>1, WholeQueues
  <2>5. FseTurn'
    BY <2>1 DEF FseTurn
  <2>6. ASSUME NEW g \in Dirs, g \in fse'.active, g \notin fse'.again
        PROVE  fse'.heard[g] = Whole(fse'.told[g], Taken(g)', fse'.cf_events[g])
    <3>1. fse.heard[g] = Whole(fse.told[g], Taken(g), fse.cf_events[g])
      BY <2>1, <2>6 DEF FseTold
    <3> QED BY <2>1, <2>3, <2>4, <3>1
  <2> QED BY <2>1, <2>5, <2>6 DEF FseTold
<1>4. ASSUME NEW h \in Files, NEW c \in BOOLEAN, FsEvents!StartFile(h) \/ FsEvents!StopFile(h, c) PROVE FseTold'
  <2>2. h \notin Dirs
    BY <1>0
  <2>1. /\ fse'.heard = fse.heard /\ fse'.told = fse.told /\ fse'.cf_events = fse.cf_events
        /\ fse'.again = fse.again /\ fse'.who = fse.who /\ fse'.pc = fse.pc /\ fse'.taken = fse.taken
        /\ \A g : g # h /\ g \in fse'.active => g \in fse.active
    <3>1. CASE FsEvents!StartFile(h)
      BY <3>1 DEF FsEvents!StartFile, FseFields
    <3>2. CASE FsEvents!StopFile(h, c)
      BY <3>2 DEF FsEvents!StopFile, FseFields
    <3> QED BY <1>4, <3>1, <3>2
  <2> QED BY <1>0, <2>1, <2>2, FseQuiet DEF FseTurn, Taken
<1>5. ASSUME NEW h \in Files, FsEvents!FsEvent(h) PROVE FseTold'
  <2>1. /\ fse'.heard = fse.heard /\ fse'.told = fse.told /\ fse'.cf_events = fse.cf_events
        /\ fse'.again = fse.again /\ fse'.who = h /\ fse.pc = "program"
        /\ fse'.pc = "file_callback" /\ fse'.taken = fse.taken /\ fse'.active = fse.active
    BY <1>5 DEF FsEvents!FsEvent, FseFields
  <2>2. FseTurn'
    BY <1>0, <2>1 DEF FseTurn
  <2>3. \A g \in Dirs : Taken(g)' = Taken(g)
    BY <1>0, <2>1 DEF FseTurn, Taken
  <2> QED BY <2>1, <2>2, <2>3, FseQuiet
<1>6. ASSUME NEW h \in FsEvents!Handles, FsEvents!CloseStopped(h) PROVE FseTold'
  <2>1. /\ fse'.heard = fse.heard /\ fse'.told = fse.told /\ fse'.cf_events = fse.cf_events
        /\ fse'.again = fse.again /\ fse'.who = fse.who /\ fse'.pc = fse.pc /\ fse'.taken = fse.taken
        /\ fse'.active = fse.active
    BY <1>6 DEF FsEvents!CloseStopped, FseFields
  <2> QED BY <1>0, <2>1, FseQuiet DEF FseTurn, Taken
<1>7. CASE FsEvents!SemWaited
  <2>0. PICK h : h = fse.waiting
    OBVIOUS
  <2>1. /\ fse'.heard = fse.heard /\ fse'.told = fse.told
        /\ fse'.cf_events = [fse.cf_events EXCEPT ![h] = <<>>]
        /\ fse'.again = fse.again /\ fse'.who = fse.who /\ fse'.pc = fse.pc /\ fse'.taken = fse.taken
        /\ fse'.active = fse.active
    BY <1>7, <2>0 DEF FsEvents!SemWaited, FseFields
  <2>2. h \notin fse.active
    BY <2>0 DEF FseLists
  <2>3. FseTurn' /\ \A g \in Dirs : Taken(g)' = Taken(g)
    BY <1>0, <2>1 DEF FseTurn, Taken
  <2>4. \A g \in Dirs : g # h => fse'.cf_events[g] = fse.cf_events[g]
    BY <2>1 DEF FseQueues
  <2> QED BY <2>1, <2>2, <2>3, <2>4 DEF FseTold
<1>8. CASE FsEvents!Deliver
  <2>0. PICK h, n : h = fse.who /\ n = Head(fse.taken)
    OBVIOUS
  <2>1. fse.pc = "deliver" /\ fse.taken # <<>> /\ h \in Dirs
    BY <1>0, <1>8, <2>0 DEF FsEvents!Deliver, FseTurn
  <2>2. /\ fse'.heard = fse.heard /\ fse'.cf_events = fse.cf_events /\ fse'.again = fse.again
        /\ fse'.who = h /\ fse'.taken = Tail(fse.taken) /\ fse'.active = fse.active
        /\ fse'.pc \in {"callback", "deliver"}
        /\ fse'.told = [fse.told EXCEPT ![h] = IF FsEvents!Wanted(h) THEN Append(fse.told[h], n) ELSE fse.told[h]]
    BY <1>8, <2>0 DEF FsEvents!Deliver, FseFields
  <2>3. n \in Nat /\ fse.told[h] \in Seq(Nat) /\ fse.cf_events[h] \in Seq(Nat) /\ Tail(fse.taken) \in Seq(Nat)
    BY <2>0, <2>1, TailQueue DEF FseTold, FseQueues
  <2>4. Append(fse.told[h], n) \in Seq(Nat)
    BY <2>3, AppendQueue
  <2>5. /\ fse'.told \in [Dirs -> Seq(Nat)]
        /\ \A g \in Dirs : g # h => fse'.told[g] = fse.told[g] /\ Taken(g)' = Taken(g)
        /\ Taken(h)' = Tail(fse.taken) /\ Taken(h) = fse.taken
        /\ fse'.told[h] = IF FsEvents!Wanted(h) THEN Append(fse.told[h], n) ELSE fse.told[h]
    BY <2>0, <2>1, <2>2, <2>4 DEF FseTold, Taken
  <2>6. FseTurn'
    BY <2>1, <2>2 DEF FseTurn
  <2>7. FsEvents!Wanted(h) <=> h \in fse.active
    BY <2>1 DEF FsEvents!Wanted, FseLists
  <2>8. ASSUME NEW g \in Dirs, g \notin fse.again
        PROVE  /\ Begins(fse'.heard[g], fse'.told[g])
               /\ g \in fse'.active => fse'.heard[g] = Whole(fse'.told[g], Taken(g)', fse'.cf_events[g])
    <3>1. CASE g # h
      BY <2>2, <2>5, <2>8, <3>1 DEF FseTold
    <3>2. CASE g = h /\ h \notin fse.active
      BY <2>2, <2>5, <2>7, <2>8, <3>2 DEF FseTold
    <3>3. CASE g = h /\ h \in fse.active
      <4>1. fse.heard[h] = Whole(fse.told[h], fse.taken, fse.cf_events[h])
        BY <2>5, <2>8, <3>3 DEF FseTold
      <4>2. fse.taken \in Seq(Nat)
        BY DEF FseQueues
      <4>3. Whole(Append(fse.told[h], n), Tail(fse.taken), fse.cf_events[h]) = Whole(fse.told[h], fse.taken, fse.cf_events[h])
        <5>1. Whole(Append(fse.told[h], Head(fse.taken)), Tail(fse.taken), fse.cf_events[h]) = Whole(fse.told[h], fse.taken, fse.cf_events[h])
          BY ONLY <2>1, <2>3, <4>2, WholeQueues
        <5> QED BY <2>0, <5>1
      <4>4. Begins(Whole(Append(fse.told[h], n), Tail(fse.taken), fse.cf_events[h]), Append(fse.told[h], n))
        BY <2>3, <2>4, WholeQueues
      <4>5. fse'.told[h] = Append(fse.told[h], n)
        BY <2>5, <2>7, <3>3
      <4> QED BY <2>2, <2>5, <3>3, <4>1, <4>3, <4>4, <4>5
    <3> QED BY <3>1, <3>2, <3>3
  <2>9. fse'.heard \in [Dirs -> Seq(Nat)]
    BY <2>2 DEF FseTold
  <2> QED BY <2>2, <2>5, <2>6, <2>8, <2>9 DEF FseTold
<1>9. CASE FsEvents!DeliverError
  <2>1. /\ fse'.heard = fse.heard /\ fse'.told = fse.told /\ fse'.cf_events = fse.cf_events
        /\ fse'.again = fse.again /\ fse'.taken = fse.taken /\ fse.taken = <<>>
        /\ fse'.active = fse.active /\ fse.pc = "deliver"
    BY <1>9 DEF FsEvents!DeliverError, FseFields
  <2>4. \/ fse'.pc = "callback" /\ fse'.who = fse.who
        \/ fse'.pc = "program" /\ fse'.who = "none"
    BY <1>9 DEF FsEvents!DeliverError, FseFields
  <2>2. FseTurn'
    BY <1>0, <2>1, <2>4 DEF FseTurn
  <2>3. \A g \in Dirs : Taken(g)' = Taken(g)
    BY <2>1, <2>4 DEF Taken
  <2> QED BY <2>1, <2>2, <2>3, FseQuiet
<1>10. CASE FsEvents!CallbackReturns
  <2>1. /\ fse'.heard = fse.heard /\ fse'.told = fse.told /\ fse'.cf_events = fse.cf_events
        /\ fse'.again = fse.again /\ fse'.who = fse.who /\ fse'.pc = "deliver" /\ fse'.taken = fse.taken
        /\ fse'.active = fse.active /\ fse.pc = "callback"
    BY <1>10 DEF FsEvents!CallbackReturns, FseFields
  <2> QED BY <1>0, <2>1, FseQuiet DEF FseTurn, Taken
<1>11. CASE FsEvents!FsEventReturns
  <2>1. /\ fse'.heard = fse.heard /\ fse'.told = fse.told /\ fse'.cf_events = fse.cf_events
        /\ fse'.again = fse.again /\ fse'.who = "none" /\ fse'.pc = "program" /\ fse'.taken = fse.taken
        /\ fse'.active = fse.active /\ fse.pc = "file_callback"
    BY <1>11 DEF FsEvents!FsEventReturns, FseFields
  <2>2. FseTurn'
    BY <1>0, <2>1 DEF FseTurn
  <2>3. \A g \in Dirs : Taken(g)' = Taken(g)
    BY <1>0, <2>1 DEF FseTurn, Taken
  <2> QED BY <2>1, <2>2, <2>3, FseQuiet
<1> QED BY <1>1, <1>2, <1>3, <1>4, <1>5, <1>6, <1>7, <1>8, <1>9, <1>10, <1>11 DEF FsEvents!Loop

LEMMA FseTellsThread == ASSUME FseConstants, FseInv, FseTold, FsEvents!CfThread PROVE FseTold'
<1> FseConstants /\ (DOMAIN fse = FseFields) /\ FseQueues /\ FseSets /\ FseLists
  BY DEF FseInv, FseTyped
<1>1. CASE FsEvents!CfLoopCb \/ FsEvents!Reschedule \/ FsEvents!Final \/ FsEvents!BatchDone
  <2>1. /\ fse'.heard = fse.heard /\ fse'.told = fse.told /\ fse'.cf_events = fse.cf_events
        /\ fse'.again = fse.again /\ fse'.who = fse.who /\ fse'.pc = fse.pc /\ fse'.taken = fse.taken
        /\ fse'.active = fse.active
    <3>1. CASE FsEvents!CfLoopCb
      BY <3>1 DEF FsEvents!CfLoopCb, FseFields
    <3>4. CASE FsEvents!BatchDone
      BY <3>4 DEF FsEvents!BatchDone, FseFields
    <3>2. CASE FsEvents!Reschedule
      BY <3>2 DEF FsEvents!Reschedule, FseFields
    <3>3. CASE FsEvents!Final
      BY <3>3 DEF FsEvents!Final, FseFields
    <3> QED BY <1>1, <3>1, <3>2, <3>3, <3>4
  <2> QED BY <2>1, FseQuiet DEF FseTold, FseTurn, Taken
<1>2. CASE FsEvents!CreateStream
  <2>1. /\ fse'.heard = fse.heard /\ fse'.told = fse.told /\ fse'.cf_events = fse.cf_events
        /\ fse'.again = fse.again /\ fse'.who = fse.who /\ fse'.pc = fse.pc /\ fse'.taken = fse.taken
        /\ fse'.active = fse.active
    BY <1>2 DEF FsEvents!CreateStream, FseFields
  <2> QED BY <2>1, FseQuiet DEF FseTold, FseTurn, Taken
<1>3. CASE FsEvents!EventCb
  <2>0. PICK mine : fse' = [fse EXCEPT !.happened = @ + 1,
               !.cf_events = [h \in Dirs |-> IF h \in mine THEN Append(@[h], fse.happened) ELSE @[h]],
               !.heard = [h \in Dirs |-> IF h \in mine THEN Append(@[h], fse.happened) ELSE @[h]],
               !.sent = @ \union mine]
    BY <1>3, ZenonT(60) DEF FsEvents!EventCb
  <2>n. PICK n : n = fse.happened
    OBVIOUS
  <2>1. /\ fse'.heard = [h \in Dirs |-> IF h \in mine THEN Append(fse.heard[h], n) ELSE fse.heard[h]]
        /\ fse'.cf_events = [h \in Dirs |-> IF h \in mine THEN Append(fse.cf_events[h], n) ELSE fse.cf_events[h]]
        /\ fse'.told = fse.told /\ fse'.again = fse.again /\ fse'.who = fse.who /\ fse'.pc = fse.pc
        /\ fse'.taken = fse.taken /\ fse'.active = fse.active
    BY <2>0, <2>n DEF FseFields
  <2>2. n \in Nat /\ fse.taken \in Seq(Nat)
    BY <2>n DEF FseQueues
  <2>3. \A g \in Dirs : /\ fse.heard[g] \in Seq(Nat) /\ fse.told[g] \in Seq(Nat) /\ fse.cf_events[g] \in Seq(Nat)
                        /\ Append(fse.heard[g], n) \in Seq(Nat) /\ Taken(g) \in Seq(Nat) /\ Taken(g)' = Taken(g)
    BY <2>1, <2>2, EmptySeq DEF FseTold, FseQueues, Taken
  <2>4. ASSUME NEW g \in Dirs, g \notin fse.again
        PROVE  /\ Begins(fse'.heard[g], fse'.told[g])
               /\ g \in fse'.active => fse'.heard[g] = Whole(fse'.told[g], Taken(g)', fse'.cf_events[g])
    <3>1. /\ Begins(fse.heard[g], fse.told[g])
          /\ g \in fse.active => fse.heard[g] = Whole(fse.told[g], Taken(g), fse.cf_events[g])
      BY <2>4 DEF FseTold
    <3>2. CASE g \notin mine
      BY <2>1, <2>3, <3>1, <3>2
    <3>3. CASE g \in mine
      <4>1. Begins(Append(fse.heard[g], n), fse.told[g])
        BY <2>2, <2>3, <3>1, BeginsAppend
      <4>2. Whole(fse.told[g], Taken(g), Append(fse.cf_events[g], n)) = Append(Whole(fse.told[g], Taken(g), fse.cf_events[g]), n)
        <5>1. fse.told[g] \in Seq(Nat) /\ Taken(g) \in Seq(Nat) /\ fse.cf_events[g] \in Seq(Nat)
          BY <2>3
        <5> QED BY ONLY <2>2, <5>1, WholeAppend
      <4> QED BY <2>1, <2>3, <3>1, <3>3, <4>1, <4>2
    <3> QED BY <3>2, <3>3
  <2>5. fse'.heard \in [Dirs -> Seq(Nat)] /\ FseTurn'
    BY <2>1, <2>3 DEF FseTold, FseTurn
  <2> QED BY <2>1, <2>4, <2>5 DEF FseTold
<1> QED BY <1>1, <1>2, <1>3 DEF FsEvents!CfThread

LEMMA FseTells == ASSUME FseConstants, FseInv, FseTold, [FsEvents!Next]_fse PROVE FseTold'
<1> DOMAIN fse = FseFields
  BY DEF FseInv, FseTyped
<1>1. CASE UNCHANGED fse
  BY <1>1 DEF FseTold, FseTurn, Taken
<1>2. ASSUME NEW h \in Files, FsEvents!FileChanges(h) PROVE FseTold'
  <2>1. /\ fse'.heard = fse.heard /\ fse'.told = fse.told /\ fse'.cf_events = fse.cf_events
        /\ fse'.again = fse.again /\ fse'.who = fse.who /\ fse'.pc = fse.pc /\ fse'.taken = fse.taken
        /\ fse'.active = fse.active
    BY <1>2 DEF FsEvents!FileChanges, FseFields
  <2> QED BY <2>1, FseQuiet DEF FseTold, FseTurn, Taken
<1> QED BY <1>1, <1>2, FseTellsLoop, FseTellsThread DEF FsEvents!Next

LEMMA FseTellsInOrder == ASSUME FseTold PROVE FsEvents!InOrder
<1>1. \A q, p : FsEvents!Begins(q, p) <=> Begins(q, p)
  BY DEF FsEvents!Begins, Begins
<1> QED BY <1>1 DEF FsEvents!InOrder, FseTold, Whole, Taken

-----------------------------------------------------------------------------
(* Loop creation and teardown *)

LlConstants == Names \cap {"child_watcher", "wq_async"} = {}

LlFields ==
    {"heap", "alive", "memory", "default", "up", "have", "lost", "handles", "closing", "reqs", "walks",
     "due", "registered", "waiting", "interest", "broken"}

LlHandles == Names \union {"child_watcher", "wq_async"}

LlHave ==
    {"fields", "metrics lock", "backend_fd", "signal pipe", "cloexec_lock", "wq_mutex", "async fd",
     "emfile_fd", "cf_state"}

LlTyped ==
    /\ loops.up \in BOOLEAN /\ loops.broken \in BOOLEAN /\ loops.reqs \in {0, 1}
    /\ loops.handles \in Seq(LlHandles) /\ loops.walks \in Seq(Seq(LlHandles))
    /\ loops.lost = {} /\ \A x \in loops.have : x \in LlHave
    /\ \A x \in loops.alive : x \in Names
    /\ \A x \in loops.registered : x \in LoopLife!Owners
    /\ \A x \in loops.waiting : x \in LoopLife!Owners

LlClosed == ~loops.up =>
    /\ loops.have = {} /\ ~loops.memory /\ ~loops.default /\ loops.alive = {}
    /\ loops.walks = <<>> /\ loops.due = {}

\* Queue k of a loop and the walks under way, 0 being the loop's own.
Nth(q, ws, k) == IF k = 0 THEN q ELSE ws[k]

\* The queues have each of the members once.
Spread(q, ws, members) ==
    /\ \A k \in 0..Len(ws) : Distinct(Nth(q, ws, k))
    /\ \A k, m \in 0..Len(ws) : k # m => \A x : ~(Contains(Nth(q, ws, k), x) /\ Contains(Nth(q, ws, m), x))
    /\ \A x : x \in members <=> \E k \in 0..Len(ws) : Contains(Nth(q, ws, k), x)

LlQueues == loops.up /\ ~loops.broken =>
    Spread(loops.handles, loops.walks, loops.alive \union {"child_watcher", "wq_async"})

\* What the outermost walk has still to see is in its queue.
LlDue == loops.up /\ ~loops.broken =>
    \A x \in loops.due : loops.walks # <<>> /\ Contains(loops.walks[Len(loops.walks)], x)

LlClosing == loops.up /\ ~loops.broken => \A x \in loops.closing : x \in loops.alive

LlWatched == loops.up /\ ~loops.broken =>
    \A x \in loops.interest : x \in loops.registered \/ x \in loops.waiting

LlInv ==
    DOMAIN loops = LlFields /\ LlTyped /\ LlClosed /\ LlQueues /\ LlDue /\ LlClosing /\ LlWatched

LEMMA LlOps ==
    /\ \A q, x : LoopLife!Unlink(q, x) = Unlink(q, x)
    /\ \A q : LoopLife!Range(q) = Range(q)
    /\ \A q : LoopLife!Distinct(q) <=> Distinct(q)
<1>1. \A q, x : LoopLife!Unlink(q, x) = Unlink(q, x)
  BY DEF LoopLife!Unlink, Unlink
<1>2. \A q : LoopLife!Range(q) = Range(q)
  BY DEF LoopLife!Range, Range
<1>3. \A q : LoopLife!Distinct(q) <=> Distinct(q)
  BY DEF LoopLife!Distinct, Distinct
<1> QED BY <1>1, <1>2, <1>3

LEMMA LlStart ==
    /\ <<"child_watcher", "wq_async">> \in Seq(LlHandles)
    /\ Spread(<<"child_watcher", "wq_async">>, <<>>, {} \union {"child_watcher", "wq_async"})
<1> DEFINE q == <<"child_watcher", "wq_async">>
<1>1. q \in Seq(LlHandles) /\ Len(q) = 2 /\ q[1] = "child_watcher" /\ q[2] = "wq_async"
  BY DEF LlHandles
<1>2. \A k \in 0..Len(<<>>) : k = 0
  BY EmptySeq
<1>3. Distinct(q) /\ \A x : Contains(q, x) <=> x \in {"child_watcher", "wq_async"}
  <2> HIDE DEF q
  <2>1. 1..Len(q) = {1, 2}
    BY <1>1
  <2> QED BY <1>1, <2>1 DEF Distinct, Contains
<1> HIDE DEF q
<1>4. 0 \in 0..Len(<<>>) /\ Nth(q, <<>>, 0) = q
  BY EmptySeq DEF Nth
<1>5. Spread(q, <<>>, {} \union {"child_watcher", "wq_async"})
  BY <1>2, <1>3, <1>4 DEF Spread
<1> QED BY <1>1, <1>5 DEF q

LEMMA AddSpread ==
    ASSUME NEW S, NEW q \in Seq(S), NEW ws \in Seq(Seq(S)), NEW a, Spread(q, ws, a), NEW h \in S, h \notin a
    PROVE  Spread(Append(q, h), ws, a \union {h})
<1>1. Len(ws) \in Nat /\ 0 \in 0..Len(ws)
  BY LenProperties
<1>2. /\ Nth(q, ws, 0) = q /\ Nth(Append(q, h), ws, 0) = Append(q, h)
      /\ \A k \in 0..Len(ws) : k # 0 => Nth(Append(q, h), ws, k) = Nth(q, ws, k)
  BY DEF Nth
<1>3. \A k \in 0..Len(ws) : ~Contains(Nth(q, ws, k), h)
  BY DEF Spread
<1>4. Distinct(q) /\ ~Contains(q, h)
  BY <1>1, <1>2, <1>3 DEF Spread
<1>5. Distinct(Append(q, h)) /\ \A x : Contains(Append(q, h), x) <=> Contains(q, x) \/ x = h
  BY <1>4, AppendQueue
<1>6. \A k \in 0..Len(ws) : Distinct(Nth(Append(q, h), ws, k))
  BY <1>2, <1>5 DEF Spread
<1>7. \A k \in 0..Len(ws) : \A x : Contains(Nth(Append(q, h), ws, k), x) <=>
        Contains(Nth(q, ws, k), x) \/ (k = 0 /\ x = h)
  BY <1>2, <1>5
<1>8. ASSUME NEW k \in 0..Len(ws), NEW m \in 0..Len(ws), k # m, NEW x
      PROVE  ~(Contains(Nth(Append(q, h), ws, k), x) /\ Contains(Nth(Append(q, h), ws, m), x))
  BY <1>3, <1>7, <1>8 DEF Spread
<1>9. \A x : x \in a \union {h} <=> \E k \in 0..Len(ws) : Contains(Nth(Append(q, h), ws, k), x)
  BY <1>1, <1>7 DEF Spread
<1> QED BY <1>6, <1>8, <1>9 DEF Spread

LEMMA DropSpread ==
    ASSUME NEW S, NEW q \in Seq(S), NEW a, Spread(q, <<>>, a), NEW h \in a
    PROVE  Spread(Unlink(q, h), <<>>, a \ {h})
<1>1. 0..Len(<<>>) = {0} /\ \A p : Nth(p, <<>>, 0) = p
  BY EmptySeq DEF Nth
<1>2. Distinct(q) /\ \A x : x \in a <=> Contains(q, x)
  BY <1>1 DEF Spread
<1>3. Distinct(Unlink(q, h)) /\ \A x : Contains(Unlink(q, h), x) <=> Contains(q, x) /\ x # h
  BY <1>2, UnlinkDistinct
<1> QED BY <1>1, <1>2, <1>3 DEF Spread

LEMMA PushSpread ==
    ASSUME NEW S, NEW q \in Seq(S), NEW ws \in Seq(Seq(S)), NEW a, Spread(q, ws, a)
    PROVE  /\ <<>> \in Seq(S) /\ <<q>> \o ws \in Seq(Seq(S)) /\ <<q>> \o ws # <<>>
           /\ Spread(<<>>, <<q>> \o ws, a)
           /\ (<<q>> \o ws)[Len(<<q>> \o ws)] = IF ws = <<>> THEN q ELSE ws[Len(ws)]
<1>1. /\ <<q>> \in Seq(Seq(S)) /\ Len(<<q>>) = 1 /\ <<q>>[1] = q
  OBVIOUS
<1>2. /\ <<q>> \o ws \in Seq(Seq(S)) /\ Len(<<q>> \o ws) = 1 + Len(ws) /\ (<<q>> \o ws)[1] = q
      /\ \A i \in 1..Len(ws) : (<<q>> \o ws)[i + 1] = ws[i]
  BY <1>1, ConcatProperties, LenProperties
<1>3. <<>> \in Seq(S) /\ Len(ws) \in Nat /\ \A x : ~Contains(<<>>, x)
  BY EmptySeq, EmptyQueue, LenProperties
<1> DEFINE w == <<q>> \o ws
<1> HIDE DEF w
<1>4. /\ Len(w) = Len(ws) + 1 /\ Nth(<<>>, w, 0) = <<>>
      /\ \A k \in 1..Len(w) : k - 1 \in 0..Len(ws) /\ Nth(<<>>, w, k) = Nth(q, ws, k - 1)
  <2>1. Len(w) = Len(ws) + 1 /\ Nth(<<>>, w, 0) = <<>>
    BY <1>2, <1>3 DEF w, Nth
  <2>2. ASSUME NEW k \in 1..Len(w)
        PROVE  k - 1 \in 0..Len(ws) /\ Nth(<<>>, w, k) = Nth(q, ws, k - 1)
    <3>1. k - 1 \in 0..Len(ws) /\ k # 0
      BY <2>1, <1>3
    <3>2. CASE k = 1
      BY <3>1, <3>2, <1>2 DEF Nth, w
    <3>3. CASE k # 1
      <4>1. k - 1 \in 1..Len(ws) /\ (k - 1) + 1 = k /\ k - 1 # 0
        BY <3>1, <3>3
      <4>2. w[(k - 1) + 1] = ws[k - 1]
        BY <4>1, <1>2 DEF w
      <4> QED BY <3>1, <4>1, <4>2 DEF Nth
    <3> QED BY <3>2, <3>3
  <2> QED BY <2>1, <2>2
<1>5. \A k \in 0..Len(ws) : k + 1 \in 1..Len(w) /\ k + 1 \in 0..Len(w) /\ Nth(<<>>, w, k + 1) = Nth(q, ws, k)
  <2> TAKE k \in 0..Len(ws)
  <2>1. k + 1 \in 1..Len(w) /\ k + 1 \in 0..Len(w) /\ (k + 1) - 1 = k
    BY <1>3, <1>4
  <2> QED BY <1>4, <2>1
<1>6. \A k \in 0..Len(w) : k = 0 \/ k \in 1..Len(w)
  BY <1>4, <1>3
<1>7. Distinct(<<>>)
  BY DEF Distinct
<1>8. \A k \in 0..Len(w) : Distinct(Nth(<<>>, w, k))
  BY <1>4, <1>6, <1>7 DEF Spread
<1>9. ASSUME NEW k \in 0..Len(w), NEW m \in 0..Len(w), k # m, NEW x
      PROVE  ~(Contains(Nth(<<>>, w, k), x) /\ Contains(Nth(<<>>, w, m), x))
  <2>1. CASE k = 0 \/ m = 0
    BY <1>3, <1>4, <2>1
  <2>2. CASE k # 0 /\ m # 0
    <3>1. k - 1 # m - 1 /\ k \in 1..Len(w) /\ m \in 1..Len(w)
      BY <1>6, <1>9, <2>2
    <3>2. /\ k - 1 \in 0..Len(ws) /\ Nth(<<>>, w, k) = Nth(q, ws, k - 1)
          /\ m - 1 \in 0..Len(ws) /\ Nth(<<>>, w, m) = Nth(q, ws, m - 1)
      BY <1>4, <3>1
    <3> QED BY <3>1, <3>2 DEF Spread
  <2> QED BY <2>1, <2>2
<1>10. \A x : x \in a <=> \E k \in 0..Len(w) : Contains(Nth(<<>>, w, k), x)
  BY <1>3, <1>4, <1>5, <1>6 DEF Spread
<1>11. Spread(<<>>, w, a)
  BY <1>8, <1>9, <1>10 DEF Spread
<1>12. w[Len(w)] = IF ws = <<>> THEN q ELSE ws[Len(ws)]
  <2>1. CASE ws = <<>>
    BY <2>1, <1>2, EmptySeq DEF w
  <2>2. CASE ws # <<>>
    <3>1. Len(ws) \in 1..Len(ws)
      BY <2>2, <1>3, EmptySeq
    <3> QED BY <3>1, <2>2, <1>2, <1>4 DEF w
  <2> QED BY <2>1, <2>2
<1>13. w # <<>>
  BY <1>4, <1>3, EmptySeq
<1> QED BY <1>2, <1>3, <1>11, <1>12, <1>13 DEF w

\* The innermost walk has called its first handle.
OnTail(w, ws) == w = [ws EXCEPT ![1] = Tail(ws[1])]

\* The outermost walk has lost no handle but the one it called.
StillDue(ws, w, h) ==
    \A x : Contains(ws[Len(ws)], x) /\ (Len(ws) = 1 => x # h) => Contains(w[Len(w)], x)

LEMMA OnSpread ==
    ASSUME NEW S, NEW q \in Seq(S), NEW ws \in Seq(Seq(S)), NEW a, Spread(q, ws, a),
           ws # <<>>, Head(ws) # <<>>
    PROVE  \A h, w : h = Head(Head(ws)) /\ OnTail(w, ws) =>
             /\ Append(q, h) \in Seq(S) /\ w \in Seq(Seq(S)) /\ w # <<>> /\ Spread(Append(q, h), w, a)
             /\ StillDue(ws, w, h)
<1> SUFFICES ASSUME NEW h, NEW w, h = Head(Head(ws)), OnTail(w, ws)
             PROVE  /\ Append(q, h) \in Seq(S) /\ w \in Seq(Seq(S)) /\ w # <<>> /\ Spread(Append(q, h), w, a)
                    /\ StillDue(ws, w, h)
  OBVIOUS
<1>1. Len(ws) \in Nat /\ 1 \in 1..Len(ws) /\ Head(ws) = ws[1] /\ ws[1] \in Seq(S) /\ ws[1] # <<>>
  <2>1. Len(ws) \in Nat /\ Len(ws) # 0
    BY LenProperties, EmptySeq
  <2>2. 1 \in 1..Len(ws) /\ Head(ws) = ws[1]
    BY <2>1
  <2>3. ws[1] \in Seq(S)
    BY <2>2, ElementOfSeq
  <2> QED BY <2>1, <2>2, <2>3
<1>2. /\ h \in S /\ Contains(ws[1], h) /\ Tail(ws[1]) \in Seq(S)
      /\ \A x : Contains(ws[1], x) <=> x = h \/ Contains(Tail(ws[1]), x)
      /\ Distinct(ws[1]) => Distinct(Tail(ws[1])) /\ ~Contains(Tail(ws[1]), h)
  BY <1>1, TailQueue
<1>3. w \in Seq(Seq(S)) /\ Len(w) = Len(ws) /\ w[1] = Tail(ws[1]) /\ \A k \in 2..Len(ws) : w[k] = ws[k]
  BY <1>1, <1>2, ExceptSeq DEF OnTail
<1>4. /\ Nth(q, ws, 0) = q /\ Nth(q, ws, 1) = ws[1] /\ Nth(Append(q, h), w, 0) = Append(q, h)
      /\ Nth(Append(q, h), w, 1) = Tail(ws[1])
      /\ \A k \in 0..Len(ws) : k # 0 /\ k # 1 => Nth(Append(q, h), w, k) = Nth(q, ws, k)
  BY <1>3 DEF Nth
<1>5. 0 \in 0..Len(ws) /\ 1 \in 0..Len(ws)
  BY <1>1
<1>6. ~Contains(q, h) /\ Distinct(q) /\ Distinct(ws[1])
  BY <1>2, <1>4, <1>5 DEF Spread
<1>7. /\ Append(q, h) \in Seq(S) /\ Distinct(Append(q, h))
      /\ \A x : Contains(Append(q, h), x) <=> Contains(q, x) \/ x = h
  BY <1>2, <1>6, AppendQueue
<1>8. \A k \in 0..Len(ws) : \A x : Contains(Nth(Append(q, h), w, k), x) <=>
         IF k = 0 THEN Contains(q, x) \/ x = h
         ELSE IF k = 1 THEN Contains(ws[1], x) /\ x # h ELSE Contains(Nth(q, ws, k), x)
  BY <1>2, <1>4, <1>6, <1>7
<1>9. \A k \in 0..Len(ws) : Distinct(Nth(Append(q, h), w, k))
  BY <1>2, <1>4, <1>6, <1>7 DEF Spread
<1>10. ASSUME NEW k \in 0..Len(ws), NEW m \in 0..Len(ws), k # m, NEW x
       PROVE  ~(Contains(Nth(Append(q, h), w, k), x) /\ Contains(Nth(Append(q, h), w, m), x))
  <2>1. \A i \in 0..Len(ws) : i # 1 => ~Contains(Nth(q, ws, i), h)
    BY <1>2, <1>4, <1>5 DEF Spread
  <2>2. \A i, j \in 0..Len(ws) : i # j => ~(Contains(Nth(q, ws, i), x) /\ Contains(Nth(q, ws, j), x))
    BY DEF Spread
  <2>3. CASE x = h
    BY <1>8, <1>10, <2>1, <2>3
  <2>4. CASE x # h
    <3>1. \A i \in 0..Len(ws) : Contains(Nth(Append(q, h), w, i), x) => Contains(Nth(q, ws, i), x)
      BY <1>4, <1>8, <2>4
    <3> QED BY <2>2, <3>1, <1>10
  <2> QED BY <2>3, <2>4
<1>11. ASSUME NEW x
       PROVE  x \in a <=> \E k \in 0..Len(ws) : Contains(Nth(Append(q, h), w, k), x)
  <2>1. h \in a
    BY <1>2, <1>4, <1>5 DEF Spread
  <2>2. CASE x = h
    BY <1>5, <1>8, <2>1, <2>2
  <2>3. CASE x # h
    <3>1. \A i \in 0..Len(ws) : Contains(Nth(Append(q, h), w, i), x) <=> Contains(Nth(q, ws, i), x)
      BY <1>4, <1>8, <2>3
    <3> QED BY <3>1 DEF Spread
  <2> QED BY <2>2, <2>3
<1>12. Spread(Append(q, h), w, a)
  BY <1>3, <1>9, <1>10, <1>11 DEF Spread
<1>13. ASSUME NEW x, Contains(ws[Len(ws)], x), Len(ws) = 1 => x # h
       PROVE  Contains(w[Len(w)], x)
  <2>1. CASE Len(ws) = 1
    BY <1>2, <1>3, <1>13, <2>1
  <2>2. CASE Len(ws) # 1
    <3>0. Len(ws) \in Nat /\ 1 \in 1..Len(ws)
      BY <1>1
    <3>1. Len(ws) \in 2..Len(ws)
      <4>1. \A n \in Nat : n # 1 /\ 1 \in 1..n => n \in 2..n
        OBVIOUS
      <4> QED BY <2>2, <3>0, <4>1
    <3> QED BY <1>3, <1>13, <3>1
  <2> QED BY <2>1, <2>2
<1>14. w # <<>>
  BY <1>1, <1>3, EmptySeq
<1> QED BY <1>3, <1>7, <1>12, <1>13, <1>14 DEF StillDue

LEMMA PopSpread ==
    ASSUME NEW S, NEW q \in Seq(S), NEW ws \in Seq(Seq(S)), NEW a, Spread(q, ws, a),
           ws # <<>>, Head(ws) = <<>>
    PROVE  /\ Tail(ws) \in Seq(Seq(S)) /\ Spread(q, Tail(ws), a)
           /\ \A x : Contains(ws[Len(ws)], x) =>
                Tail(ws) # <<>> /\ Contains(Tail(ws)[Len(Tail(ws))], x)
<1>1. /\ Len(ws) \in Nat /\ 1 \in 1..Len(ws) /\ ws[1] = <<>>
      /\ Tail(ws) \in Seq(Seq(S)) /\ Len(Tail(ws)) = Len(ws) - 1
      /\ \A i \in 1..Len(Tail(ws)) : Tail(ws)[i] = ws[i + 1]
  <2>1. Len(ws) \in Nat /\ Len(ws) # 0
    BY LenProperties, EmptySeq
  <2>2. 1 \in 1..Len(ws) /\ Head(ws) = ws[1]
    BY <2>1
  <2> QED BY <2>1, <2>2, HeadTailProperties
<1> DEFINE w == Tail(ws)
<1> HIDE DEF w
<1>2. Len(w) = Len(ws) - 1 /\ \A i \in 1..Len(w) : w[i] = ws[i + 1]
  BY <1>1 DEF w
<1>3. \A x : ~Contains(<<>>, x)
  BY EmptyQueue
<1>4. \A k \in 0..Len(w) : k \in 0..Len(ws) /\ k + 1 \in 0..Len(ws)
  BY <1>1, <1>2
<1>5. Nth(q, w, 0) = Nth(q, ws, 0) /\ \A k \in 1..Len(w) : Nth(q, w, k) = Nth(q, ws, k + 1)
  <2>1. \A k \in 1..Len(w) : k # 0 /\ k + 1 # 0
    BY <1>1, <1>2
  <2> QED BY <1>2, <2>1 DEF Nth
<1>6. Nth(q, ws, 1) = <<>> /\ \A k \in 0..Len(w) : k = 0 \/ k \in 1..Len(w)
  BY <1>1, <1>2 DEF Nth
<1>7. \A k \in 0..Len(w) : Distinct(Nth(q, w, k))
  BY <1>4, <1>5, <1>6 DEF Spread
<1>8. ASSUME NEW k \in 0..Len(w), NEW m \in 0..Len(w), k # m, NEW x
      PROVE  ~(Contains(Nth(q, w, k), x) /\ Contains(Nth(q, w, m), x))
  <2>1. PICK i \in 0..Len(ws) : Nth(q, w, k) = Nth(q, ws, i) /\ i = IF k = 0 THEN 0 ELSE k + 1
    BY <1>4, <1>5, <1>6
  <2>2. PICK j \in 0..Len(ws) : Nth(q, w, m) = Nth(q, ws, j) /\ j = IF m = 0 THEN 0 ELSE m + 1
    BY <1>4, <1>5, <1>6
  <2>3. i # j
    BY <1>8, <2>1, <2>2, <1>1, <1>2
  <2> QED BY <2>1, <2>2, <2>3 DEF Spread
<1>9. \A k \in 0..Len(ws) : k = 0 \/ k = 1 \/ (k - 1 \in 0..Len(w) /\ Nth(q, w, k - 1) = Nth(q, ws, k))
  <2> SUFFICES ASSUME NEW k \in 0..Len(ws), k # 0, k # 1
               PROVE  k - 1 \in 0..Len(w) /\ Nth(q, w, k - 1) = Nth(q, ws, k)
    OBVIOUS
  <2>1. k - 1 \in 0..Len(w) /\ k - 1 \in 1..Len(w) /\ (k - 1) + 1 = k
    BY <1>1, <1>2
  <2>2. Nth(q, w, k - 1) = Nth(q, ws, (k - 1) + 1)
    BY <1>5, <2>1
  <2> QED BY <2>1, <2>2
<1>10. ASSUME NEW x
       PROVE  x \in a <=> \E k \in 0..Len(w) : Contains(Nth(q, w, k), x)
  <2>1. ASSUME x \in a PROVE \E k \in 0..Len(w) : Contains(Nth(q, w, k), x)
    <3>1. PICK k \in 0..Len(ws) : Contains(Nth(q, ws, k), x)
      BY <2>1 DEF Spread
    <3>2. 0 \in 0..Len(w)
      BY <1>1, <1>2
    <3> QED BY <1>3, <1>5, <1>6, <1>9, <3>1, <3>2
  <2>2. ASSUME NEW k \in 0..Len(w), Contains(Nth(q, w, k), x) PROVE x \in a
    <3>1. PICK i \in 0..Len(ws) : Nth(q, w, k) = Nth(q, ws, i)
      BY <1>4, <1>5, <1>6
    <3> QED BY <2>2, <3>1 DEF Spread
  <2> QED BY <2>1, <2>2
<1>11. Spread(q, w, a)
  BY <1>7, <1>8, <1>10 DEF Spread
<1>12. ASSUME NEW x, Contains(ws[Len(ws)], x) PROVE w # <<>> /\ Contains(w[Len(w)], x)
  <2>1. Len(ws) # 1
    BY <1>1, <1>3, <1>12
  <2>2. Len(w) \in 1..Len(w) /\ Len(w) + 1 = Len(ws)
    BY <2>1, <1>1, <1>2
  <2>3. w[Len(w)] = ws[Len(w) + 1]
    BY <1>2, <2>2
  <2> QED BY <1>12, <2>2, <2>3, EmptySeq
<1> QED BY <1>1, <1>11, <1>12 DEF w

LEMMA LlOrder ==
    /\ LoopLife!InitOrder \in Seq(LlHave) /\ Len(LoopLife!InitOrder) = 7 /\ DOMAIN LoopLife!InitOrder = 1..7
    /\ LoopLife!InitOrder[1] = "fields" /\ LoopLife!InitOrder[2] = "metrics lock" /\ LoopLife!InitOrder[3] = "backend_fd"
    /\ LoopLife!InitOrder[4] = "signal pipe" /\ LoopLife!InitOrder[5] = "cloexec_lock" /\ LoopLife!InitOrder[6] = "wq_mutex"
    /\ LoopLife!InitOrder[7] = "async fd"
<1>1. LoopLife!InitOrder \in Seq(LlHave)
  BY DEF LoopLife!InitOrder, LlHave
<1>2. Len(LoopLife!InitOrder) = 7
  BY DEF LoopLife!InitOrder
<1>3. DOMAIN LoopLife!InitOrder = 1..7
  BY <1>1, <1>2
<1>4. LoopLife!InitOrder[1] = "fields" /\ LoopLife!InitOrder[2] = "metrics lock" /\ LoopLife!InitOrder[3] = "backend_fd"
  BY DEF LoopLife!InitOrder
<1>5. LoopLife!InitOrder[4] = "signal pipe" /\ LoopLife!InitOrder[5] = "cloexec_lock" /\ LoopLife!InitOrder[6] = "wq_mutex"
  BY DEF LoopLife!InitOrder
<1>6. LoopLife!InitOrder[7] = "async fd"
  BY DEF LoopLife!InitOrder
<1> QED BY <1>1, <1>2, <1>3, <1>4, <1>5, <1>6

LEMMA LlHas == LlHave = LoopLife!Range(LoopLife!InitOrder) \union LoopLife!Later
<1>1. DOMAIN LoopLife!InitOrder = 1..7
  BY LlOrder
<1>2. \A x : x \in LoopLife!Range(LoopLife!InitOrder) <=> \E i \in 1..7 : x = LoopLife!InitOrder[i]
  BY <1>1, LlOps DEF Range
<1>3. \A i \in 1..7 : i = 1 \/ i = 2 \/ i = 3 \/ i = 4 \/ i = 5 \/ i = 6 \/ i = 7
  OBVIOUS
<1>4. 1 \in 1..7 /\ 2 \in 1..7 /\ 3 \in 1..7 /\ 4 \in 1..7 /\ 5 \in 1..7 /\ 6 \in 1..7 /\ 7 \in 1..7
  OBVIOUS
<1>5. \A x : x \in LoopLife!Range(LoopLife!InitOrder) <=>
        x = LoopLife!InitOrder[1] \/ x = LoopLife!InitOrder[2] \/ x = LoopLife!InitOrder[3] \/ x = LoopLife!InitOrder[4] \/ x = LoopLife!InitOrder[5]
        \/ x = LoopLife!InitOrder[6] \/ x = LoopLife!InitOrder[7]
  BY <1>2, <1>3, <1>4
<1>6. \A x : x \in LoopLife!Range(LoopLife!InitOrder) <=>
        x \in {"fields", "metrics lock", "backend_fd", "signal pipe", "cloexec_lock", "wq_mutex", "async fd"}
  BY <1>5, LlOrder
<1>7. \A x : x \in LlHave <=> x \in LoopLife!Range(LoopLife!InitOrder) \/ x \in LoopLife!Later
  BY <1>6 DEF LlHave, LoopLife!Later
<1> QED BY <1>7

\* What a failed step of uv_loop_init leaves behind.
LEMMA LlUndone ==
    ASSUME NEW i \in DOMAIN LoopLife!InitOrder
    PROVE  Range(SubSeq(LoopLife!InitOrder, 1, i - 1)) \ LoopLife!Undone(i) = {}
<1>1. /\ LoopLife!InitOrder \in Seq(LlHave) /\ Len(LoopLife!InitOrder) = 7 /\ i \in 1..7
      /\ LoopLife!InitOrder[1] = "fields" /\ LoopLife!InitOrder[2] = "metrics lock" /\ LoopLife!InitOrder[3] = "backend_fd"
      /\ LoopLife!InitOrder[4] = "signal pipe" /\ LoopLife!InitOrder[5] = "cloexec_lock" /\ LoopLife!InitOrder[6] = "wq_mutex"
  BY LlOrder
<1>2. /\ DOMAIN SubSeq(LoopLife!InitOrder, 1, i - 1) = 1..(i - 1)
      /\ \A j \in 1..(i - 1) : SubSeq(LoopLife!InitOrder, 1, i - 1)[j] = LoopLife!InitOrder[j]
  <2>1. i \in 1..7 /\ LoopLife!InitOrder \in Seq(LlHave) /\ Len(LoopLife!InitOrder) = 7
    BY <1>1
  <2>2. i - 1 \in 0..7
    BY <2>1
  <2>3. /\ Len(SubSeq(LoopLife!InitOrder, 1, i - 1)) = i - 1 /\ SubSeq(LoopLife!InitOrder, 1, i - 1) \in Seq(LlHave)
        /\ \A j \in 1..(i - 1) : SubSeq(LoopLife!InitOrder, 1, i - 1)[j] = LoopLife!InitOrder[j]
    <3>a. i - 1 \in Int /\ \A j \in 1..(i - 1) : j \in 1..7 /\ 1 + j - 1 = j
      BY <2>1
    <3>1. i - 1 \in Int /\ \A j \in 1..(i - 1) : LoopLife!InitOrder[j] \in LlHave /\ 1 + j - 1 = j
      BY <2>1, <3>a, ElementOfSeq
    <3>2. (IF 1 <= i - 1 THEN (i - 1) - 1 + 1 ELSE 0) = i - 1 /\ (i - 1) - 1 + 1 = i - 1
      BY <2>2
    <3> QED BY <3>1, <3>2, SubSeqProperties
  <2> QED BY <2>3
<1>3. /\ "fields" \in LoopLife!ReleasedAt(2) /\ "metrics lock" \in LoopLife!ReleasedAt(3)
      /\ "backend_fd" \in LoopLife!ReleasedAt(4) /\ "signal pipe" \in LoopLife!ReleasedAt(4)
      /\ "cloexec_lock" \in LoopLife!ReleasedAt(6) /\ "wq_mutex" \in LoopLife!ReleasedAt(7)
  BY DEF LoopLife!ReleasedAt
<1>4. ASSUME NEW x \in Range(SubSeq(LoopLife!InitOrder, 1, i - 1)) PROVE x \in LoopLife!Undone(i)
  <2>1. PICK j \in 1..(i - 1) : x = LoopLife!InitOrder[j]
    BY <1>2, LlOps DEF Range
  <2>2. j \in 1..6 /\ j + 1 \in 1..i /\ i \in Nat
    <3>1. i \in 1..7
      BY <1>1
    <3> QED BY <2>1, <3>1
  <2>3. \E k \in 1..i : x \in LoopLife!ReleasedAt(k)
    <3>1. CASE j = 1
      <4>1. 2 \in 1..i
        BY <2>2, <3>1
      <4> QED BY <1>1, <1>3, <2>1, <3>1, <4>1
    <3>2. CASE j = 2
      <4>1. 3 \in 1..i
        BY <2>2, <3>2
      <4> QED BY <1>1, <1>3, <2>1, <3>2, <4>1
    <3>3. CASE j \in {3, 4}
      <4>1. 4 \in 1..i
        BY <2>2, <3>3
      <4> QED BY <1>1, <1>3, <2>1, <3>3, <4>1
    <3>4. CASE j = 5
      <4>1. 6 \in 1..i
        BY <2>2, <3>4
      <4> QED BY <1>1, <1>3, <2>1, <3>4, <4>1
    <3>5. CASE j = 6
      <4>1. 7 \in 1..i
        BY <2>2, <3>5
      <4> QED BY <1>1, <1>3, <2>1, <3>5, <4>1
    <3> QED BY <2>2, <3>1, <3>2, <3>3, <3>4, <3>5
  <2> QED BY <2>3 DEF LoopLife!Undone
<1> QED BY <1>4

LEMMA LlBegins ==
    ASSUME LoopLife!Init
    PROVE  LlInv
<1>1. /\ DOMAIN loops = LlFields /\ loops.up = FALSE /\ loops.broken = FALSE /\ loops.reqs = 0
      /\ loops.handles = <<>> /\ loops.walks = <<>> /\ loops.lost = {} /\ loops.have = {}
      /\ loops.alive = {} /\ loops.registered = {} /\ loops.waiting = {} /\ loops.due = {}
      /\ ~loops.memory /\ ~loops.default
  BY DEF LoopLife!Init, LlFields
<1>2. LlTyped
  BY <1>1, EmptySeq DEF LlTyped
<1> QED BY <1>1, <1>2 DEF LlInv, LlClosed, LlQueues, LlDue, LlClosing, LlWatched

LEMMA LlStep ==
    ASSUME LlConstants, LlInv, LoopLife!Next
    PROVE  LlInv'
<1> LlConstants /\ (DOMAIN loops = LlFields) /\ LlTyped /\ LlClosed /\ LlQueues /\ LlDue /\
         LlClosing /\ LlWatched
  BY DEF LlInv
<1>1. CASE LoopLife!LoopInit
  <2>u. /\ DOMAIN loops' = DOMAIN loops /\ loops'.memory = loops.heap
        /\ loops'.default = ~loops.heap /\ loops'.up = TRUE
        /\ loops'.have = LoopLife!Range(LoopLife!InitOrder)
        /\ loops'.handles = <<"child_watcher", "wq_async">> /\ loops'.closing = {}
        /\ loops'.registered = {} /\ loops'.waiting = {"async", "signal"}
        /\ loops'.interest = {"async", "signal"} /\ loops'.broken = FALSE
        /\ loops'.alive = loops.alive /\ loops'.lost = loops.lost /\ loops'.reqs = loops.reqs
        /\ loops'.walks = loops.walks /\ loops'.due = loops.due
    BY <1>1 DEF LoopLife!LoopInit, LlTyped, LlFields
  <2>g. ~loops.up
    BY <1>1 DEF LoopLife!LoopInit
  <2>c. loops.alive = {} /\ loops.walks = <<>> /\ loops.due = {}
    BY <2>g DEF LlClosed
  <2>s. /\ <<"child_watcher", "wq_async">> \in Seq(LlHandles)
        /\ Spread(<<"child_watcher", "wq_async">>, <<>>, {} \union {"child_watcher", "wq_async"})
    BY LlStart
  <2>h. \A x \in LoopLife!Range(LoopLife!InitOrder) : x \in LlHave
    BY LlHas
  <2>1. (DOMAIN loops = LlFields)'
    BY <2>u, <2>g
  <2>2. LlTyped'
    BY <2>u, <2>g, <2>s, <2>h, <2>c DEF LlTyped, LoopLife!Owners
  <2>3. LlClosed'
    BY <2>u, <2>g DEF LlClosed, LlTyped
  <2>4. LlQueues'
    BY <2>u, <2>g, <2>s, <2>c DEF LlQueues, LlTyped
  <2>5. LlDue'
    BY <2>u, <2>g, <2>c DEF LlDue
  <2>6. LlClosing'
    BY <2>u, <2>g DEF LlClosing
  <2>7. LlWatched'
    BY <2>u, <2>g DEF LlWatched
  <2> QED BY <2>1, <2>2, <2>3, <2>4, <2>5, <2>6, <2>7 DEF LlInv
<1>2. CASE LoopLife!LoopInitFails
  <2>i. PICK i \in DOMAIN LoopLife!InitOrder :
            loops' = [loops EXCEPT !.lost = Range(SubSeq(LoopLife!InitOrder, 1, i - 1)) \ LoopLife!Undone(i)]
    BY <1>2, LlOps DEF LoopLife!LoopInitFails
  <2>e. loops' = [loops EXCEPT !.lost = {}]
    BY <2>i, LlUndone
  <2>u. /\ DOMAIN loops' = DOMAIN loops /\ loops'.lost = {} /\ loops'.alive = loops.alive
        /\ loops'.memory = loops.memory /\ loops'.default = loops.default
        /\ loops'.up = loops.up /\ loops'.have = loops.have /\ loops'.handles = loops.handles
        /\ loops'.closing = loops.closing /\ loops'.reqs = loops.reqs
        /\ loops'.walks = loops.walks /\ loops'.due = loops.due
        /\ loops'.registered = loops.registered /\ loops'.waiting = loops.waiting
        /\ loops'.interest = loops.interest /\ loops'.broken = loops.broken
    BY <1>2, <2>e DEF LoopLife!LoopInitFails, LlTyped, LlFields
  <2>1. (DOMAIN loops = LlFields)'
    BY <2>u
  <2>2. LlTyped'
    BY <2>u DEF LlTyped
  <2>3. LlClosed'
    BY <2>u DEF LlClosed, LlTyped
  <2>4. LlQueues'
    BY <2>u DEF LlQueues, LlTyped
  <2>5. LlDue'
    BY <2>u DEF LlDue
  <2>6. LlClosing'
    BY <2>u DEF LlClosing
  <2>7. LlWatched'
    BY <2>u DEF LlWatched
  <2> QED BY <2>1, <2>2, <2>3, <2>4, <2>5, <2>6, <2>7 DEF LlInv
<1>3. CASE LoopLife!Watch
  <2>u. /\ DOMAIN loops' = DOMAIN loops /\ loops'.waiting = loops.waiting \union {"user"}
        /\ loops'.interest = loops.interest \union {"user"} /\ loops'.alive = loops.alive
        /\ loops'.memory = loops.memory /\ loops'.default = loops.default
        /\ loops'.up = loops.up /\ loops'.have = loops.have /\ loops'.lost = loops.lost
        /\ loops'.handles = loops.handles /\ loops'.closing = loops.closing
        /\ loops'.reqs = loops.reqs /\ loops'.walks = loops.walks /\ loops'.due = loops.due
        /\ loops'.registered = loops.registered /\ loops'.broken = loops.broken
    BY <1>3 DEF LoopLife!Watch, LoopLife!Running, LlTyped, LlFields
  <2>1. (DOMAIN loops = LlFields)'
    BY <2>u
  <2>2. LlTyped'
    BY <2>u DEF LlTyped, LoopLife!Owners
  <2>3. LlClosed'
    BY <2>u DEF LlClosed, LlTyped
  <2>4. LlQueues'
    BY <2>u DEF LlQueues, LlTyped
  <2>5. LlDue'
    BY <2>u DEF LlDue
  <2>6. LlClosing'
    BY <2>u DEF LlClosing
  <2>7. LlWatched'
    BY <2>u DEF LlWatched
  <2> QED BY <2>1, <2>2, <2>3, <2>4, <2>5, <2>6, <2>7 DEF LlInv
<1>4. CASE LoopLife!Poll
  <2>u. /\ DOMAIN loops' = DOMAIN loops
        /\ loops'.registered = loops.registered \union loops.waiting /\ loops'.waiting = {}
        /\ loops'.alive = loops.alive /\ loops'.memory = loops.memory
        /\ loops'.default = loops.default /\ loops'.up = loops.up /\ loops'.have = loops.have
        /\ loops'.lost = loops.lost /\ loops'.handles = loops.handles
        /\ loops'.closing = loops.closing /\ loops'.reqs = loops.reqs
        /\ loops'.walks = loops.walks /\ loops'.due = loops.due
        /\ loops'.interest = loops.interest /\ loops'.broken = loops.broken
    BY <1>4 DEF LoopLife!Poll, LoopLife!Running, LlTyped, LlFields
  <2>1. (DOMAIN loops = LlFields)'
    BY <2>u
  <2>2. LlTyped'
    BY <2>u DEF LlTyped
  <2>3. LlClosed'
    BY <2>u DEF LlClosed, LlTyped
  <2>4. LlQueues'
    BY <2>u DEF LlQueues, LlTyped
  <2>5. LlDue'
    BY <2>u DEF LlDue
  <2>6. LlClosing'
    BY <2>u DEF LlClosing
  <2>7. LlWatched'
    BY <2>u DEF LlWatched
  <2> QED BY <2>1, <2>2, <2>3, <2>4, <2>5, <2>6, <2>7 DEF LlInv
<1>5. ASSUME LoopLife!Fork, loops.broken' PROVE LlInv'
  <2>u. /\ DOMAIN loops' = DOMAIN loops /\ loops'.broken = TRUE /\ loops'.alive = loops.alive
        /\ loops'.memory = loops.memory /\ loops'.default = loops.default
        /\ loops'.up = loops.up /\ loops'.have = loops.have /\ loops'.lost = loops.lost
        /\ loops'.handles = loops.handles /\ loops'.closing = loops.closing
        /\ loops'.reqs = loops.reqs /\ loops'.walks = loops.walks /\ loops'.due = loops.due
        /\ loops'.registered = loops.registered /\ loops'.waiting = loops.waiting
        /\ loops'.interest = loops.interest
    BY <1>5 DEF LoopLife!Fork, LoopLife!Running, LlTyped, LlFields
  <2>g. loops.up /\ ~loops.broken
    BY <1>5 DEF LoopLife!Fork, LoopLife!Running
  <2>1. (DOMAIN loops = LlFields)'
    BY <2>u, <2>g
  <2>2. LlTyped'
    BY <2>u, <2>g DEF LlTyped
  <2>3. LlClosed'
    BY <2>u, <2>g DEF LlClosed, LlTyped
  <2>4. LlQueues'
    BY <2>u, <2>g DEF LlQueues, LlTyped
  <2>5. LlDue'
    BY <2>u, <2>g DEF LlDue
  <2>6. LlClosing'
    BY <2>u, <2>g DEF LlClosing
  <2>7. LlWatched'
    BY <2>u, <2>g DEF LlWatched
  <2> QED BY <2>1, <2>2, <2>3, <2>4, <2>5, <2>6, <2>7 DEF LlInv
<1>6. ASSUME LoopLife!Fork, ~loops.broken' PROVE LlInv'
  <2>u. /\ DOMAIN loops' = DOMAIN loops /\ loops'.have = loops.have \ {"cf_state"}
        /\ loops'.registered = {} /\ loops'.waiting = loops.waiting \union loops.interest
        /\ loops'.alive = loops.alive /\ loops'.memory = loops.memory
        /\ loops'.default = loops.default /\ loops'.up = loops.up /\ loops'.lost = loops.lost
        /\ loops'.handles = loops.handles /\ loops'.closing = loops.closing
        /\ loops'.reqs = loops.reqs /\ loops'.walks = loops.walks /\ loops'.due = loops.due
        /\ loops'.interest = loops.interest /\ loops'.broken = loops.broken
    BY <1>6 DEF LoopLife!Fork, LoopLife!Running, LoopLife!Rearmed, LlTyped, LlFields
  <2>g. loops.up /\ ~loops.broken
    BY <1>6 DEF LoopLife!Fork, LoopLife!Running, LoopLife!Rearmed
  <2>own. \A x \in loops.interest : x \in LoopLife!Owners
    BY <2>g DEF LlWatched, LlTyped
  <2>1. (DOMAIN loops = LlFields)'
    BY <2>u, <2>g
  <2>2. LlTyped'
    BY <2>u, <2>g, <2>own DEF LlTyped
  <2>3. LlClosed'
    BY <2>u, <2>g DEF LlClosed, LlTyped
  <2>4. LlQueues'
    BY <2>u, <2>g DEF LlQueues, LlTyped
  <2>5. LlDue'
    BY <2>u, <2>g DEF LlDue
  <2>6. LlClosing'
    BY <2>u, <2>g DEF LlClosing
  <2>7. LlWatched'
    BY <2>u, <2>g DEF LlWatched
  <2> QED BY <2>1, <2>2, <2>3, <2>4, <2>5, <2>6, <2>7 DEF LlInv
<1>7. CASE LoopLife!Request
  <2>u. /\ DOMAIN loops' = DOMAIN loops /\ loops'.reqs = 1 - loops.reqs
        /\ loops'.alive = loops.alive /\ loops'.memory = loops.memory
        /\ loops'.default = loops.default /\ loops'.up = loops.up /\ loops'.have = loops.have
        /\ loops'.lost = loops.lost /\ loops'.handles = loops.handles
        /\ loops'.closing = loops.closing /\ loops'.walks = loops.walks
        /\ loops'.due = loops.due /\ loops'.registered = loops.registered
        /\ loops'.waiting = loops.waiting /\ loops'.interest = loops.interest
        /\ loops'.broken = loops.broken
    BY <1>7 DEF LoopLife!Request, LoopLife!Running, LlTyped, LlFields
  <2>1. (DOMAIN loops = LlFields)'
    BY <2>u
  <2>2. LlTyped'
    BY <2>u DEF LlTyped
  <2>3. LlClosed'
    BY <2>u DEF LlClosed, LlTyped
  <2>4. LlQueues'
    BY <2>u DEF LlQueues, LlTyped
  <2>5. LlDue'
    BY <2>u DEF LlDue
  <2>6. LlClosing'
    BY <2>u DEF LlClosing
  <2>7. LlWatched'
    BY <2>u DEF LlWatched
  <2> QED BY <2>1, <2>2, <2>3, <2>4, <2>5, <2>6, <2>7 DEF LlInv
<1>8. ASSUME NEW r \in LoopLife!Later, LoopLife!Acquire(r) PROVE LlInv'
  <2>u. /\ DOMAIN loops' = DOMAIN loops /\ loops'.have = loops.have \union {r}
        /\ loops'.alive = loops.alive /\ loops'.memory = loops.memory
        /\ loops'.default = loops.default /\ loops'.up = loops.up /\ loops'.lost = loops.lost
        /\ loops'.handles = loops.handles /\ loops'.closing = loops.closing
        /\ loops'.reqs = loops.reqs /\ loops'.walks = loops.walks /\ loops'.due = loops.due
        /\ loops'.registered = loops.registered /\ loops'.waiting = loops.waiting
        /\ loops'.interest = loops.interest /\ loops'.broken = loops.broken
    BY <1>8 DEF LoopLife!Acquire, LoopLife!Running, LlTyped, LlFields
  <2>g. loops.up /\ ~loops.broken
    BY <1>8 DEF LoopLife!Acquire, LoopLife!Running
  <2>1. (DOMAIN loops = LlFields)'
    BY <2>u, <2>g
  <2>2. LlTyped'
    BY <2>u, <2>g DEF LlTyped, LoopLife!Later, LlHave
  <2>3. LlClosed'
    BY <2>u, <2>g DEF LlClosed, LlTyped
  <2>4. LlQueues'
    BY <2>u, <2>g DEF LlQueues, LlTyped
  <2>5. LlDue'
    BY <2>u, <2>g DEF LlDue
  <2>6. LlClosing'
    BY <2>u, <2>g DEF LlClosing
  <2>7. LlWatched'
    BY <2>u, <2>g DEF LlWatched
  <2> QED BY <2>1, <2>2, <2>3, <2>4, <2>5, <2>6, <2>7 DEF LlInv
<1>9. ASSUME NEW h \in Names, LoopLife!MakeHandle(h) PROVE LlInv'
  <2>u. /\ DOMAIN loops' = DOMAIN loops /\ loops'.alive = loops.alive \union {h}
        /\ loops'.handles = Append(loops.handles, h) /\ loops'.memory = loops.memory
        /\ loops'.default = loops.default /\ loops'.up = loops.up /\ loops'.have = loops.have
        /\ loops'.lost = loops.lost /\ loops'.closing = loops.closing
        /\ loops'.reqs = loops.reqs /\ loops'.walks = loops.walks /\ loops'.due = loops.due
        /\ loops'.registered = loops.registered /\ loops'.waiting = loops.waiting
        /\ loops'.interest = loops.interest /\ loops'.broken = loops.broken
    BY <1>9 DEF LoopLife!MakeHandle, LoopLife!Running, LlTyped, LlFields
  <2>g. loops.up /\ ~loops.broken /\ h \notin loops.alive
    BY <1>9 DEF LoopLife!MakeHandle, LoopLife!Running
  <2>k. h \in LlHandles /\ h \notin loops.alive \union {"child_watcher", "wq_async"}
    BY <2>g DEF LlConstants, LlHandles
  <2>a. Append(loops.handles, h) \in Seq(LlHandles)
    BY <2>k, AppendQueue DEF LlTyped
  <2>s. Spread(Append(loops.handles, h), loops.walks, (loops.alive \union {"child_watcher", "wq_async"}) \union {h})
    BY <2>g, <2>k, AddSpread DEF LlTyped, LlQueues
  <2>e. (loops.alive \union {"child_watcher", "wq_async"}) \union {h} = (loops.alive \union {h}) \union {"child_watcher", "wq_async"}
    OBVIOUS
  <2>1. (DOMAIN loops = LlFields)'
    BY <2>u, <2>g
  <2>2. LlTyped'
    BY <2>u, <2>g, <2>a DEF LlTyped
  <2>3. LlClosed'
    BY <2>u, <2>g DEF LlClosed, LlTyped
  <2>4. LlQueues'
    BY <2>u, <2>g, <2>s, <2>e DEF LlQueues, LlTyped
  <2>5. LlDue'
    BY <2>u, <2>g DEF LlDue
  <2>6. LlClosing'
    BY <2>u, <2>g DEF LlClosing
  <2>7. LlWatched'
    BY <2>u, <2>g DEF LlWatched
  <2> QED BY <2>1, <2>2, <2>3, <2>4, <2>5, <2>6, <2>7 DEF LlInv
<1>10. ASSUME NEW h \in Names, LoopLife!CloseHandle(h) PROVE LlInv'
  <2>u. /\ DOMAIN loops' = DOMAIN loops /\ loops'.closing = loops.closing \union {h}
        /\ loops'.alive = loops.alive /\ loops'.memory = loops.memory
        /\ loops'.default = loops.default /\ loops'.up = loops.up /\ loops'.have = loops.have
        /\ loops'.lost = loops.lost /\ loops'.handles = loops.handles
        /\ loops'.reqs = loops.reqs /\ loops'.walks = loops.walks /\ loops'.due = loops.due
        /\ loops'.registered = loops.registered /\ loops'.waiting = loops.waiting
        /\ loops'.interest = loops.interest /\ loops'.broken = loops.broken
    BY <1>10 DEF LoopLife!CloseHandle, LoopLife!Running, LlTyped, LlFields
  <2>g. h \in loops.alive
    BY <1>10 DEF LoopLife!CloseHandle, LoopLife!Running
  <2>1. (DOMAIN loops = LlFields)'
    BY <2>u, <2>g
  <2>2. LlTyped'
    BY <2>u, <2>g DEF LlTyped
  <2>3. LlClosed'
    BY <2>u, <2>g DEF LlClosed, LlTyped
  <2>4. LlQueues'
    BY <2>u, <2>g DEF LlQueues, LlTyped
  <2>5. LlDue'
    BY <2>u, <2>g DEF LlDue
  <2>6. LlClosing'
    BY <2>u, <2>g DEF LlClosing
  <2>7. LlWatched'
    BY <2>u, <2>g DEF LlWatched
  <2> QED BY <2>1, <2>2, <2>3, <2>4, <2>5, <2>6, <2>7 DEF LlInv
<1>11. ASSUME NEW h \in Names, LoopLife!FinishClose(h) PROVE LlInv'
  <2>u. /\ DOMAIN loops' = DOMAIN loops /\ loops'.alive = loops.alive \ {h}
        /\ loops'.handles = Unlink(loops.handles, h) /\ loops'.closing = loops.closing \ {h}
        /\ loops'.memory = loops.memory /\ loops'.default = loops.default
        /\ loops'.up = loops.up /\ loops'.have = loops.have /\ loops'.lost = loops.lost
        /\ loops'.reqs = loops.reqs /\ loops'.walks = loops.walks /\ loops'.due = loops.due
        /\ loops'.registered = loops.registered /\ loops'.waiting = loops.waiting
        /\ loops'.interest = loops.interest /\ loops'.broken = loops.broken
    BY <1>11, LlOps DEF LoopLife!FinishClose, LoopLife!Running, LlTyped, LlFields
  <2>g. loops.up /\ ~loops.broken /\ h \in loops.closing /\ loops.walks = <<>>
    BY <1>11 DEF LoopLife!FinishClose, LoopLife!Running
  <2>k. h \in loops.alive \union {"child_watcher", "wq_async"} /\ h \notin {"child_watcher", "wq_async"}
    BY <2>g DEF LlConstants, LlClosing
  <2>s. Spread(Unlink(loops.handles, h), <<>>, (loops.alive \union {"child_watcher", "wq_async"}) \ {h})
    BY <2>g, <2>k, DropSpread DEF LlTyped, LlQueues
  <2>c. Contains(loops.handles, h)
    BY <2>g, <2>k, EmptySeq DEF LlQueues, Spread, Nth
  <2>a. Unlink(loops.handles, h) \in Seq(LlHandles)
    BY <2>c, UnlinkQueue DEF LlTyped
  <2>e. (loops.alive \union {"child_watcher", "wq_async"}) \ {h} = (loops.alive \ {h}) \union {"child_watcher", "wq_async"}
    BY <2>k
  <2>1. (DOMAIN loops = LlFields)'
    BY <2>u, <2>g
  <2>2. LlTyped'
    BY <2>u, <2>g, <2>a DEF LlTyped
  <2>3. LlClosed'
    BY <2>u, <2>g DEF LlClosed, LlTyped
  <2>4. LlQueues'
    BY <2>u, <2>g, <2>s, <2>e DEF LlQueues, LlTyped
  <2>5. LlDue'
    BY <2>u, <2>g DEF LlDue
  <2>6. LlClosing'
    BY <2>u, <2>g DEF LlClosing
  <2>7. LlWatched'
    BY <2>u, <2>g DEF LlWatched
  <2> QED BY <2>1, <2>2, <2>3, <2>4, <2>5, <2>6, <2>7 DEF LlInv
<1>12. CASE LoopLife!Walk
  <2>u. /\ DOMAIN loops' = DOMAIN loops /\ loops'.handles = <<>>
        /\ loops'.walks = <<loops.handles>> \o loops.walks
        /\ loops'.due = (IF loops.walks = <<>> THEN LoopLife!Range(loops.handles) \ LoopLife!Internal ELSE loops.due)
        /\ loops'.alive = loops.alive /\ loops'.memory = loops.memory
        /\ loops'.default = loops.default /\ loops'.up = loops.up /\ loops'.have = loops.have
        /\ loops'.lost = loops.lost /\ loops'.closing = loops.closing
        /\ loops'.reqs = loops.reqs /\ loops'.registered = loops.registered
        /\ loops'.waiting = loops.waiting /\ loops'.interest = loops.interest
        /\ loops'.broken = loops.broken
    BY <1>12 DEF LoopLife!Walk, LoopLife!Running, LlTyped, LlFields
  <2>g. loops.up /\ ~loops.broken
    BY <1>12 DEF LoopLife!Walk, LoopLife!Running
  <2>s. /\ <<>> \in Seq(LlHandles) /\ <<loops.handles>> \o loops.walks \in Seq(Seq(LlHandles))
        /\ <<loops.handles>> \o loops.walks # <<>>
        /\ Spread(<<>>, <<loops.handles>> \o loops.walks, loops.alive \union {"child_watcher", "wq_async"})
        /\ (<<loops.handles>> \o loops.walks)[Len(<<loops.handles>> \o loops.walks)]
             = IF loops.walks = <<>> THEN loops.handles ELSE loops.walks[Len(loops.walks)]
    BY <2>g, PushSpread DEF LlTyped, LlQueues
  <2>t. \A x : x \in LoopLife!Range(loops.handles) <=> Contains(loops.handles, x)
    BY SetOfQueue, LlOps DEF LlTyped
  <2>1. (DOMAIN loops = LlFields)'
    BY <2>u, <2>g
  <2>2. LlTyped'
    BY <2>u, <2>g, <2>s DEF LlTyped
  <2>3. LlClosed'
    BY <2>u, <2>g DEF LlClosed, LlTyped
  <2>4. LlQueues'
    BY <2>u, <2>g, <2>s DEF LlQueues, LlTyped
  <2>5. LlDue'
    BY <2>u, <2>g, <2>s, <2>t DEF LlDue
  <2>6. LlClosing'
    BY <2>u, <2>g DEF LlClosing
  <2>7. LlWatched'
    BY <2>u, <2>g DEF LlWatched
  <2> QED BY <2>1, <2>2, <2>3, <2>4, <2>5, <2>6, <2>7 DEF LlInv
<1>13. CASE LoopLife!WalkOn
  <2>h. PICK h : h = Head(Head(loops.walks))
    OBVIOUS
  <2>w. PICK w : w = [loops.walks EXCEPT ![1] = Tail(loops.walks[1])]
    OBVIOUS
  <2>u. /\ DOMAIN loops' = DOMAIN loops /\ loops'.handles = Append(loops.handles, h)
        /\ loops'.walks = w
        /\ loops'.due = (IF Len(loops.walks) = 1 THEN loops.due \ {h} ELSE loops.due)
        /\ loops'.alive = loops.alive /\ loops'.memory = loops.memory
        /\ loops'.default = loops.default /\ loops'.up = loops.up /\ loops'.have = loops.have
        /\ loops'.lost = loops.lost /\ loops'.closing = loops.closing
        /\ loops'.reqs = loops.reqs /\ loops'.registered = loops.registered
        /\ loops'.waiting = loops.waiting /\ loops'.interest = loops.interest
        /\ loops'.broken = loops.broken
    BY <1>13, <2>h, <2>w DEF LoopLife!WalkOn, LoopLife!Running, LoopLife!MovedBack, LlTyped, LlFields
  <2>g. loops.up /\ ~loops.broken /\ loops.walks # <<>> /\ Head(loops.walks) # <<>>
    BY <1>13 DEF LoopLife!WalkOn, LoopLife!Running, LoopLife!MovedBack
  <2>s. /\ Append(loops.handles, h) \in Seq(LlHandles) /\ w \in Seq(Seq(LlHandles)) /\ w # <<>>
        /\ Spread(Append(loops.handles, h), w, loops.alive \union {"child_watcher", "wq_async"})
        /\ \A x : Contains(loops.walks[Len(loops.walks)], x) /\ (Len(loops.walks) = 1 => x # h) => Contains(w[Len(w)], x)
    <3>1. /\ loops.handles \in Seq(LlHandles) /\ loops.walks \in Seq(Seq(LlHandles))
          /\ Spread(loops.handles, loops.walks, loops.alive \union {"child_watcher", "wq_async"})
      BY <2>g DEF LlTyped, LlQueues
    <3>2. \A h1, w1 : h1 = Head(Head(loops.walks)) /\ OnTail(w1, loops.walks) =>
            /\ Append(loops.handles, h1) \in Seq(LlHandles) /\ w1 \in Seq(Seq(LlHandles)) /\ w1 # <<>>
            /\ Spread(Append(loops.handles, h1), w1, loops.alive \union {"child_watcher", "wq_async"})
            /\ StillDue(loops.walks, w1, h1)
      BY <2>g, <3>1, OnSpread
    <3> QED BY <2>h, <2>w, <3>2 DEF OnTail, StillDue
  <2>1. (DOMAIN loops = LlFields)'
    BY <2>u, <2>g
  <2>2. LlTyped'
    BY <2>u, <2>g, <2>s DEF LlTyped
  <2>3. LlClosed'
    BY <2>u, <2>g DEF LlClosed, LlTyped
  <2>4. LlQueues'
    BY <2>u, <2>g, <2>s DEF LlQueues, LlTyped
  <2>5. LlDue'
    BY <2>u, <2>g, <2>s DEF LlDue
  <2>6. LlClosing'
    BY <2>u, <2>g DEF LlClosing
  <2>7. LlWatched'
    BY <2>u, <2>g DEF LlWatched
  <2> QED BY <2>1, <2>2, <2>3, <2>4, <2>5, <2>6, <2>7 DEF LlInv
<1>14. CASE LoopLife!WalkEnds
  <2>u. /\ DOMAIN loops' = DOMAIN loops /\ loops'.walks = Tail(loops.walks)
        /\ loops'.alive = loops.alive /\ loops'.memory = loops.memory
        /\ loops'.default = loops.default /\ loops'.up = loops.up /\ loops'.have = loops.have
        /\ loops'.lost = loops.lost /\ loops'.handles = loops.handles
        /\ loops'.closing = loops.closing /\ loops'.reqs = loops.reqs /\ loops'.due = loops.due
        /\ loops'.registered = loops.registered /\ loops'.waiting = loops.waiting
        /\ loops'.interest = loops.interest /\ loops'.broken = loops.broken
    BY <1>14 DEF LoopLife!WalkEnds, LoopLife!Running, LlTyped, LlFields
  <2>g. loops.up /\ ~loops.broken /\ loops.walks # <<>> /\ Head(loops.walks) = <<>>
    BY <1>14 DEF LoopLife!WalkEnds, LoopLife!Running
  <2>s. /\ Tail(loops.walks) \in Seq(Seq(LlHandles))
        /\ Spread(loops.handles, Tail(loops.walks), loops.alive \union {"child_watcher", "wq_async"})
        /\ \A x : Contains(loops.walks[Len(loops.walks)], x) =>
             Tail(loops.walks) # <<>> /\ Contains(Tail(loops.walks)[Len(Tail(loops.walks))], x)
    BY <2>g, PopSpread DEF LlTyped, LlQueues
  <2>1. (DOMAIN loops = LlFields)'
    BY <2>u, <2>g
  <2>2. LlTyped'
    BY <2>u, <2>g, <2>s DEF LlTyped
  <2>3. LlClosed'
    BY <2>u, <2>g DEF LlClosed, LlTyped
  <2>4. LlQueues'
    BY <2>u, <2>g, <2>s DEF LlQueues, LlTyped
  <2>5. LlDue'
    BY <2>u, <2>g, <2>s DEF LlDue
  <2>6. LlClosing'
    BY <2>u, <2>g DEF LlClosing
  <2>7. LlWatched'
    BY <2>u, <2>g DEF LlWatched
  <2> QED BY <2>1, <2>2, <2>3, <2>4, <2>5, <2>6, <2>7 DEF LlInv
<1>15. CASE LoopLife!LoopClose
  <2>u. /\ DOMAIN loops' = DOMAIN loops /\ loops'.memory = FALSE /\ loops'.default = FALSE
        /\ loops'.up = FALSE /\ loops'.have = loops.have \ (LoopLife!Range(LoopLife!InitOrder) \union LoopLife!Later)
        /\ loops'.handles = <<>> /\ loops'.registered = {} /\ loops'.waiting = {}
        /\ loops'.interest = {} /\ loops'.alive = loops.alive /\ loops'.lost = loops.lost
        /\ loops'.closing = loops.closing /\ loops'.reqs = loops.reqs
        /\ loops'.walks = loops.walks /\ loops'.due = loops.due /\ loops'.broken = loops.broken
    BY <1>15 DEF LoopLife!LoopClose, LoopLife!Running, LlTyped, LlFields
  <2>g. loops.up /\ ~loops.broken /\ loops.walks = <<>> /\ \A x \in LoopLife!Range(loops.handles) : x \in LoopLife!Internal
    BY <1>15 DEF LoopLife!LoopClose, LoopLife!Running, LoopLife!Empty
  <2>h. loops.have \ (LoopLife!Range(LoopLife!InitOrder) \union LoopLife!Later) = {}
    BY LlHas DEF LlTyped
  <2>d. loops.due = {}
    BY <2>g DEF LlDue
  <2>t. \A x : Contains(loops.handles, x) => x \in {"child_watcher", "wq_async"}
    BY <2>g, SetOfQueue, LlOps DEF LlTyped, LoopLife!Internal
  <2>a. loops.alive = {}
    BY <2>g, <2>t, EmptySeq DEF LlQueues, Spread, Nth, LlTyped, LlConstants
  <2>1. (DOMAIN loops = LlFields)'
    BY <2>u, <2>g
  <2>2. LlTyped'
    BY <2>u, <2>g, EmptySeq DEF LlTyped
  <2>3. LlClosed'
    BY <2>u, <2>g, <2>h, <2>d, <2>a, <2>g DEF LlClosed, LlTyped
  <2>4. LlQueues'
    BY <2>u, <2>g DEF LlQueues, LlTyped
  <2>5. LlDue'
    BY <2>u, <2>g DEF LlDue
  <2>6. LlClosing'
    BY <2>u, <2>g DEF LlClosing
  <2>7. LlWatched'
    BY <2>u, <2>g DEF LlWatched
  <2> QED BY <2>1, <2>2, <2>3, <2>4, <2>5, <2>6, <2>7 DEF LlInv
<1> QED BY <1>1, <1>2, <1>3, <1>4, <1>5, <1>6, <1>7, <1>8, <1>9, <1>10, <1>11, <1>12, <1>13, <1>14, <1>15 DEF LoopLife!Next

LEMMA LlKeeps ==
    ASSUME LlConstants, LlInv
    PROVE  LoopLife!TypeOK /\ LoopLife!CountsAreExact /\ LoopLife!NothingStranded /\ LoopLife!ClosedIsClean
<1> DOMAIN loops = LlFields /\ LlTyped /\ LlClosed /\ LlQueues /\ LlDue /\ LlWatched
  BY DEF LlInv
<1>1. LoopLife!TypeOK
  BY LlHas DEF LoopLife!TypeOK, LlTyped
<1>2. LoopLife!ClosedIsClean
  BY DEF LoopLife!ClosedIsClean, LlClosed, LlTyped
<1>3. LoopLife!NothingStranded
  BY DEF LoopLife!NothingStranded, LoopLife!Running, LlWatched
<1>4. LoopLife!CountsAreExact
  <2> SUFFICES ASSUME LoopLife!Running PROVE LoopLife!CountsAreExact
    BY DEF LoopLife!CountsAreExact
  <2> DEFINE queue(k) == IF k = 0 THEN loops.handles ELSE loops.walks[k]
             queues == 0..Len(loops.walks)
  <2>1. \A k \in queues : queue(k) = Nth(loops.handles, loops.walks, k) /\ queue(k) \in Seq(LlHandles)
    <3>1. \A k \in queues : k # 0 => k \in 1..Len(loops.walks)
      BY LenProperties DEF LlTyped
    <3>2. \A k \in 1..Len(loops.walks) : loops.walks[k] \in Seq(LlHandles)
      BY ElementOfSeq DEF LlTyped
    <3> QED BY <3>1, <3>2 DEF Nth, LlTyped
  <2>2. Spread(loops.handles, loops.walks, loops.alive \union {"child_watcher", "wq_async"})
    BY DEF LlQueues, LoopLife!Running
  <2>3. \A k \in queues : LoopLife!Distinct(queue(k))
    BY <2>1, <2>2, LlOps DEF Spread
  <2> HIDE DEF queue
  <2>4. \A k \in queues : \A x : x \in LoopLife!Range(queue(k)) <=> Contains(queue(k), x)
    BY <2>1, SetOfQueue, LlOps
  <2>5. \A k, m \in queues : k # m => LoopLife!Range(queue(k)) \cap LoopLife!Range(queue(m)) = {}
    BY <2>1, <2>2, <2>4 DEF Spread
  <2>6. UNION {LoopLife!Range(queue(k)) : k \in queues} = loops.alive \union LoopLife!Internal
    <3>1. \A x : x \in UNION {LoopLife!Range(queue(k)) : k \in queues} <=> \E k \in queues : x \in LoopLife!Range(queue(k))
      OBVIOUS
    <3>2. \A x : x \in loops.alive \union {"child_watcher", "wq_async"} <=>
            \E k \in queues : Contains(Nth(loops.handles, loops.walks, k), x)
      BY <2>2 DEF Spread
    <3>3. \A k \in queues : \A x : Contains(Nth(loops.handles, loops.walks, k), x) <=> x \in LoopLife!Range(queue(k))
      BY <2>1, <2>4
    <3>4. \A x : x \in loops.alive \union {"child_watcher", "wq_async"} <=> \E k \in queues : x \in LoopLife!Range(queue(k))
      BY <3>2, <3>3
    <3> QED BY <3>1, <3>4 DEF LoopLife!Internal
  <2>7. loops.due \subseteq IF loops.walks = <<>> THEN {} ELSE LoopLife!Range(loops.walks[Len(loops.walks)])
    <3>1. CASE loops.walks = <<>>
      BY <3>1 DEF LlDue, LoopLife!Running
    <3>2. CASE loops.walks # <<>>
      <4>1. Len(loops.walks) \in 1..Len(loops.walks)
        BY <3>2, LenProperties, EmptySeq DEF LlTyped
      <4>2. loops.walks[Len(loops.walks)] \in Seq(LlHandles)
        BY <4>1, ElementOfSeq DEF LlTyped
      <4>3. \A x : x \in LoopLife!Range(loops.walks[Len(loops.walks)]) <=> Contains(loops.walks[Len(loops.walks)], x)
        BY <4>2, SetOfQueue, LlOps
      <4> QED BY <3>2, <4>3 DEF LlDue, LoopLife!Running
    <3> QED BY <3>1, <3>2
  <2> QED BY <2>3, <2>5, <2>6, <2>7 DEF LoopLife!CountsAreExact, queue
<1> QED BY <1>1, <1>2, <1>3, <1>4

LEMMA LlChanges ==
    ASSUME LlConstants, LlInv, [LoopLife!Next]_loops
    PROVE  LlInv'
<1>1. CASE LoopLife!Next
  BY <1>1, LlStep
<1>2. CASE UNCHANGED loops
  BY <1>2 DEF LlInv, LlClosed, LlClosing, LlDue, LlQueues, LlTyped, LlWatched
<1> QED BY <1>1, <1>2

\* The life of a loop, for any handles and any depth of uv_walk: handles stay in one queue each,
\* a walk visits each that was there, uv_loop_close gives back what uv_loop_init and later calls
\* took, and an init that fails leaves nothing.
THEOREM LoopLifeCorrect ==
    ASSUME LlConstants
    PROVE  LoopLife!Spec => [](LoopLife!TypeOK /\ LoopLife!CountsAreExact /\
                               LoopLife!NothingStranded /\ LoopLife!ClosedIsClean)
<1>1. ASSUME LoopLife!Init PROVE LlInv
  BY <1>1, LlBegins
<1>2. ASSUME LlInv, [LoopLife!Next]_loops PROVE LlInv'
  BY <1>2, LlChanges
<1>3. LlInv => LoopLife!TypeOK /\ LoopLife!CountsAreExact /\ LoopLife!NothingStranded /\
              LoopLife!ClosedIsClean
  BY LlKeeps
<1> QED BY <1>1, <1>2, <1>3, PTL DEF LoopLife!Spec

-----------------------------------------------------------------------------
(* Child processes *)

ProcConstants == IsFiniteSet(Children)

ProcFields ==
    {"pc", "child", "event", "reap", "loopReap", "process_handles", "todo", "pending", "active",
     "closing", "nfds", "waited", "exited", "orphans"}

ProcStatus == {"none", "alive", "exited", "stolen", "reaped"}

ProcTyped ==
    /\ proc.pc \in {"program", "reap", "pending", "exit_cb"}
    /\ proc.child \in [Children -> ProcStatus]
    /\ \A p : p \in proc.event \/ p \in proc.reap \/ p \in proc.active \/ p \in proc.closing => p \in Children
    /\ proc.loopReap \in BOOLEAN

\* The handles that are still to be looked at are listed, and none is twice in a queue.
ProcLists ==
    /\ proc.process_handles \in Seq(Children) /\ Distinct(proc.process_handles)
    /\ proc.todo \in Seq(Children) /\ Distinct(proc.todo)
    /\ \A p : Contains(proc.todo, p) => Contains(proc.process_handles, p)
    /\ proc.pc # "reap" => proc.todo = <<>>

\* What the state of a child says of the marks of its handle.
ProcMarks ==
    /\ \A p : Contains(proc.process_handles, p) =>
         p \notin proc.closing /\ proc.child[p] \notin {"none", "reaped"}
    /\ \A p \in proc.closing : p \notin proc.active /\ proc.child[p] # "none"
    /\ \A p \in proc.event : p \notin proc.reap /\ proc.child[p] \in {"exited", "stolen"}
    /\ \A p \in proc.reap : proc.child[p] \in {"exited", "stolen"}
    /\ \A p \in proc.orphans : p \in proc.closing

\* An exit that was not waited for has an event or a mark that will be looked at.
ProcSeen == \A p : Contains(proc.process_handles, p) /\ proc.child[p] = "exited" =>
    p \in proc.event \/ (p \in proc.reap /\ (proc.loopReap \/ Contains(proc.todo, p)))

\* The handles that loop->nfds counts.
ProcOpen == {p \in Children :
    \/ /\ Contains(proc.process_handles, p)
       /\ proc.child[p] = "stolen" => p \in proc.event \/ p \in proc.reap
    \/ p \in proc.orphans}

ProcCounts == proc.nfds = Cardinality(ProcOpen)

ProcInv ==
    /\ DOMAIN proc = ProcFields /\ ProcTyped /\ ProcLists /\ ProcMarks /\ ProcSeen /\ ProcCounts

LEMMA ProcOps ==
    /\ \A q : Process!Range(q) = Range(q)
    /\ \A S : Process!Cardinality(S) = Cardinality(S)
    /\ \A q, x : Process!Unlink(q, x) = Unlink(q, x)
<1>1. \A q : Process!Range(q) = Range(q)
  BY DEF Process!Range, Range
<1>2. \A S : Process!Cardinality(S) = Cardinality(S)
  BY DEF Process!Cardinality, Cardinality
<1>3. \A q, x : Process!Unlink(q, x) = Unlink(q, x)
  BY DEF Process!Unlink, Unlink
<1> QED BY <1>1, <1>2, <1>3

\* A set of handles has a size, and one of them more or less changes it by one.
LEMMA ProcSize ==
    ASSUME ProcConstants
    PROVE  /\ \A S \in SUBSET Children : Cardinality(S) \in Nat /\ (S # {} => Cardinality(S) > 0)
           /\ \A S \in SUBSET Children : \A p \in Children \ S : Cardinality(S \union {p}) = Cardinality(S) + 1
           /\ \A S \in SUBSET Children : \A p \in S : Cardinality(S \ {p}) = Cardinality(S) - 1
<1>1. ASSUME NEW S \in SUBSET Children PROVE IsFiniteSet(S) /\ Cardinality(S) \in Nat /\ (S # {} => Cardinality(S) > 0)
  <2>1. IsFiniteSet(S)
    BY FS_Subset DEF ProcConstants
  <2>2. Cardinality(S) \in Nat /\ (Cardinality(S) = 0 <=> S = {})
    BY <2>1, FS_CardinalityType, FS_EmptySet
  <2> QED BY <2>1, <2>2
<1>2. ASSUME NEW S \in SUBSET Children, NEW p \in Children \ S PROVE Cardinality(S \union {p}) = Cardinality(S) + 1
  BY <1>1, FS_AddElement
<1>3. ASSUME NEW S \in SUBSET Children, NEW p \in S PROVE Cardinality(S \ {p}) = Cardinality(S) - 1
  BY <1>1, FS_RemoveElement
<1> QED BY <1>1, <1>2, <1>3

LEMMA ProcBegins ==
    ASSUME ProcConstants, Process!Init
    PROVE  ProcInv
<1>1. /\ DOMAIN proc = ProcFields /\ proc.pc = "program" /\ proc.child = [p \in Children |-> "none"]
      /\ proc.event = {} /\ proc.reap = {} /\ proc.loopReap = FALSE /\ proc.process_handles = <<>>
      /\ proc.todo = <<>> /\ proc.active = {} /\ proc.closing = {} /\ proc.nfds = 0 /\ proc.orphans = {}
  BY DEF Process!Init, ProcFields
<1>2. <<>> \in Seq(Children) /\ Distinct(<<>>) /\ \A p : ~Contains(<<>>, p)
  BY EmptyQueue
<1>3. ProcCounts
  <2>1. ProcOpen = {}
    BY <1>1, <1>2 DEF ProcOpen
  <2> QED BY <1>1, <2>1, FS_EmptySet DEF ProcCounts
<1> QED BY <1>1, <1>2, <1>3 DEF ProcInv, ProcTyped, ProcStatus, ProcLists, ProcMarks, ProcSeen

LEMMA ProcStep ==
    ASSUME ProcConstants, ProcInv, Process!Next
    PROVE  ProcInv'
<1> ProcConstants /\ (DOMAIN proc = ProcFields) /\ ProcTyped /\ ProcLists /\ ProcMarks /\
         ProcSeen /\ ProcCounts
  BY DEF ProcInv
<1>1. ASSUME NEW p \in Children, proc.pc \in {"program", "exit_cb"}, proc.child[p] = "none",
       proc' = [proc EXCEPT !.child[p] = IF TRUE THEN "exited" ELSE "alive",
           !.reap = IF TRUE THEN @ \union {p} ELSE @, !.loopReap = @ \/ TRUE, !.nfds = @ + 1,
           !.active = @ \union {p}, !.process_handles = Append(@, p)]
PROVE  ProcInv'
  <2>c. PICK c \in [Children -> ProcStatus] :
            c = [proc.child EXCEPT ![p] = "exited"] /\ c[p] = "exited" /\ \A q \in Children : q # p => c[q] = proc.child[q]
    <3>1. proc.child \in [Children -> ProcStatus] /\ p \in Children /\ "exited" \in ProcStatus
      BY DEF ProcTyped, ProcStatus
    <3>2. [proc.child EXCEPT ![p] = "exited"] \in [Children -> ProcStatus]
      BY <3>1
    <3>3. /\ [proc.child EXCEPT ![p] = "exited"][p] = "exited"
          /\ \A q \in Children : q # p => [proc.child EXCEPT ![p] = "exited"][q] = proc.child[q]
      BY <3>1
    <3> QED BY <3>2, <3>3
  <2>r. PICK r, l, n, h : r = (IF TRUE THEN proc.reap \union {p} ELSE proc.reap) /\ l = (proc.loopReap \/ TRUE) /\ n = proc.nfds + 1
            /\ h = Append(proc.process_handles, p)
    OBVIOUS
  <2>a. proc.pc \in {"program", "exit_cb"} /\ proc.child[p] = "none"
    BY <1>1
  <2>h. /\ h \in Seq(Children) /\ Distinct(h) /\ ~Contains(proc.process_handles, p)
        /\ \A q : Contains(h, q) <=> Contains(proc.process_handles, q) \/ q = p
    <3>1. ~Contains(proc.process_handles, p) /\ proc.process_handles \in Seq(Children) /\ Distinct(proc.process_handles)
      BY <2>a DEF ProcMarks, ProcLists
    <3> QED BY <2>r, <3>1, AppendQueue
  <2>t. \A q : q \in r <=> q \in proc.reap \/ (TRUE /\ q = p)
    BY <2>r
  <2>l. l \in BOOLEAN /\ (proc.loopReap => l) /\ (TRUE => l)
    BY <2>r DEF ProcTyped
  <2>n. p \notin proc.closing /\ p \notin proc.orphans /\ p \notin proc.event /\ p \notin proc.reap
    BY <2>a DEF ProcMarks
  <2>o. \A q : Contains(proc.process_handles, q) \/ q \in proc.reap \/ q \in proc.event \/ q \in proc.closing \/ q \in proc.orphans => q \in Children /\ q # p
    BY <2>n, <2>h, RangeQueue DEF ProcTyped, ProcLists, ProcMarks
  <2>u. /\ DOMAIN proc' = DOMAIN proc /\ proc'.child = c /\ proc'.reap = r /\ proc'.loopReap = l
        /\ proc'.process_handles = h /\ proc'.active = proc.active \union {p} /\ proc'.nfds = n
        /\ proc'.pc = proc.pc /\ proc'.event = proc.event /\ proc'.todo = proc.todo
        /\ proc'.closing = proc.closing /\ proc'.orphans = proc.orphans
    BY <1>1, <2>c, <2>r DEF ProcTyped, ProcFields
  <2>1. (DOMAIN proc = ProcFields)'
    BY <2>u
  <2>2. ProcTyped'
    BY <2>u, <2>t, <2>l DEF ProcTyped
  <2>3. ProcLists'
    BY <2>u, <2>h, <2>a DEF ProcLists
  <2>4. ProcMarks'
    BY <2>u, <2>h, <2>t, <2>n, <2>o, <2>c DEF ProcMarks
  <2>5. ProcSeen'
    BY <2>u, <2>h, <2>t, <2>l, <2>o, <2>c DEF ProcSeen, ProcLists
  <2>6. ProcCounts'
    <3>1. ProcOpen' = ProcOpen \union {p} /\ p \notin ProcOpen
      BY <2>u, <2>h, <2>t, <2>n, <2>o, <2>c DEF ProcOpen
    <3>2. Cardinality(ProcOpen \union {p}) = Cardinality(ProcOpen) + 1
      BY <3>1, ProcSize DEF ProcOpen
    <3> QED BY <2>u, <2>r, <3>1, <3>2 DEF ProcCounts
  <2> QED BY <2>1, <2>2, <2>3, <2>4, <2>5, <2>6 DEF ProcInv
<1>2. ASSUME NEW p \in Children, proc.pc \in {"program", "exit_cb"}, proc.child[p] = "none",
       proc' = [proc EXCEPT !.child[p] = IF FALSE THEN "exited" ELSE "alive",
           !.reap = IF FALSE THEN @ \union {p} ELSE @, !.loopReap = @ \/ FALSE, !.nfds = @ + 1,
           !.active = @ \union {p}, !.process_handles = Append(@, p)]
PROVE  ProcInv'
  <2>c. PICK c \in [Children -> ProcStatus] :
            c = [proc.child EXCEPT ![p] = "alive"] /\ c[p] = "alive" /\ \A q \in Children : q # p => c[q] = proc.child[q]
    <3>1. proc.child \in [Children -> ProcStatus] /\ p \in Children /\ "alive" \in ProcStatus
      BY DEF ProcTyped, ProcStatus
    <3>2. [proc.child EXCEPT ![p] = "alive"] \in [Children -> ProcStatus]
      BY <3>1
    <3>3. /\ [proc.child EXCEPT ![p] = "alive"][p] = "alive"
          /\ \A q \in Children : q # p => [proc.child EXCEPT ![p] = "alive"][q] = proc.child[q]
      BY <3>1
    <3> QED BY <3>2, <3>3
  <2>r. PICK r, l, n, h : r = (IF FALSE THEN proc.reap \union {p} ELSE proc.reap) /\ l = (proc.loopReap \/ FALSE) /\ n = proc.nfds + 1
            /\ h = Append(proc.process_handles, p)
    OBVIOUS
  <2>a. proc.pc \in {"program", "exit_cb"} /\ proc.child[p] = "none"
    BY <1>2
  <2>h. /\ h \in Seq(Children) /\ Distinct(h) /\ ~Contains(proc.process_handles, p)
        /\ \A q : Contains(h, q) <=> Contains(proc.process_handles, q) \/ q = p
    <3>1. ~Contains(proc.process_handles, p) /\ proc.process_handles \in Seq(Children) /\ Distinct(proc.process_handles)
      BY <2>a DEF ProcMarks, ProcLists
    <3> QED BY <2>r, <3>1, AppendQueue
  <2>t. \A q : q \in r <=> q \in proc.reap \/ (FALSE /\ q = p)
    BY <2>r
  <2>l. l \in BOOLEAN /\ (proc.loopReap => l) /\ (FALSE => l)
    BY <2>r DEF ProcTyped
  <2>n. p \notin proc.closing /\ p \notin proc.orphans /\ p \notin proc.event /\ p \notin proc.reap
    BY <2>a DEF ProcMarks
  <2>o. \A q : Contains(proc.process_handles, q) \/ q \in proc.reap \/ q \in proc.event \/ q \in proc.closing \/ q \in proc.orphans => q \in Children /\ q # p
    BY <2>n, <2>h, RangeQueue DEF ProcTyped, ProcLists, ProcMarks
  <2>u. /\ DOMAIN proc' = DOMAIN proc /\ proc'.child = c /\ proc'.reap = r /\ proc'.loopReap = l
        /\ proc'.process_handles = h /\ proc'.active = proc.active \union {p} /\ proc'.nfds = n
        /\ proc'.pc = proc.pc /\ proc'.event = proc.event /\ proc'.todo = proc.todo
        /\ proc'.closing = proc.closing /\ proc'.orphans = proc.orphans
    BY <1>2, <2>c, <2>r DEF ProcTyped, ProcFields
  <2>1. (DOMAIN proc = ProcFields)'
    BY <2>u
  <2>2. ProcTyped'
    BY <2>u, <2>t, <2>l DEF ProcTyped
  <2>3. ProcLists'
    BY <2>u, <2>h, <2>a DEF ProcLists
  <2>4. ProcMarks'
    BY <2>u, <2>h, <2>t, <2>n, <2>o, <2>c DEF ProcMarks
  <2>5. ProcSeen'
    BY <2>u, <2>h, <2>t, <2>l, <2>o, <2>c DEF ProcSeen, ProcLists
  <2>6. ProcCounts'
    <3>1. ProcOpen' = ProcOpen \union {p} /\ p \notin ProcOpen
      BY <2>u, <2>h, <2>t, <2>n, <2>o, <2>c DEF ProcOpen
    <3>2. Cardinality(ProcOpen \union {p}) = Cardinality(ProcOpen) + 1
      BY <3>1, ProcSize DEF ProcOpen
    <3> QED BY <2>u, <2>r, <3>1, <3>2 DEF ProcCounts
  <2> QED BY <2>1, <2>2, <2>3, <2>4, <2>5, <2>6 DEF ProcInv
<1>3. ASSUME NEW p \in Children, Process!Exits(p) PROVE ProcInv'
  <2>c. PICK c \in [Children -> ProcStatus] :
            c = [proc.child EXCEPT ![p] = "exited"] /\ c[p] = "exited" /\ \A q \in Children : q # p => c[q] = proc.child[q]
    <3>1. proc.child \in [Children -> ProcStatus] /\ p \in Children /\ "exited" \in ProcStatus
      BY DEF ProcTyped, ProcStatus
    <3>2. [proc.child EXCEPT ![p] = "exited"] \in [Children -> ProcStatus]
      BY <3>1
    <3>3. /\ [proc.child EXCEPT ![p] = "exited"][p] = "exited"
          /\ \A q \in Children : q # p => [proc.child EXCEPT ![p] = "exited"][q] = proc.child[q]
      BY <3>1
    <3> QED BY <3>2, <3>3
  <2>a. proc.child[p] = "alive"
    BY <1>3 DEF Process!Exits
  <2>o. \A q : Contains(proc.process_handles, q) \/ q \in proc.reap \/ q \in proc.event \/ q \in proc.closing \/ q \in proc.orphans => q \in Children
    BY RangeQueue DEF ProcTyped, ProcLists, ProcMarks
  <2>n. p \notin proc.reap /\ p \notin proc.event
    BY <2>a DEF ProcMarks
  <2>u. /\ DOMAIN proc' = DOMAIN proc /\ proc'.child = c /\ proc'.event = proc.event \union {p}
        /\ proc'.pc = proc.pc /\ proc'.reap = proc.reap /\ proc'.loopReap = proc.loopReap
        /\ proc'.process_handles = proc.process_handles /\ proc'.todo = proc.todo
        /\ proc'.active = proc.active /\ proc'.closing = proc.closing /\ proc'.nfds = proc.nfds
        /\ proc'.orphans = proc.orphans
    BY <1>3, <2>c DEF Process!Exits, ProcTyped, ProcFields
  <2>1. (DOMAIN proc = ProcFields)'
    BY <2>u
  <2>2. ProcTyped'
    BY <2>u DEF ProcTyped
  <2>3. ProcLists'
    BY <2>u DEF ProcLists
  <2>4. ProcMarks'
    BY <2>u, <2>c, <2>o, <2>n, <2>a DEF ProcMarks
  <2>5. ProcSeen'
    BY <2>u, <2>c, <2>o DEF ProcSeen, ProcLists
  <2>6. ProcCounts'
    <3>1. ProcOpen' = ProcOpen
      BY <2>u, <2>c, <2>o, <2>a DEF ProcOpen, ProcTyped
    <3> QED BY <2>u, <3>1 DEF ProcCounts
  <2> QED BY <2>1, <2>2, <2>3, <2>4, <2>5, <2>6 DEF ProcInv
<1>4. ASSUME NEW p \in Children, Process!WaitedElsewhere(p) PROVE ProcInv'
  <2>c. PICK c \in [Children -> ProcStatus] :
            c = [proc.child EXCEPT ![p] = "stolen"] /\ c[p] = "stolen" /\ \A q \in Children : q # p => c[q] = proc.child[q]
    <3>1. proc.child \in [Children -> ProcStatus] /\ p \in Children /\ "stolen" \in ProcStatus
      BY DEF ProcTyped, ProcStatus
    <3>2. [proc.child EXCEPT ![p] = "stolen"] \in [Children -> ProcStatus]
      BY <3>1
    <3>3. /\ [proc.child EXCEPT ![p] = "stolen"][p] = "stolen"
          /\ \A q \in Children : q # p => [proc.child EXCEPT ![p] = "stolen"][q] = proc.child[q]
      BY <3>1
    <3> QED BY <3>2, <3>3
  <2>a. proc.child[p] = "exited"
    BY <1>4 DEF Process!WaitedElsewhere
  <2>o. \A q : Contains(proc.process_handles, q) \/ q \in proc.reap \/ q \in proc.event \/ q \in proc.closing \/ q \in proc.orphans => q \in Children
    BY RangeQueue DEF ProcTyped, ProcLists, ProcMarks
  <2>n. Contains(proc.process_handles, p) => p \in proc.event \/ p \in proc.reap
    BY <2>a DEF ProcSeen
  <2>u. /\ DOMAIN proc' = DOMAIN proc /\ proc'.child = c /\ proc'.pc = proc.pc
        /\ proc'.event = proc.event /\ proc'.reap = proc.reap /\ proc'.loopReap = proc.loopReap
        /\ proc'.process_handles = proc.process_handles /\ proc'.todo = proc.todo
        /\ proc'.active = proc.active /\ proc'.closing = proc.closing /\ proc'.nfds = proc.nfds
        /\ proc'.orphans = proc.orphans
    BY <1>4, <2>c DEF Process!WaitedElsewhere, ProcTyped, ProcFields
  <2>1. (DOMAIN proc = ProcFields)'
    BY <2>u
  <2>2. ProcTyped'
    BY <2>u DEF ProcTyped
  <2>3. ProcLists'
    BY <2>u DEF ProcLists
  <2>4. ProcMarks'
    BY <2>u, <2>c, <2>o, <2>n, <2>a DEF ProcMarks
  <2>5. ProcSeen'
    BY <2>u, <2>c, <2>o DEF ProcSeen, ProcLists
  <2>6. ProcCounts'
    <3>1. ProcOpen' = ProcOpen
      BY <2>u, <2>c, <2>o, <2>n, <2>a DEF ProcOpen, ProcTyped
    <3> QED BY <2>u, <3>1 DEF ProcCounts
  <2> QED BY <2>1, <2>2, <2>3, <2>4, <2>5, <2>6 DEF ProcInv
<1>5. ASSUME NEW p \in Children, Process!Close(p) PROVE ProcInv'
  <2>a. proc.pc \in {"program", "exit_cb"} /\ proc.child[p] # "none" /\ p \notin proc.closing
    BY <1>5 DEF Process!Close, Process!Program
  <2>r. PICK h, o : h = Process!Unlisted(p) /\ o = (IF Process!Counted(p) THEN proc.orphans \union {p} ELSE proc.orphans)
    OBVIOUS
  <2>h. /\ h \in Seq(Children) /\ Distinct(h)
        /\ \A q : Contains(h, q) <=> Contains(proc.process_handles, q) /\ q # p
    BY <2>r, UnlinkQueue, ProcOps DEF Process!Unlisted, ProcLists
  <2>o. \A q : q \in o <=> \/ q \in proc.orphans
          \/ (q = p /\ Contains(proc.process_handles, p) /\ (proc.child[p] = "stolen" => p \in proc.event \/ p \in proc.reap))
    BY <2>r, SetOfQueue, ProcOps DEF Process!Counted, ProcLists
  <2>n. p \notin proc.orphans /\ ~Contains(proc.todo, p)
    <3>1. proc.todo = <<>>
      BY <2>a DEF ProcLists
    <3> QED BY <2>a, <3>1, EmptyQueue DEF ProcMarks
  <2>u. /\ DOMAIN proc' = DOMAIN proc /\ proc'.process_handles = h
        /\ proc'.active = proc.active \ {p} /\ proc'.closing = proc.closing \union {p}
        /\ proc'.orphans = o /\ proc'.pc = proc.pc /\ proc'.child = proc.child
        /\ proc'.event = proc.event /\ proc'.reap = proc.reap /\ proc'.loopReap = proc.loopReap
        /\ proc'.todo = proc.todo /\ proc'.nfds = proc.nfds
    BY <1>5, <2>r DEF Process!Close, Process!Program, ProcTyped, ProcFields
  <2>1. (DOMAIN proc = ProcFields)'
    BY <2>u
  <2>2. ProcTyped'
    BY <2>u DEF ProcTyped
  <2>3. ProcLists'
    BY <2>u, <2>h, <2>n DEF ProcLists
  <2>4. ProcMarks'
    BY <2>u, <2>h, <2>o, <2>a DEF ProcMarks
  <2>5. ProcSeen'
    BY <2>u, <2>h DEF ProcSeen, ProcLists
  <2>6. ProcCounts'
    <3>1. ProcOpen' = ProcOpen
      BY <2>u, <2>h, <2>o, <2>n DEF ProcOpen, ProcTyped
    <3> QED BY <2>u, <3>1 DEF ProcCounts
  <2> QED BY <2>1, <2>2, <2>3, <2>4, <2>5, <2>6 DEF ProcInv
<1>6. ASSUME NEW e \in SUBSET proc.event, NEW mine, mine = e \cap Process!Range(proc.process_handles),
       proc.loopReap \/ mine # {}, proc' = Process!Waits([proc EXCEPT !.event = @ \ e, !.reap = @ \union mine])
PROVE  ProcInv'
  <2>m. \A q : q \in mine <=> q \in e /\ Contains(proc.process_handles, q)
    BY <1>6, SetOfQueue, ProcOps DEF ProcLists
  <2>e. \A q \in e : q \in proc.event
    OBVIOUS
  <2>u. /\ DOMAIN proc' = DOMAIN proc /\ proc'.pc = "reap" /\ proc'.event = proc.event \ e
        /\ proc'.reap = proc.reap \union mine /\ proc'.loopReap = FALSE
        /\ proc'.todo = proc.process_handles /\ proc'.child = proc.child
        /\ proc'.process_handles = proc.process_handles /\ proc'.active = proc.active
        /\ proc'.closing = proc.closing /\ proc'.nfds = proc.nfds
        /\ proc'.orphans = proc.orphans
    BY <1>6 DEF Process!Waits, ProcTyped, ProcFields
  <2>1. (DOMAIN proc = ProcFields)'
    BY <2>u
  <2>2. ProcTyped'
    BY <2>u, <2>m, <2>e DEF ProcTyped
  <2>3. ProcLists'
    BY <2>u DEF ProcLists
  <2>4. ProcMarks'
    BY <2>u, <2>m, <2>e DEF ProcMarks
  <2>5. ProcSeen'
    BY <2>u, <2>m DEF ProcSeen, ProcLists
  <2>6. ProcCounts'
    <3>1. ProcOpen' = ProcOpen
      BY <2>u, <2>m, <2>e DEF ProcOpen, ProcTyped
    <3> QED BY <2>u, <3>1 DEF ProcCounts
  <2> QED BY <2>1, <2>2, <2>3, <2>4, <2>5, <2>6 DEF ProcInv
<1>7. ASSUME NEW e \in SUBSET proc.event, NEW mine, mine = e \cap Process!Range(proc.process_handles),
       mine = {}, proc' = [proc EXCEPT !.event = @ \ e, !.reap = @ \union mine]
PROVE  ProcInv'
  <2>m. \A q : q \in e => q \in proc.event /\ ~Contains(proc.process_handles, q)
    BY <1>7, SetOfQueue, ProcOps DEF ProcLists
  <2>u. /\ DOMAIN proc' = DOMAIN proc /\ proc'.event = proc.event \ e /\ proc'.pc = proc.pc
        /\ proc'.child = proc.child /\ proc'.reap = proc.reap /\ proc'.loopReap = proc.loopReap
        /\ proc'.process_handles = proc.process_handles /\ proc'.todo = proc.todo
        /\ proc'.active = proc.active /\ proc'.closing = proc.closing /\ proc'.nfds = proc.nfds
        /\ proc'.orphans = proc.orphans
    BY <1>7 DEF ProcTyped, ProcFields
  <2>1. (DOMAIN proc = ProcFields)'
    BY <2>u
  <2>2. ProcTyped'
    BY <2>u, <2>m DEF ProcTyped
  <2>3. ProcLists'
    BY <2>u DEF ProcLists
  <2>4. ProcMarks'
    BY <2>u, <2>m DEF ProcMarks
  <2>5. ProcSeen'
    BY <2>u, <2>m DEF ProcSeen, ProcLists
  <2>6. ProcCounts'
    <3>1. ProcOpen' = ProcOpen
      BY <2>u, <2>m DEF ProcOpen, ProcTyped
    <3> QED BY <2>u, <3>1 DEF ProcCounts
  <2> QED BY <2>1, <2>2, <2>3, <2>4, <2>5, <2>6 DEF ProcInv
<1>8. CASE Process!PollNothing
  <2>u. /\ DOMAIN proc' = DOMAIN proc /\ proc'.pc = "reap" /\ proc'.loopReap = FALSE
        /\ proc'.todo = proc.process_handles /\ proc'.child = proc.child
        /\ proc'.event = proc.event /\ proc'.reap = proc.reap
        /\ proc'.process_handles = proc.process_handles /\ proc'.active = proc.active
        /\ proc'.closing = proc.closing /\ proc'.nfds = proc.nfds
        /\ proc'.orphans = proc.orphans
    BY <1>8 DEF Process!PollNothing, Process!Waits, ProcTyped, ProcFields
  <2>1. (DOMAIN proc = ProcFields)'
    BY <2>u
  <2>2. ProcTyped'
    BY <2>u DEF ProcTyped
  <2>3. ProcLists'
    BY <2>u DEF ProcLists
  <2>4. ProcMarks'
    BY <2>u DEF ProcMarks
  <2>5. ProcSeen'
    BY <2>u DEF ProcSeen, ProcLists
  <2>6. ProcCounts'
    <3>1. ProcOpen' = ProcOpen
      BY <2>u DEF ProcOpen, ProcTyped
    <3> QED BY <2>u, <3>1 DEF ProcCounts
  <2> QED BY <2>1, <2>2, <2>3, <2>4, <2>5, <2>6 DEF ProcInv
<1>9. ASSUME NEW p, proc.pc = "reap", proc.todo # <<>>, p = Head(proc.todo), NEW k, k = [proc EXCEPT !.todo = Tail(@)],
       p \notin proc.reap, proc' = k
PROVE  ProcInv'
  <2>a. proc.todo # <<>> /\ p = Head(proc.todo) /\ proc.pc = "reap"
    BY <1>9
  <2>t. PICK t : t = Tail(proc.todo)
    OBVIOUS
  <2>q. /\ p \in Children /\ t \in Seq(Children) /\ Distinct(t) /\ ~Contains(t, p)
        /\ \A q : Contains(proc.todo, q) <=> Contains(t, q) \/ q = p
    BY <2>a, <2>t, TailQueue DEF ProcLists
  <2>l. Contains(proc.process_handles, p)
    BY <2>q DEF ProcLists
  <2>b. p \notin proc.reap
    BY <1>9
  <2>u. /\ DOMAIN proc' = DOMAIN proc /\ proc'.todo = t /\ proc'.pc = proc.pc
        /\ proc'.child = proc.child /\ proc'.event = proc.event /\ proc'.reap = proc.reap
        /\ proc'.loopReap = proc.loopReap /\ proc'.process_handles = proc.process_handles
        /\ proc'.active = proc.active /\ proc'.closing = proc.closing /\ proc'.nfds = proc.nfds
        /\ proc'.orphans = proc.orphans
    BY <1>9, <2>t DEF ProcTyped, ProcFields
  <2>1. (DOMAIN proc = ProcFields)'
    BY <2>u
  <2>2. ProcTyped'
    BY <2>u DEF ProcTyped
  <2>3. ProcLists'
    BY <2>u, <2>q, <2>a DEF ProcLists
  <2>4. ProcMarks'
    BY <2>u DEF ProcMarks
  <2>5. ProcSeen'
    BY <2>u, <2>q, <2>b DEF ProcSeen, ProcLists
  <2>6. ProcCounts'
    <3>1. ProcOpen' = ProcOpen
      BY <2>u DEF ProcOpen, ProcTyped
    <3> QED BY <2>u, <3>1 DEF ProcCounts
  <2> QED BY <2>1, <2>2, <2>3, <2>4, <2>5, <2>6 DEF ProcInv
<1>10. ASSUME NEW p, proc.pc = "reap", proc.todo # <<>>, p = Head(proc.todo), NEW k, k = [proc EXCEPT !.todo = Tail(@)],
       p \in proc.reap, proc.child[p] # "exited",
       proc' = [k EXCEPT !.reap = @ \ {p}, !.nfds = @ - 1]
PROVE  ProcInv'
  <2>a. proc.todo # <<>> /\ p = Head(proc.todo) /\ proc.pc = "reap"
    BY <1>10
  <2>t. PICK t : t = Tail(proc.todo)
    OBVIOUS
  <2>q. /\ p \in Children /\ t \in Seq(Children) /\ Distinct(t) /\ ~Contains(t, p)
        /\ \A q : Contains(proc.todo, q) <=> Contains(t, q) \/ q = p
    BY <2>a, <2>t, TailQueue DEF ProcLists
  <2>l. Contains(proc.process_handles, p)
    BY <2>q DEF ProcLists
  <2>b. p \in proc.reap /\ proc.child[p] # "exited"
    BY <1>10
  <2>n. PICK n : n = proc.nfds - 1
    OBVIOUS
  <2>m. /\ p \notin proc.event /\ p \notin proc.orphans /\ p \in proc.reap /\ p \notin proc.closing
        /\ proc.child[p] \in {"exited", "stolen"}
    BY <2>b, <2>l DEF ProcMarks
  <2>u. /\ DOMAIN proc' = DOMAIN proc /\ proc'.reap = proc.reap \ {p} /\ proc'.todo = t
        /\ proc'.nfds = n /\ proc'.pc = proc.pc /\ proc'.child = proc.child
        /\ proc'.event = proc.event /\ proc'.loopReap = proc.loopReap
        /\ proc'.process_handles = proc.process_handles /\ proc'.active = proc.active
        /\ proc'.closing = proc.closing /\ proc'.orphans = proc.orphans
    BY <1>10, <2>t, <2>n DEF ProcTyped, ProcFields
  <2>1. (DOMAIN proc = ProcFields)'
    BY <2>u
  <2>2. ProcTyped'
    BY <2>u DEF ProcTyped
  <2>3. ProcLists'
    BY <2>u, <2>q, <2>a DEF ProcLists
  <2>4. ProcMarks'
    BY <2>u DEF ProcMarks
  <2>5. ProcSeen'
    BY <2>u, <2>q, <2>b DEF ProcSeen, ProcLists
  <2>6. ProcCounts'
    <3>1. ProcOpen' = ProcOpen \ {p} /\ p \in ProcOpen
      BY <2>u, <2>q, <2>l, <2>b, <2>m DEF ProcOpen
    <3>2. Cardinality(ProcOpen \ {p}) = Cardinality(ProcOpen) - 1
      BY <3>1, ProcSize DEF ProcOpen
    <3> QED BY <2>u, <2>n, <3>1, <3>2 DEF ProcCounts
  <2> QED BY <2>1, <2>2, <2>3, <2>4, <2>5, <2>6 DEF ProcInv
<1>11. ASSUME NEW p, proc.pc = "reap", proc.todo # <<>>, p = Head(proc.todo), NEW k, k = [proc EXCEPT !.todo = Tail(@)],
       p \in proc.reap, proc.child[p] = "exited",
       proc' = [[k EXCEPT !.reap = @ \ {p}, !.nfds = @ - 1]
            EXCEPT !.child[p] = "reaped", !.waited = @ \union {p},
                   !.process_handles = Process!Unlink(@, p), !.pending = Append(@, p)]
PROVE  ProcInv'
  <2>a. proc.todo # <<>> /\ p = Head(proc.todo) /\ proc.pc = "reap"
    BY <1>11
  <2>t. PICK t : t = Tail(proc.todo)
    OBVIOUS
  <2>q. /\ p \in Children /\ t \in Seq(Children) /\ Distinct(t) /\ ~Contains(t, p)
        /\ \A q : Contains(proc.todo, q) <=> Contains(t, q) \/ q = p
    BY <2>a, <2>t, TailQueue DEF ProcLists
  <2>l. Contains(proc.process_handles, p)
    BY <2>q DEF ProcLists
  <2>b. p \in proc.reap /\ proc.child[p] = "exited"
    BY <1>11
  <2>n. PICK n, h : n = proc.nfds - 1 /\ h = Process!Unlink(proc.process_handles, p)
    OBVIOUS
  <2>m. /\ p \notin proc.event /\ p \notin proc.orphans /\ p \in proc.reap /\ p \notin proc.closing
        /\ proc.child[p] \in {"exited", "stolen"}
    BY <2>b, <2>l DEF ProcMarks
  <2>c. PICK c \in [Children -> ProcStatus] :
            c = [proc.child EXCEPT ![p] = "reaped"] /\ c[p] = "reaped" /\ \A q \in Children : q # p => c[q] = proc.child[q]
    <3>1. proc.child \in [Children -> ProcStatus] /\ p \in Children /\ "reaped" \in ProcStatus
      BY <2>q DEF ProcTyped, ProcStatus
    <3>2. [proc.child EXCEPT ![p] = "reaped"] \in [Children -> ProcStatus]
      BY <3>1
    <3>3. /\ [proc.child EXCEPT ![p] = "reaped"][p] = "reaped"
          /\ \A q \in Children : q # p => [proc.child EXCEPT ![p] = "reaped"][q] = proc.child[q]
      BY <3>1
    <3> QED BY <3>2, <3>3
  <2>h. /\ h \in Seq(Children) /\ Distinct(h)
        /\ \A q : Contains(h, q) <=> Contains(proc.process_handles, q) /\ q # p
    BY <2>n, UnlinkQueue, ProcOps DEF ProcLists
  <2>o. \A q : Contains(proc.process_handles, q) \/ q \in proc.reap \/ q \in proc.event \/ q \in proc.closing \/ q \in proc.orphans => q \in Children
    BY RangeQueue DEF ProcTyped, ProcLists, ProcMarks
  <2>u. /\ DOMAIN proc' = DOMAIN proc /\ proc'.child = c /\ proc'.reap = proc.reap \ {p}
        /\ proc'.process_handles = h /\ proc'.todo = t /\ proc'.nfds = n /\ proc'.pc = proc.pc
        /\ proc'.event = proc.event /\ proc'.loopReap = proc.loopReap
        /\ proc'.active = proc.active /\ proc'.closing = proc.closing
        /\ proc'.orphans = proc.orphans
    BY <1>11, <2>t, <2>n, <2>c DEF ProcTyped, ProcFields
  <2>1. (DOMAIN proc = ProcFields)'
    BY <2>u
  <2>2. ProcTyped'
    BY <2>u DEF ProcTyped
  <2>3. ProcLists'
    BY <2>u, <2>q, <2>a, <2>h DEF ProcLists
  <2>4. ProcMarks'
    BY <2>u, <2>c, <2>h, <2>o, <2>m DEF ProcMarks
  <2>5. ProcSeen'
    BY <2>u, <2>q, <2>b, <2>c, <2>h, <2>o DEF ProcSeen, ProcLists
  <2>6. ProcCounts'
    <3>1. ProcOpen' = ProcOpen \ {p} /\ p \in ProcOpen
      BY <2>u, <2>q, <2>l, <2>b, <2>m, <2>c, <2>h, <2>o DEF ProcOpen
    <3>2. Cardinality(ProcOpen \ {p}) = Cardinality(ProcOpen) - 1
      BY <3>1, ProcSize DEF ProcOpen
    <3> QED BY <2>u, <2>n, <3>1, <3>2 DEF ProcCounts
  <2> QED BY <2>1, <2>2, <2>3, <2>4, <2>5, <2>6 DEF ProcInv
<1>12. CASE Process!AllWaited
  <2>u. /\ DOMAIN proc' = DOMAIN proc /\ proc'.pc = "pending" /\ proc'.child = proc.child
        /\ proc'.event = proc.event /\ proc'.reap = proc.reap /\ proc'.loopReap = proc.loopReap
        /\ proc'.process_handles = proc.process_handles /\ proc'.todo = proc.todo
        /\ proc'.active = proc.active /\ proc'.closing = proc.closing /\ proc'.nfds = proc.nfds
        /\ proc'.orphans = proc.orphans
    BY <1>12 DEF Process!AllWaited, ProcTyped, ProcFields
  <2>g. proc.todo = <<>>
    BY <1>12 DEF Process!AllWaited
  <2>1. (DOMAIN proc = ProcFields)'
    BY <2>u, <2>g
  <2>2. ProcTyped'
    BY <2>u, <2>g DEF ProcTyped
  <2>3. ProcLists'
    BY <2>u, <2>g DEF ProcLists
  <2>4. ProcMarks'
    BY <2>u, <2>g DEF ProcMarks
  <2>5. ProcSeen'
    BY <2>u, <2>g DEF ProcSeen, ProcLists
  <2>6. ProcCounts'
    <3>1. ProcOpen' = ProcOpen
      BY <2>u DEF ProcOpen, ProcTyped
    <3> QED BY <2>u, <3>1 DEF ProcCounts
  <2> QED BY <2>1, <2>2, <2>3, <2>4, <2>5, <2>6 DEF ProcInv
<1>13. CASE Process!ExitCb
  <2>c. PICK callback \in BOOLEAN : proc' = [proc EXCEPT
           !.pending = Tail(@), !.active = @ \ {Head(proc.pending)},
           !.exited = Append(@, Head(proc.pending)), !.pc = IF callback THEN "exit_cb" ELSE "pending"]
    BY <1>13, Zenon DEF Process!ExitCb
  <2>a. PICK x, a, e, p : /\ x = (IF callback THEN "exit_cb" ELSE "pending")
                          /\ a = proc.active \ {Head(proc.pending)}
                          /\ e = Append(proc.exited, Head(proc.pending)) /\ p = Tail(proc.pending)
    OBVIOUS
  <2>x. x \in {"pending", "exit_cb"}
    BY ONLY <2>a
  <2>p. proc' = [proc EXCEPT !.pending = p, !.active = a, !.exited = e, !.pc = x]
    BY ONLY <2>c, <2>a, Zenon
  <2>d. DOMAIN proc = ProcFields
    OBVIOUS
  <2>s. \A q \in a : q \in proc.active
    BY <2>a
  <2>u. /\ DOMAIN proc' = DOMAIN proc /\ proc'.pc = x /\ proc'.active = a
        /\ proc'.child = proc.child /\ proc'.event = proc.event /\ proc'.reap = proc.reap
        /\ proc'.loopReap = proc.loopReap /\ proc'.process_handles = proc.process_handles
        /\ proc'.todo = proc.todo /\ proc'.closing = proc.closing /\ proc'.nfds = proc.nfds
        /\ proc'.orphans = proc.orphans
    BY ONLY <2>p, <2>d DEF ProcFields
  <2>g. proc.pc = "pending"
    BY <1>13 DEF Process!ExitCb
  <2>1. (DOMAIN proc = ProcFields)'
    BY <2>u, <2>g
  <2>2. ProcTyped'
    BY <2>u, <2>g, <2>x, <2>s DEF ProcTyped
  <2>3. ProcLists'
    BY <2>u, <2>g, <2>x DEF ProcLists
  <2>4. ProcMarks'
    BY <2>u, <2>g, <2>s DEF ProcMarks
  <2>5. ProcSeen'
    BY <2>u, <2>g DEF ProcSeen, ProcLists
  <2>6. ProcCounts'
    <3>1. ProcOpen' = ProcOpen
      BY <2>u DEF ProcOpen, ProcTyped
    <3> QED BY <2>u, <3>1 DEF ProcCounts
  <2> QED BY <2>1, <2>2, <2>3, <2>4, <2>5, <2>6 DEF ProcInv
<1>14. CASE Process!ExitCbReturns
  <2>u. /\ DOMAIN proc' = DOMAIN proc /\ proc'.pc = "pending" /\ proc'.child = proc.child
        /\ proc'.event = proc.event /\ proc'.reap = proc.reap /\ proc'.loopReap = proc.loopReap
        /\ proc'.process_handles = proc.process_handles /\ proc'.todo = proc.todo
        /\ proc'.active = proc.active /\ proc'.closing = proc.closing /\ proc'.nfds = proc.nfds
        /\ proc'.orphans = proc.orphans
    BY <1>14 DEF Process!ExitCbReturns, ProcTyped, ProcFields
  <2>g. proc.pc = "exit_cb"
    BY <1>14 DEF Process!ExitCbReturns
  <2>1. (DOMAIN proc = ProcFields)'
    BY <2>u, <2>g
  <2>2. ProcTyped'
    BY <2>u, <2>g DEF ProcTyped
  <2>3. ProcLists'
    BY <2>u, <2>g DEF ProcLists
  <2>4. ProcMarks'
    BY <2>u, <2>g DEF ProcMarks
  <2>5. ProcSeen'
    BY <2>u, <2>g DEF ProcSeen, ProcLists
  <2>6. ProcCounts'
    <3>1. ProcOpen' = ProcOpen
      BY <2>u DEF ProcOpen, ProcTyped
    <3> QED BY <2>u, <3>1 DEF ProcCounts
  <2> QED BY <2>1, <2>2, <2>3, <2>4, <2>5, <2>6 DEF ProcInv
<1>15. CASE Process!Reaped
  <2>u. /\ DOMAIN proc' = DOMAIN proc /\ proc'.pc = "program" /\ proc'.child = proc.child
        /\ proc'.event = proc.event /\ proc'.reap = proc.reap /\ proc'.loopReap = proc.loopReap
        /\ proc'.process_handles = proc.process_handles /\ proc'.todo = proc.todo
        /\ proc'.active = proc.active /\ proc'.closing = proc.closing /\ proc'.nfds = proc.nfds
        /\ proc'.orphans = proc.orphans
    BY <1>15 DEF Process!Reaped, ProcTyped, ProcFields
  <2>g. proc.pc = "pending"
    BY <1>15 DEF Process!Reaped
  <2>1. (DOMAIN proc = ProcFields)'
    BY <2>u, <2>g
  <2>2. ProcTyped'
    BY <2>u, <2>g DEF ProcTyped
  <2>3. ProcLists'
    BY <2>u, <2>g DEF ProcLists
  <2>4. ProcMarks'
    BY <2>u, <2>g DEF ProcMarks
  <2>5. ProcSeen'
    BY <2>u, <2>g DEF ProcSeen, ProcLists
  <2>6. ProcCounts'
    <3>1. ProcOpen' = ProcOpen
      BY <2>u DEF ProcOpen, ProcTyped
    <3> QED BY <2>u, <3>1 DEF ProcCounts
  <2> QED BY <2>1, <2>2, <2>3, <2>4, <2>5, <2>6 DEF ProcInv
<1> QED BY <1>1, <1>2, <1>3, <1>4, <1>5, <1>6, <1>7, <1>8, <1>9, <1>10, <1>11, <1>12, <1>13, <1>14, <1>15 DEF Process!Next, Process!Spawn, Process!Program, Process!PollProc, Process!WaitChild, Process!ToReap

LEMMA ProcKeeps ==
    ASSUME ProcConstants, ProcInv
    PROVE  Process!TypeOK /\ Process!CountsAreExact /\ Process!NothingStranded /\ Process!ClosedIsClean
<1> DOMAIN proc = ProcFields /\ ProcTyped /\ ProcLists /\ ProcMarks /\ ProcSeen /\ ProcCounts
  BY DEF ProcInv
<1>1. /\ \A y : y \in Process!Range(proc.process_handles) <=> Contains(proc.process_handles, y)
      /\ \A y : y \in Process!Range(proc.todo) <=> Contains(proc.todo, y)
      /\ \A y : Contains(proc.process_handles, y) => y \in Children
  BY SetOfQueue, RangeQueue, ProcOps DEF ProcLists
<1>2. proc.nfds \in Nat /\ (ProcOpen # {} => proc.nfds > 0)
  BY ProcSize DEF ProcCounts, ProcOpen
<1>3. Process!TypeOK
  BY <1>2 DEF Process!TypeOK, ProcTyped, ProcStatus
<1>4. Process!CountsAreExact
  <2>1. {p \in Children : Process!Counted(p) \/ p \in proc.orphans} = ProcOpen
    BY <1>1 DEF Process!Counted, ProcOpen
  <2> QED BY <2>1, ProcOps DEF Process!CountsAreExact, ProcCounts
<1>5. Process!NothingStranded
  <2>1. ASSUME NEW p, Contains(proc.process_handles, p), p \in proc.reap PROVE p \in ProcOpen
    BY <1>1, <2>1 DEF ProcOpen
  <2> QED BY <1>1, <1>2, <2>1 DEF Process!NothingStranded, ProcSeen
<1>6. Process!ClosedIsClean
  BY <1>1 DEF Process!ClosedIsClean, ProcMarks
<1> QED BY <1>3, <1>4, <1>5, <1>6

SpawnConstants == StdioCount \in Nat

\* uv_spawn, for any containers and a failure at any of them or at none: no end of a pipe stays
\* open that the parent cannot reach, and nothing is closed that uv_spawn did not open.
THEOREM SpawnCorrect == ASSUME SpawnConstants PROVE Process!SpawnLeaksNothing
<1> SUFFICES ASSUME NEW c \in [Process!Stdio -> Process!Containers], NEW failed \in 0..StdioCount
             PROVE  LET fds == Process!SpawnFds(c, failed) IN
                      /\ fds[1] \cap fds[2] = {}
                      /\ fds[1] = (IF failed < StdioCount THEN {} ELSE {<<i, 0>> : i \in Process!Pipes(c)})
                      /\ fds[2] \subseteq Process!Pipes(c) \X {0, 1}
  BY DEF Process!SpawnLeaksNothing
<1> DEFINE P == Process!Pipes(c)
<1>1. CASE failed < StdioCount
  <2>1. Process!ErrorCloses(c, failed) \subseteq P \X {0, 1}
    BY DEF Process!ErrorCloses
  <2>2. Process!SpawnFds(c, failed)[1] = {} /\ Process!SpawnFds(c, failed)[2] = Process!ErrorCloses(c, failed)
    BY <1>1 DEF Process!SpawnFds, Process!ErrorCloses
  <2> QED BY <1>1, <2>1, <2>2
<1>2. CASE ~(failed < StdioCount)
  <2>1. Process!SpawnFds(c, failed)[1] = {<<i, 0>> : i \in P} /\ Process!SpawnFds(c, failed)[2] = {<<i, 1>> : i \in P}
    BY <1>2 DEF Process!SpawnFds
  <2>2. {<<i, 0>> : i \in P} \cap {<<i, 1>> : i \in P} = {}
    OBVIOUS
  <2>3. {<<i, 1>> : i \in P} \subseteq P \X {0, 1}
    OBVIOUS
  <2> QED BY <1>2, <2>1, <2>2, <2>3
<1> QED BY <1>1, <1>2

LEMMA ProcChanges ==
    ASSUME ProcConstants, ProcInv, [Process!Next]_proc
    PROVE  ProcInv'
<1>1. CASE Process!Next
  BY <1>1, ProcStep
<1>2. CASE UNCHANGED proc
  BY <1>2 DEF ProcInv, ProcCounts, ProcLists, ProcMarks, ProcSeen, ProcTyped, ProcOpen
<1> QED BY <1>1, <1>2

\* Child processes, for any finite number of them: the handles count as active exactly while their
\* child runs, a seen exit is waited for, and a closed handle is in no list.
THEOREM ProcessCorrect ==
    ASSUME ProcConstants
    PROVE  Process!Spec => [](Process!TypeOK /\ Process!CountsAreExact /\ Process!NothingStranded /\
                              Process!ClosedIsClean)
<1>1. ASSUME Process!Init PROVE ProcInv
  BY <1>1, ProcBegins
<1>2. ASSUME ProcInv, [Process!Next]_proc PROVE ProcInv'
  BY <1>2, ProcChanges
<1>3. ProcInv => Process!TypeOK /\ Process!CountsAreExact /\ Process!NothingStranded /\
              Process!ClosedIsClean
  BY ProcKeeps
<1> QED BY <1>1, <1>2, <1>3, PTL DEF Process!Spec

\* A child that was waited for waits for its callback or had it, once; a handle is active from the
\* start of its child to one of the two.
ProcTold ==
    /\ proc.exited \in Seq(Children) /\ Distinct(proc.exited)
    /\ proc.pending \in Seq(Children) /\ Distinct(proc.pending)
    /\ \A p : Contains(proc.pending, p) => ~Contains(proc.exited, p)
    /\ \A p : p \in proc.waited => p \in Children /\ proc.child[p] = "reaped"
    /\ \A p \in Children : proc.child[p] = "reaped" => p \in proc.waited
    /\ \A p : Contains(proc.pending, p) \/ Contains(proc.exited, p) => p \in proc.waited
    /\ \A p \in Children : p \in proc.active <=>
         p \notin proc.closing /\ proc.child[p] # "none" /\ ~Contains(proc.exited, p)

LEMMA ProcToldFirst == ASSUME ProcConstants, Process!Init PROVE ProcTold
<1>1. /\ proc.exited = <<>> /\ proc.pending = <<>> /\ proc.waited = {} /\ proc.active = {}
      /\ proc.child = [p \in Children |-> "none"]
  BY DEF Process!Init
<1>2. <<>> \in Seq(Children) /\ Distinct(<<>>) /\ \A p : ~Contains(<<>>, p)
  BY EmptyQueue
<1> QED BY <1>1, <1>2 DEF ProcTold

LEMMA ProcTells == ASSUME ProcConstants, ProcInv, ProcTold, [Process!Next]_proc PROVE ProcTold'
<1>0. DOMAIN proc = ProcFields /\ ProcTyped /\ ProcLists /\ ProcMarks
  BY DEF ProcInv
<1>1. ASSUME proc'.exited = proc.exited, proc'.pending = proc.pending, proc'.waited = proc.waited,
             proc'.active = proc.active, proc'.child = proc.child, proc'.closing = proc.closing
      PROVE  ProcTold'
  BY <1>1 DEF ProcTold
<1>2. CASE UNCHANGED proc
  BY <1>1, <1>2
<1>3. CASE Process!PollProc
  <2>1. /\ proc'.exited = proc.exited /\ proc'.pending = proc.pending
        /\ proc'.waited = proc.waited /\ proc'.active = proc.active
        /\ proc'.child = proc.child /\ proc'.closing = proc.closing
    BY <1>0, <1>3 DEF Process!PollProc, Process!Waits, ProcFields
  <2> QED BY <1>1, <2>1
<1>4. CASE Process!PollNothing \/ Process!AllWaited \/ Process!ExitCbReturns \/ Process!Reaped
  BY <1>0, <1>1, <1>4 DEF Process!PollNothing, Process!AllWaited, Process!ExitCbReturns, Process!Reaped, Process!Waits, ProcFields
<1>5. ASSUME NEW p \in Children, Process!Spawn(p) PROVE ProcTold'
  <2>1. proc.child[p] = "none" /\ p \notin proc.closing
    BY <1>0, <1>5 DEF Process!Spawn, ProcMarks
  <2>2. PICK s \in {"exited", "alive"} :
          /\ proc'.child = [proc.child EXCEPT ![p] = s] /\ proc'.active = proc.active \union {p}
          /\ proc'.exited = proc.exited /\ proc'.pending = proc.pending
          /\ proc'.waited = proc.waited /\ proc'.closing = proc.closing
    <3>1. /\ \/ proc'.child = [proc.child EXCEPT ![p] = "exited"]
             \/ proc'.child = [proc.child EXCEPT ![p] = "alive"]
          /\ proc'.active = proc.active \union {p} /\ proc'.exited = proc.exited
          /\ proc'.pending = proc.pending /\ proc'.waited = proc.waited
          /\ proc'.closing = proc.closing
      BY <1>0, <1>5 DEF Process!Spawn, ProcFields
    <3> QED BY <3>1
  <2>3. proc'.child[p] = s /\ \A q \in Children : q # p => proc'.child[q] = proc.child[q]
    BY <1>0, <2>2 DEF ProcTyped
  <2> QED BY <2>1, <2>2, <2>3 DEF ProcTold
<1>6. ASSUME NEW p \in Children, Process!Exits(p) \/ Process!WaitedElsewhere(p) PROVE ProcTold'
  <2>1. PICK s \in {"exited", "stolen"} :
          /\ proc'.child = [proc.child EXCEPT ![p] = s] /\ proc'.active = proc.active
          /\ proc'.exited = proc.exited /\ proc'.pending = proc.pending
          /\ proc'.waited = proc.waited /\ proc'.closing = proc.closing
          /\ proc.child[p] \in {"alive", "exited"}
    BY <1>0, <1>6 DEF Process!Exits, Process!WaitedElsewhere, ProcFields
  <2>2. proc'.child[p] = s /\ \A q \in Children : q # p => proc'.child[q] = proc.child[q]
    BY <1>0, <2>1 DEF ProcTyped
  <2> QED BY <2>1, <2>2 DEF ProcTold
<1>7. ASSUME NEW p \in Children, Process!Close(p) PROVE ProcTold'
  <2>1. /\ proc'.closing = proc.closing \union {p} /\ proc'.active = proc.active \ {p}
        /\ proc'.child = proc.child /\ proc'.exited = proc.exited
        /\ proc'.pending = proc.pending /\ proc'.waited = proc.waited
    BY <1>0, <1>7 DEF Process!Close, ProcFields
  <2> QED BY <2>1 DEF ProcTold
<1>8. CASE Process!WaitChild
  <2>1. proc.todo # <<>>
    BY <1>8 DEF Process!WaitChild
  <2>2. PICK p : p = Head(proc.todo)
    OBVIOUS
  <2>3. p \in Children
    BY <1>0, <2>1, <2>2, TailQueue DEF ProcLists
  <2>4. \/ /\ proc'.child = proc.child /\ proc'.waited = proc.waited
           /\ proc'.pending = proc.pending
        \/ /\ proc.child[p] = "exited" /\ proc'.child = [proc.child EXCEPT ![p] = "reaped"]
           /\ proc'.waited = proc.waited \union {p} /\ proc'.pending = Append(proc.pending, p)
    BY <1>0, <1>8, <2>2 DEF Process!WaitChild, ProcFields
  <2>5. /\ proc'.active = proc.active /\ proc'.closing = proc.closing
        /\ proc'.exited = proc.exited
    BY <1>0, <1>8 DEF Process!WaitChild, ProcFields
  <2>6. CASE proc'.child = proc.child /\ proc'.waited = proc.waited /\ proc'.pending = proc.pending
    BY <1>1, <2>5, <2>6
  <2>7. CASE /\ proc.child[p] = "exited" /\ proc'.child = [proc.child EXCEPT ![p] = "reaped"]
             /\ proc'.waited = proc.waited \union {p} /\ proc'.pending = Append(proc.pending, p)
    <3>1. ~Contains(proc.pending, p) /\ ~Contains(proc.exited, p)
      BY <2>3, <2>7 DEF ProcTold
    <3>2. /\ proc'.pending \in Seq(Children) /\ Distinct(proc'.pending)
          /\ \A y : Contains(proc'.pending, y) <=> Contains(proc.pending, y) \/ y = p
      BY <2>3, <2>7, <3>1, AppendQueue DEF ProcTold
    <3>3. proc'.child[p] = "reaped" /\ \A q \in Children : q # p => proc'.child[q] = proc.child[q]
      BY <1>0, <2>3, <2>7 DEF ProcTyped
    <3> QED BY <2>3, <2>5, <2>7, <3>1, <3>2, <3>3 DEF ProcTold
  <2> QED BY <2>4, <2>6, <2>7
<1>9. CASE Process!ExitCb
  <2>1. PICK p : p = Head(proc.pending)
    OBVIOUS
  <2>2. /\ proc.pending # <<>> /\ proc'.pending = Tail(proc.pending)
        /\ proc'.active = proc.active \ {p} /\ proc'.exited = Append(proc.exited, p)
        /\ proc'.child = proc.child /\ proc'.closing = proc.closing
        /\ proc'.waited = proc.waited
    BY <1>0, <1>9, <2>1 DEF Process!ExitCb, ProcFields
  <2>3. /\ p \in Children /\ Contains(proc.pending, p) /\ proc'.pending \in Seq(Children)
        /\ \A y : Contains(proc.pending, y) <=> Contains(proc'.pending, y) \/ y = p
        /\ Distinct(proc'.pending) /\ ~Contains(proc'.pending, p)
    BY <2>1, <2>2, TailQueue DEF ProcTold
  <2>4. /\ proc'.exited \in Seq(Children) /\ Distinct(proc'.exited)
        /\ \A y : Contains(proc'.exited, y) <=> Contains(proc.exited, y) \/ y = p
    BY <2>2, <2>3, AppendQueue DEF ProcTold
  <2> QED BY <2>2, <2>3, <2>4 DEF ProcTold
<1> QED BY <1>2, <1>3, <1>4, <1>5, <1>6, <1>7, <1>8, <1>9 DEF Process!Next

LEMMA ProcTellsOnce == ASSUME ProcConstants, ProcInv, ProcTold PROVE Process!ToldOnce
<1>1. \A y : y \in Process!Range(proc.exited) <=> Contains(proc.exited, y)
  BY SetOfQueue, ProcOps DEF ProcTold
<1>2. Process!IsInjective(proc.exited)
  <2>1. DOMAIN proc.exited = 1..Len(proc.exited)
    BY DEF ProcTold
  <2> QED BY <2>1 DEF Process!IsInjective, ProcTold, Distinct
<1>3. proc.active \subseteq Children
  BY DEF ProcInv, ProcTyped
<1> QED BY <1>1, <1>2, <1>3 DEF Process!ToldOnce, ProcTold

-----------------------------------------------------------------------------
(* Names and paths *)

QryConstants == MaxLen \in Nat

QryFields == {"f", "v", "n", "told", "asked", "answer", "same"}

QryTyped == qry.asked \in 0..2 /\ qry.answer.rc \in {"0", "UV_ENOBUFS"}

Chars == {"x", "/"}

\* The answer is that of the function, of what was asked.
QryAnswered == qry.asked > 0 =>
    /\ qry.f \in Queries!Functions1 /\ qry.v \in Seq(Chars) /\ qry.n \in Nat \ {0} /\ Queries!Possible(qry.f, qry.v)
    /\ qry.answer = Queries!Call(qry.f, qry.v, qry.n)

\* The second time the size is the one that was told.
QryTold == (qry.asked = 2 /\ qry.same) =>
    \E m \in Nat \ {0} :
        /\ Queries!Call(qry.f, qry.v, m).rc = "UV_ENOBUFS" /\ qry.n = Queries!Call(qry.f, qry.v, m).size

QryInv == DOMAIN qry = QryFields /\ QryTyped /\ QryAnswered /\ QryTold

LEMMA QryAnswers == \A v \in Queries!Answers : v \in Seq(Chars)
<1>1. \A n \in Nat : \A v \in [1..n -> Chars] : v \in Seq(Chars)
  OBVIOUS
<1>2. Queries!Answers = UNION {[1..n -> Chars] : n \in 0..MaxLen}
  BY DEF Queries!Answers, Queries!UpTo, Chars
<1>3. \A n \in 0..MaxLen : n \in Nat
  OBVIOUS
<1> QED BY <1>1, <1>2, <1>3

\* What a name or path without its last slash is like.
LEMMA QrySlashless ==
    ASSUME NEW v \in Seq(Chars)
    PROVE  Queries!Slashless(v) \in Seq(Chars) /\ Len(Queries!Slashless(v)) <= Len(v) /\ Len(Queries!Slashless(v)) \in Nat
<1>1. CASE Len(v) > 1
  <2>2. Len(v) \in Nat /\ Len(v) - 1 \in 0..Len(v)
    BY <1>1, LenProperties
  <2>3. SubSeq(v, 1, Len(v) - 1) \in Seq(Chars) /\ Len(SubSeq(v, 1, Len(v) - 1)) = Len(v) - 1
    <3>1. \A k \in 0..Len(v) : SubSeq(v, 1, k) \in Seq(Chars) /\ Len(SubSeq(v, 1, k)) = k
      OBVIOUS
    <3> QED BY <2>2, <3>1
  <2>4. Queries!Slashless(v) = SubSeq(v, 1, Len(v) - 1) \/ Queries!Slashless(v) = v
    BY DEF Queries!Slashless
  <2> QED BY <2>2, <2>3, <2>4
<1>2. CASE ~(Len(v) > 1)
  BY <1>2, LenProperties DEF Queries!Slashless
<1> QED BY <1>1, <1>2

\* What every answer is like: what is written fits, and who comes back with the size told gets it.
Fits(a, n) ==
    /\ a.rc \in {"0", "UV_ENOBUFS"} /\ a.wrote <= n
    /\ a.rc = "0" /\ a.wrote > 0 => a.size + 1 <= a.wrote
    /\ a.rc = "UV_ENOBUFS" => a.size \in Nat \ {0}

LEMMA QryFits ==
    ASSUME NEW f \in Queries!Functions1, NEW v \in Seq(Chars), NEW n \in Nat \ {0}, Queries!Possible(f, v)
    PROVE  /\ Fits(Queries!Call(f, v, n), n)
           /\ Queries!Call(f, v, n).rc = "UV_ENOBUFS" /\ f # "title" =>
                Queries!Call(f, v, Queries!Call(f, v, n).size).rc = "0"
<1> Len(v) \in Nat /\ Queries!Slashless(v) \in Seq(Chars) /\ Len(Queries!Slashless(v)) <= Len(v) /\ Len(Queries!Slashless(v)) \in Nat
  BY QrySlashless, LenProperties
<1>1. CASE f = "getenv"
  <2>1. \A m : Queries!Call(f, v, m) = Queries!Getenv(v, m)
    BY <1>1 DEF Queries!Call
  <2> QED BY <2>1 DEF Queries!Getenv, Fits, Queries!Gives, Queries!TooSmall
<1>2. CASE f = "homedir"
  <2>1. \A m : Queries!Call(f, v, m) = Queries!Homedir(v, m)
    BY <1>2 DEF Queries!Call
  <2> QED BY <2>1 DEF Queries!Homedir, Fits, Queries!Gives, Queries!TooSmall
<1>3. CASE f = "hostname"
  <2>1. \A m : Queries!Call(f, v, m) = Queries!Gethostname(v, m)
    BY <1>3 DEF Queries!Call
  <2> QED BY <2>1 DEF Queries!Gethostname, Fits, Queries!Gives, Queries!TooSmall
<1>4. CASE f = "fs event"
  <2>1. \A m : Queries!Call(f, v, m) = Queries!FsEventPath(v, m)
    BY <1>4 DEF Queries!Call
  <2> QED BY <2>1 DEF Queries!FsEventPath, Fits, Queries!Gives, Queries!TooSmall
<1>5. CASE f = "fs poll"
  <2>1. \A m : Queries!Call(f, v, m) = Queries!FsPollPath(v, m)
    BY <1>5 DEF Queries!Call
  <2> QED BY <2>1 DEF Queries!FsPollPath, Fits, Queries!Gives, Queries!TooSmall
<1>6. CASE f = "interface"
  <2>1. \A m : Queries!Call(f, v, m) = Queries!IndexToName(v, m)
    BY <1>6 DEF Queries!Call
  <2> QED BY <2>1 DEF Queries!IndexToName, Fits, Queries!Gives, Queries!TooSmall
<1>7. CASE f = "pipe"
  <2>1. \A m : Queries!Call(f, v, m) = Queries!PipeName(v, m)
    BY <1>7 DEF Queries!Call
  <2>2. v = <<>> => Len(v) = 0
    OBVIOUS
  <2> QED BY <2>1, <2>2 DEF Queries!PipeName, Fits, Queries!Gives, Queries!TooSmall
<1>8. CASE f = "tmpdir"
  <2>1. \A m : Queries!Call(f, v, m) = Queries!Tmpdir(v, m)
    BY <1>8 DEF Queries!Call
  <2> QED BY <2>1 DEF Queries!Tmpdir, Fits, Queries!Gives, Queries!TooSmall
<1>9. CASE f = "cwd"
  <2>1. \A m : Queries!Call(f, v, m) = Queries!Cwd(v, m)
    BY <1>9 DEF Queries!Call
  <2>2. Queries!Slashless(v) = v
    BY <1>9 DEF Queries!Possible
  <2> QED BY <2>1, <2>2 DEF Queries!Cwd, Fits, Queries!Gives, Queries!TooSmall
<1>10. CASE f = "cut"
  <2>1. \A m : Queries!Call(f, v, m) = Queries!Cut(v, m)
    BY <1>10 DEF Queries!Call
  <2>2. PICK k \in Nat : k = IF n - 1 > Len(v) THEN Len(v) ELSE n - 1
    OBVIOUS
  <2>3. k <= Len(v) /\ k + 1 <= n
    BY <2>2
  <2>4. Len(SubSeq(v, 1, k)) = k
    BY <2>3
  <2>5. Queries!Cut(v, n) = Queries!Gives(SubSeq(v, 1, k), k + 1)
    BY <2>2 DEF Queries!Cut
  <2> QED BY <2>1, <2>3, <2>4, <2>5 DEF Fits, Queries!Gives
<1>11. CASE f = "title"
  <2>1. \A m : Queries!Call(f, v, m) = Queries!TitleGet(v, m)
    BY <1>11 DEF Queries!Call
  <2> QED BY <1>11, <2>1 DEF Queries!TitleGet, Fits, Queries!Gives, Queries!TooSmall
<1> QED BY <1>1, <1>2, <1>3, <1>4, <1>5, <1>6, <1>7, <1>8, <1>9, <1>10, <1>11 DEF Queries!Functions1, Queries!Exact

LEMMA QryBegins ==
    ASSUME QryConstants, Queries!Init
    PROVE  QryInv
<1>1. DOMAIN qry = QryFields /\ qry.asked = 0 /\ qry.answer.rc = "UV_ENOBUFS"
  BY DEF Queries!Init, QryFields, Queries!TooSmall
<1> QED BY <1>1 DEF QryInv, QryTyped, QryAnswered, QryTold

LEMMA QryStep ==
    ASSUME QryConstants, QryInv, Queries!Next
    PROVE  QryInv'
<1>1. ASSUME NEW f \in Queries!Functions1, NEW v \in Queries!Answers, NEW n \in Queries!Lengths, Queries!Ask(f, v, n)
      PROVE  QryInv'
  <2>1. v \in Seq(Chars) /\ n \in Nat \ {0} /\ Queries!Possible(f, v)
    BY <1>1, QryAnswers DEF Queries!Ask, Queries!Lengths, QryConstants
  <2>u. /\ DOMAIN qry' = QryFields /\ qry'.f = f /\ qry'.v = v /\ qry'.n = n /\ qry'.asked = 1
        /\ qry'.answer = Queries!Call(f, v, n)
    BY <1>1 DEF Queries!Ask, QryFields
  <2>2. Queries!Call(f, v, n).rc \in {"0", "UV_ENOBUFS"}
    BY <2>1, QryFits DEF Fits
  <2> QED BY <2>u, <2>1, <2>2 DEF QryInv, QryTyped, QryAnswered, QryTold
<1>2. ASSUME NEW v \in Queries!Answers, Queries!AskAgain(v)
      PROVE  QryInv'
  <2>g. /\ qry.asked = 1 /\ qry.answer.rc = "UV_ENOBUFS" /\ Queries!Possible(qry.f, v)
        /\ qry.f \in Queries!Functions1 /\ qry.v \in Seq(Chars) /\ qry.n \in Nat \ {0} /\ Queries!Possible(qry.f, qry.v)
        /\ qry.answer = Queries!Call(qry.f, qry.v, qry.n)
    BY <1>2 DEF Queries!AskAgain, QryInv, QryAnswered
  <2>1. v \in Seq(Chars) /\ qry.answer.size \in Nat \ {0}
    BY <2>g, QryAnswers, QryFits DEF Fits
  <2>u. /\ DOMAIN qry' = DOMAIN qry /\ qry'.f = qry.f /\ qry'.v = v /\ qry'.n = qry.answer.size
        /\ qry'.asked = 2 /\ qry'.same = (v = qry.v) /\ qry'.answer = Queries!Call(qry.f, v, qry.answer.size)
    BY <1>2 DEF Queries!AskAgain, QryInv, QryFields
  <2>2. Queries!Call(qry.f, v, qry.answer.size).rc \in {"0", "UV_ENOBUFS"}
    BY <2>g, <2>1, QryFits DEF Fits
  <2>3. QryTold'
    <3>1. qry'.same => v = qry.v
      BY <1>2 DEF Queries!AskAgain, QryInv, QryFields
    <3>2. v = qry.v => Queries!Call(qry'.f, qry'.v, qry.n).rc = "UV_ENOBUFS" /\ qry'.n = Queries!Call(qry'.f, qry'.v, qry.n).size
      BY <2>u, <2>g
    <3> QED BY <2>g, <3>1, <3>2 DEF QryTold
  <2> QED BY <2>u, <2>g, <2>1, <2>2, <2>3 DEF QryInv, QryTyped, QryAnswered
<1> QED BY <1>1, <1>2 DEF Queries!Next

LEMMA QryKeeps ==
    ASSUME QryInv
    PROVE  Queries!TypeOK /\ Queries!CountsAreExact /\ Queries!NothingStranded
<1>1. Queries!TypeOK
  BY DEF QryInv, QryTyped, Queries!TypeOK
<1>2. qry.asked > 0 => Fits(qry.answer, qry.n)
  BY QryFits DEF QryInv, QryAnswered
<1>3. Queries!CountsAreExact
  BY <1>2 DEF Queries!CountsAreExact, Fits
<1>4. Queries!NothingStranded
  <2> SUFFICES ASSUME qry.asked = 2, qry.same, qry.f # "title"
               PROVE  qry.answer.rc = "0"
    BY DEF Queries!NothingStranded
  <2>1. /\ qry.f \in Queries!Functions1 /\ qry.v \in Seq(Chars) /\ Queries!Possible(qry.f, qry.v)
        /\ qry.answer = Queries!Call(qry.f, qry.v, qry.n)
    BY DEF QryInv, QryAnswered
  <2>2. PICK m \in Nat \ {0} : Queries!Call(qry.f, qry.v, m).rc = "UV_ENOBUFS" /\ qry.n = Queries!Call(qry.f, qry.v, m).size
    BY DEF QryInv, QryTold
  <2> QED BY <2>1, <2>2, QryFits
<1> QED BY <1>1, <1>3, <1>4

LEMMA QryChanges ==
    ASSUME QryConstants, QryInv, [Queries!Next]_qry
    PROVE  QryInv'
<1>1. CASE Queries!Next
  BY <1>1, QryStep
<1>2. CASE UNCHANGED qry
  BY <1>2 DEF QryInv, QryAnswered, QryTold, QryTyped
<1> QED BY <1>1, <1>2

\* Queries with a size, for any length of the answer: what is written fits the buffer, and who comes
\* back with the size that was told gets the answer if it did not change.
THEOREM QueriesCorrect ==
    ASSUME QryConstants
    PROVE  Queries!Spec => [](Queries!TypeOK /\ Queries!CountsAreExact /\ Queries!NothingStranded)
<1>1. ASSUME Queries!Init PROVE QryInv
  BY <1>1, QryBegins
<1>2. ASSUME QryInv, [Queries!Next]_qry PROVE QryInv'
  BY <1>2, QryChanges
<1>3. QryInv => Queries!TypeOK /\ Queries!CountsAreExact /\ Queries!NothingStranded
  BY QryKeeps
<1> QED BY <1>1, <1>2, <1>3, PTL DEF Queries!Spec

\* What a function gives is what it was asked for.
TextOf(f, v, t) ==
    /\ f \in Queries!Exact \union {"title"} => t = v
    /\ f \in {"tmpdir", "cwd"} => t = Queries!Slashless(v)
    /\ f = "cut" => Begins(v, t)

LEMMA QryText ==
    ASSUME NEW f \in Queries!Functions1, NEW v \in Seq(Chars), NEW n \in Nat \ {0}, Queries!Call(f, v, n).rc = "0"
    PROVE  TextOf(f, v, Queries!Call(f, v, n).text)
<1>1. CASE f = "getenv"
  <2>1. \A m : Queries!Call(f, v, m) = Queries!Getenv(v, m)
    BY <1>1 DEF Queries!Call
  <2>2. Queries!Getenv(v, n).rc = "0" => Queries!Getenv(v, n).text = v
    BY DEF Queries!Getenv, Queries!Gives, Queries!TooSmall
  <2>3. Queries!Call(f, v, n).text = v
    BY <2>1, <2>2
  <2> QED BY <1>1, <2>3, Zenon DEF TextOf, Queries!Exact
<1>2. CASE f = "homedir"
  <2>1. \A m : Queries!Call(f, v, m) = Queries!Homedir(v, m)
    BY <1>2 DEF Queries!Call
  <2>2. Queries!Homedir(v, n).rc = "0" => Queries!Homedir(v, n).text = v
    BY DEF Queries!Homedir, Queries!Gives, Queries!TooSmall
  <2>3. Queries!Call(f, v, n).text = v
    BY <2>1, <2>2
  <2> QED BY <1>2, <2>3, Zenon DEF TextOf, Queries!Exact
<1>3. CASE f = "hostname"
  <2>1. \A m : Queries!Call(f, v, m) = Queries!Gethostname(v, m)
    BY <1>3 DEF Queries!Call
  <2>2. Queries!Gethostname(v, n).rc = "0" => Queries!Gethostname(v, n).text = v
    BY DEF Queries!Gethostname, Queries!Gives, Queries!TooSmall
  <2>3. Queries!Call(f, v, n).text = v
    BY <2>1, <2>2
  <2> QED BY <1>3, <2>3, Zenon DEF TextOf, Queries!Exact
<1>4. CASE f = "fs event"
  <2>1. \A m : Queries!Call(f, v, m) = Queries!FsEventPath(v, m)
    BY ONLY <1>4, Zenon DEF Queries!Call
  <2>2. Queries!FsEventPath(v, n).rc = "0" => Queries!FsEventPath(v, n).text = v
    BY DEF Queries!FsEventPath, Queries!Gives, Queries!TooSmall
  <2>3. Queries!Call(f, v, n).text = v
    BY <2>1, <2>2
  <2> QED BY <1>4, <2>3, Zenon DEF TextOf, Queries!Exact
<1>5. CASE f = "fs poll"
  <2>1. \A m : Queries!Call(f, v, m) = Queries!FsPollPath(v, m)
    BY ONLY <1>5, Zenon DEF Queries!Call
  <2>2. Queries!FsPollPath(v, n).rc = "0" => Queries!FsPollPath(v, n).text = v
    BY DEF Queries!FsPollPath, Queries!Gives, Queries!TooSmall
  <2>3. Queries!Call(f, v, n).text = v
    BY <2>1, <2>2
  <2> QED BY <1>5, <2>3, Zenon DEF TextOf, Queries!Exact
<1>6. CASE f = "interface"
  <2>1. \A m : Queries!Call(f, v, m) = Queries!IndexToName(v, m)
    BY <1>6 DEF Queries!Call
  <2>2. Queries!IndexToName(v, n).rc = "0" => Queries!IndexToName(v, n).text = v
    BY DEF Queries!IndexToName, Queries!Gives, Queries!TooSmall
  <2>3. Queries!Call(f, v, n).text = v
    BY <2>1, <2>2
  <2> QED BY <1>6, <2>3, Zenon DEF TextOf, Queries!Exact
<1>7. CASE f = "pipe"
  <2>1. \A m : Queries!Call(f, v, m) = Queries!PipeName(v, m)
    BY <1>7 DEF Queries!Call
  <2>2. Queries!PipeName(v, n).rc = "0" => Queries!PipeName(v, n).text = v
    BY DEF Queries!PipeName, Queries!Gives, Queries!TooSmall
  <2>3. Queries!Call(f, v, n).text = v
    BY <2>1, <2>2
  <2> QED BY <1>7, <2>3, Zenon DEF TextOf, Queries!Exact
<1>8. CASE f = "title"
  <2>1. \A m : Queries!Call(f, v, m) = Queries!TitleGet(v, m)
    BY <1>8 DEF Queries!Call
  <2>2. Queries!TitleGet(v, n).rc = "0" => Queries!TitleGet(v, n).text = v
    BY DEF Queries!TitleGet, Queries!Gives, Queries!TooSmall
  <2>3. Queries!Call(f, v, n).text = v
    BY <2>1, <2>2
  <2> QED BY <1>8, <2>3, Zenon DEF TextOf, Queries!Exact
<1>9. CASE f = "tmpdir"
  <2>1. \A m : Queries!Call(f, v, m) = Queries!Tmpdir(v, m)
    BY <1>9 DEF Queries!Call
  <2>2. Queries!Tmpdir(v, n).rc = "0" => Queries!Tmpdir(v, n).text = Queries!Slashless(v)
    BY DEF Queries!Tmpdir, Queries!Gives, Queries!TooSmall
  <2>3. Queries!Call(f, v, n).text = Queries!Slashless(v)
    BY <2>1, <2>2
  <2> QED BY <1>9, <2>3, Zenon DEF TextOf, Queries!Exact
<1>10. CASE f = "cwd"
  <2>1. \A m : Queries!Call(f, v, m) = Queries!Cwd(v, m)
    BY <1>10 DEF Queries!Call
  <2>2. Queries!Cwd(v, n).rc = "0" => Queries!Cwd(v, n).text = Queries!Slashless(v)
    BY DEF Queries!Cwd, Queries!Gives, Queries!TooSmall
  <2>3. Queries!Call(f, v, n).text = Queries!Slashless(v)
    BY <2>1, <2>2
  <2> QED BY <1>10, <2>3, Zenon DEF TextOf, Queries!Exact
<1>11. CASE f = "cut"
  <2>1. \A m : Queries!Call(f, v, m) = Queries!Cut(v, m)
    BY <1>11 DEF Queries!Call
  <2>2. PICK k \in Nat : k = (IF n - 1 > Len(v) THEN Len(v) ELSE n - 1) /\ k <= Len(v)
    BY LenProperties
  <2>3. Queries!Cut(v, n).text = SubSeq(v, 1, k)
    BY <2>2 DEF Queries!Cut, Queries!Gives
  <2>4. Len(SubSeq(v, 1, k)) = k /\ Len(v) \in Nat
    BY <2>2, LenProperties
  <2>5. Begins(v, SubSeq(v, 1, k))
    BY <2>2, <2>4 DEF Begins
  <2>6. Begins(v, Queries!Call(f, v, n).text)
    BY <2>1, <2>3, <2>5
  <2> QED BY <1>11, <2>6, Zenon DEF TextOf, Queries!Exact
<1> QED BY <1>1, <1>2, <1>3, <1>4, <1>5, <1>6, <1>7, <1>8, <1>9, <1>10, <1>11, Zenon
        DEF Queries!Functions1, Queries!Exact

LEMMA QryTruth == ASSUME QryInv PROVE Queries!ToldTheTruth
<1> SUFFICES ASSUME qry.asked > 0, qry.answer.rc = "0"
             PROVE  CASE qry.f \in Queries!Exact \union {"title"} -> qry.answer.text = qry.v
                      [] qry.f \in {"tmpdir", "cwd"} -> qry.answer.text = Queries!Slashless(qry.v)
                      [] qry.f = "cut" -> Begins(qry.v, qry.answer.text)
  <2>1. \A q, p : Queries!Begins(q, p) <=> Begins(q, p)
    BY DEF Queries!Begins, Begins
  <2> QED BY <2>1 DEF Queries!ToldTheTruth
<1>1. /\ qry.f \in Queries!Functions1 /\ qry.v \in Seq(Chars) /\ qry.n \in Nat \ {0}
      /\ qry.answer = Queries!Call(qry.f, qry.v, qry.n)
  BY DEF QryInv, QryAnswered
<1>2. TextOf(qry.f, qry.v, qry.answer.text)
  BY <1>1, QryText
<1> QED BY <1>1, <1>2, Zenon DEF TextOf, Queries!Functions1

-----------------------------------------------------------------------------
(* Terminals *)

\* A handle is not called as nobody.
TtyConstants == Tty!Nobody \notin Ttys

TtyFields == {"on", "open", "gone", "fake", "mode", "orig", "pc", "want", "set", "orig_fd",
              "orig_termios", "lock", "leaked", "unsaved"}

TtyTyped ==
    /\ tty.on \in [Ttys -> Terminals]
    /\ tty.open \subseteq Ttys /\ tty.gone \subseteq Ttys /\ tty.open \intersect tty.gone = {}
    /\ tty.mode \in [Ttys -> Tty!Modes] /\ tty.want \in [Ttys -> Tty!Modes]
    /\ tty.orig \in [Ttys -> Tty!Settings \union {Tty!Nobody}]
    /\ tty.pc \in [Ttys -> {"idle", "lock", "locked", "set"}]
    /\ tty.set \in [Terminals -> Tty!Settings]
    /\ tty.orig_fd \in Ttys \union {Tty!Nobody} /\ tty.lock \in Ttys \union {Tty!Nobody}
    /\ tty.orig_termios \in Tty!Settings \union {Tty!Nobody} /\ tty.leaked = {}

\* A call is of an open handle; it and a handle that left the normal mode know what the settings were.
TtyKnows == \A h \in Ttys :
    /\ tty.pc[h] # "idle" => h \in tty.open
    /\ tty.pc[h] # "idle" \/ tty.mode[h] # "normal" => tty.orig[h] \in Tty!Settings
    /\ tty.pc[h] \in {"lock", "locked"} /\ tty.on[h] \notin tty.unsaved => tty.orig[h] = "first"

\* What is recorded is open, or cannot be told by its descriptor; it has what its terminal was set
\* to at first, unless that was not known.
TtyRecord == tty.orig_fd # Tty!Nobody =>
    /\ tty.orig_fd \notin tty.fake => tty.orig_fd \in tty.open
    /\ tty.orig_termios \in Tty!Settings
    /\ tty.on[tty.orig_fd] \notin tty.unsaved => tty.orig_termios = "first"

\* A terminal that somebody changed is the recorded one.
TtyChanged == \A t \in Terminals \ tty.unsaved :
    tty.set[t] # "first" => tty.orig_fd # Tty!Nobody /\ tty.on[tty.orig_fd] = t

TtyInv == DOMAIN tty = TtyFields /\ TtyTyped /\ TtyKnows /\ TtyRecord /\ TtyChanged

LEMMA TtyBegins == ASSUME TtyConstants, Tty!Init PROVE TtyInv
<1>1. PICK where \in [Ttys -> Terminals] : tty =
        [on |-> where, open |-> {}, gone |-> {}, fake |-> {},
         mode |-> [h \in Ttys |-> "normal"], orig |-> [h \in Ttys |-> Tty!Nobody],
         pc |-> [h \in Ttys |-> "idle"], want |-> [h \in Ttys |-> "normal"],
         set |-> [t \in Terminals |-> "first"],
         orig_fd |-> Tty!Nobody, orig_termios |-> Tty!Nobody, lock |-> Tty!Nobody, leaked |-> {}, unsaved |-> {}]
  BY DEF Tty!Init
<1>2. DOMAIN tty = TtyFields
  BY <1>1 DEF TtyFields
<1>3. TtyTyped
  BY <1>1 DEF TtyTyped, Tty!Modes, Tty!Settings
<1>4. TtyKnows
  BY <1>1 DEF TtyKnows
<1>5. TtyRecord /\ TtyChanged
  BY <1>1 DEF TtyRecord, TtyChanged
<1> QED BY <1>2, <1>3, <1>4, <1>5 DEF TtyInv

LEMMA TtyOpen ==
    ASSUME TtyConstants, TtyInv, NEW h \in Ttys, NEW what, NEW select \in BOOLEAN, Tty!Open(h, what, select)
    PROVE  TtyInv'
<1>1. PICK fake : tty' = [tty EXCEPT !.open = @ \union {h}, !.fake = fake] /\ tty.fake \subseteq fake
                  /\ h \notin tty.open \union tty.gone
  BY DEF Tty!Open
<1>2. /\ DOMAIN tty' = TtyFields
      /\ tty'.on = tty.on /\ tty'.open = tty.open \union {h} /\ tty'.gone = tty.gone /\ tty'.fake = fake
      /\ tty'.mode = tty.mode /\ tty'.orig = tty.orig /\ tty'.pc = tty.pc /\ tty'.want = tty.want
      /\ tty'.set = tty.set /\ tty'.orig_fd = tty.orig_fd /\ tty'.orig_termios = tty.orig_termios
      /\ tty'.lock = tty.lock /\ tty'.leaked = tty.leaked /\ tty'.unsaved = tty.unsaved
  BY <1>1 DEF TtyInv, TtyFields
<1>3. TtyTyped'
  BY <1>1, <1>2 DEF TtyInv, TtyTyped
<1>4. TtyKnows'
  BY <1>2 DEF TtyInv, TtyKnows
<1>5. TtyRecord' /\ TtyChanged'
  BY <1>1, <1>2 DEF TtyInv, TtyRecord, TtyChanged
<1> QED BY <1>2, <1>3, <1>4, <1>5 DEF TtyInv

LEMMA TtySetMode ==
    ASSUME TtyConstants, TtyInv, NEW h \in Ttys, NEW m \in Tty!Modes, Tty!SetMode(h, m)
    PROVE  TtyInv'
<1>0. /\ h \in tty.open /\ tty.pc[h] = "idle" /\ tty.on[h] \in Terminals /\ tty.set[tty.on[h]] \in Tty!Settings
      /\ tty.mode[h] \in Tty!Modes
  BY DEF Tty!SetMode, Tty!Idle, TtyInv, TtyTyped
<1>1. CASE tty.mode[h] = "normal"
  <2>1. PICK unsaved : /\ tty' = [tty EXCEPT !.orig[h] = tty.set[tty.on[h]], !.want[h] = m, !.pc[h] = "lock",
                                             !.unsaved = unsaved]
                       /\ tty.unsaved \subseteq unsaved
                       /\ tty.set[tty.on[h]] = "first" \/ tty.on[h] \in unsaved
    <3>1. tty' = [tty EXCEPT !.orig[h] = tty.set[tty.on[h]], !.want[h] = m, !.pc[h] = "lock",
                    !.unsaved = IF tty.set[tty.on[h]] = "first" THEN @ ELSE @ \union {tty.on[h]}]
      BY <1>1 DEF Tty!SetMode
    <3>2. CASE tty.set[tty.on[h]] = "first"
      BY <3>1, <3>2
    <3>3. CASE tty.set[tty.on[h]] # "first"
      <4>1. tty' = [tty EXCEPT !.orig[h] = tty.set[tty.on[h]], !.want[h] = m, !.pc[h] = "lock",
                      !.unsaved = tty.unsaved \union {tty.on[h]}]
        BY <3>1, <3>3
      <4>2. tty.unsaved \subseteq tty.unsaved \union {tty.on[h]} /\ tty.on[h] \in tty.unsaved \union {tty.on[h]}
        OBVIOUS
      <4> QED BY Zenon, <4>1, <4>2
    <3> QED BY <3>2, <3>3
  <2>2. /\ DOMAIN tty' = TtyFields
        /\ tty'.on = tty.on /\ tty'.open = tty.open /\ tty'.gone = tty.gone /\ tty'.fake = tty.fake
        /\ tty'.mode = tty.mode /\ tty'.orig = [tty.orig EXCEPT ![h] = tty.set[tty.on[h]]]
        /\ tty'.pc = [tty.pc EXCEPT ![h] = "lock"] /\ tty'.want = [tty.want EXCEPT ![h] = m]
        /\ tty'.set = tty.set /\ tty'.orig_fd = tty.orig_fd /\ tty'.orig_termios = tty.orig_termios
        /\ tty'.lock = tty.lock /\ tty'.leaked = tty.leaked /\ tty'.unsaved = unsaved
    BY <2>1 DEF TtyInv, TtyFields
  <2>3. TtyTyped'
    BY <1>0, <2>2 DEF TtyInv, TtyTyped
  <2>4. TtyKnows'
    BY <1>0, <2>1, <2>2 DEF TtyInv, TtyTyped, TtyKnows
  <2>5. TtyRecord'
    BY <2>1, <2>2 DEF TtyInv, TtyRecord
  <2>6. TtyChanged'
    BY <2>1, <2>2 DEF TtyInv, TtyChanged
  <2> QED BY <2>2, <2>3, <2>4, <2>5, <2>6 DEF TtyInv
<1>2. CASE tty.mode[h] # "normal"
  <2>1. tty' = [tty EXCEPT !.want[h] = m, !.pc[h] = "set"]
    BY <1>2 DEF Tty!SetMode
  <2>2. /\ DOMAIN tty' = TtyFields
        /\ tty'.on = tty.on /\ tty'.open = tty.open /\ tty'.gone = tty.gone /\ tty'.fake = tty.fake
        /\ tty'.mode = tty.mode /\ tty'.orig = tty.orig
        /\ tty'.pc = [tty.pc EXCEPT ![h] = "set"] /\ tty'.want = [tty.want EXCEPT ![h] = m]
        /\ tty'.set = tty.set /\ tty'.orig_fd = tty.orig_fd /\ tty'.orig_termios = tty.orig_termios
        /\ tty'.lock = tty.lock /\ tty'.leaked = tty.leaked /\ tty'.unsaved = tty.unsaved
    BY <2>1 DEF TtyInv, TtyFields
  <2>3. TtyTyped'
    BY <2>2 DEF TtyInv, TtyTyped
  <2>4. TtyKnows'
    BY <1>0, <1>2, <2>2 DEF TtyInv, TtyTyped, TtyKnows
  <2>5. TtyRecord' /\ TtyChanged'
    BY <2>2 DEF TtyInv, TtyRecord, TtyChanged
  <2> QED BY <2>2, <2>3, <2>4, <2>5 DEF TtyInv
<1> QED BY <1>1, <1>2

LEMMA TtyLock ==
    ASSUME TtyConstants, TtyInv, NEW h \in Ttys, Tty!Lock(h)
    PROVE  TtyInv'
<1>1. tty.pc[h] = "lock" /\ tty' = [tty EXCEPT !.lock = h, !.pc[h] = "locked"]
  BY DEF Tty!Lock
<1>2. /\ DOMAIN tty' = TtyFields
      /\ tty'.on = tty.on /\ tty'.open = tty.open /\ tty'.gone = tty.gone /\ tty'.fake = tty.fake
      /\ tty'.mode = tty.mode /\ tty'.orig = tty.orig
      /\ tty'.pc = [tty.pc EXCEPT ![h] = "locked"] /\ tty'.want = tty.want
      /\ tty'.set = tty.set /\ tty'.orig_fd = tty.orig_fd /\ tty'.orig_termios = tty.orig_termios
      /\ tty'.lock = h /\ tty'.leaked = tty.leaked /\ tty'.unsaved = tty.unsaved
  BY <1>1 DEF TtyInv, TtyFields
<1>3. TtyTyped'
  BY <1>2 DEF TtyInv, TtyTyped
<1>4. TtyKnows'
  BY <1>1, <1>2 DEF TtyInv, TtyTyped, TtyKnows
<1>5. TtyRecord' /\ TtyChanged'
  BY <1>2 DEF TtyInv, TtyRecord, TtyChanged
<1> QED BY <1>2, <1>3, <1>4, <1>5 DEF TtyInv

LEMMA TtyRecorded ==
    ASSUME TtyConstants, TtyInv, NEW h \in Ttys, Tty!Record(h)
    PROVE  TtyInv'
<1>0. /\ tty.pc[h] = "locked" /\ h \in tty.open /\ tty.orig[h] \in Tty!Settings /\ h # Tty!Nobody
      /\ tty.on[h] \notin tty.unsaved => tty.orig[h] = "first"
  BY DEF Tty!Record, TtyInv, TtyKnows, TtyConstants
<1>1. PICK term, termios :
        /\ tty' = [tty EXCEPT !.lock = Tty!Nobody, !.pc[h] = "set", !.orig_fd = term, !.orig_termios = termios]
        /\ \/ tty.orig_fd = Tty!Nobody /\ term = h /\ termios = tty.orig[h]
           \/ tty.orig_fd # Tty!Nobody /\ term = tty.orig_fd /\ termios = tty.orig_termios
  BY DEF Tty!Record, Tty!Records
<1>2. /\ DOMAIN tty' = TtyFields
      /\ tty'.on = tty.on /\ tty'.open = tty.open /\ tty'.gone = tty.gone /\ tty'.fake = tty.fake
      /\ tty'.mode = tty.mode /\ tty'.orig = tty.orig
      /\ tty'.pc = [tty.pc EXCEPT ![h] = "set"] /\ tty'.want = tty.want
      /\ tty'.set = tty.set /\ tty'.orig_fd = term /\ tty'.orig_termios = termios
      /\ tty'.lock = Tty!Nobody /\ tty'.leaked = tty.leaked /\ tty'.unsaved = tty.unsaved
  BY <1>1 DEF TtyInv, TtyFields
<1>3. TtyTyped'
  BY <1>0, <1>1, <1>2 DEF TtyInv, TtyTyped
<1>4. TtyKnows'
  BY <1>0, <1>2 DEF TtyInv, TtyTyped, TtyKnows
<1>5. TtyRecord'
  BY <1>0, <1>1, <1>2 DEF TtyInv, TtyRecord
<1>6. TtyChanged'
  BY <1>1, <1>2 DEF TtyInv, TtyChanged
<1> QED BY <1>2, <1>3, <1>4, <1>5, <1>6 DEF TtyInv

LEMMA TtySet ==
    ASSUME TtyConstants, TtyInv, NEW h \in Ttys, Tty!Set(h)
    PROVE  TtyInv'
<1>0. /\ tty.pc[h] = "set" /\ h \in tty.open /\ tty.orig[h] \in Tty!Settings /\ h # Tty!Nobody
      /\ tty.on[h] \in Terminals /\ tty.want[h] \in Tty!Modes
  BY DEF Tty!Set, TtyInv, TtyTyped, TtyKnows, TtyConstants
<1>1. CASE tty' = [tty EXCEPT !.pc[h] = "idle"]
  <2>1. /\ DOMAIN tty' = TtyFields
        /\ tty'.on = tty.on /\ tty'.open = tty.open /\ tty'.gone = tty.gone /\ tty'.fake = tty.fake
        /\ tty'.mode = tty.mode /\ tty'.orig = tty.orig
        /\ tty'.pc = [tty.pc EXCEPT ![h] = "idle"] /\ tty'.want = tty.want
        /\ tty'.set = tty.set /\ tty'.orig_fd = tty.orig_fd /\ tty'.orig_termios = tty.orig_termios
        /\ tty'.lock = tty.lock /\ tty'.leaked = tty.leaked /\ tty'.unsaved = tty.unsaved
    BY <1>1 DEF TtyInv, TtyFields
  <2>2. TtyTyped'
    BY <2>1 DEF TtyInv, TtyTyped
  <2>3. TtyKnows'
    BY <2>1 DEF TtyInv, TtyTyped, TtyKnows
  <2>4. TtyRecord' /\ TtyChanged'
    BY <2>1 DEF TtyInv, TtyRecord, TtyChanged
  <2> QED BY <2>1, <2>2, <2>3, <2>4 DEF TtyInv
<1>2. CASE \E unsaved :
             /\ tty' = [tty EXCEPT !.pc[h] = "idle", !.mode[h] = tty.want[h],
                                   !.set[tty.on[h]] = Tty!Made(h, tty.want[h]), !.unsaved = unsaved]
             /\ \/ tty.orig_fd = h /\ unsaved = tty.unsaved
                \/ tty.orig_fd # h /\ unsaved = tty.unsaved \union {tty.on[h]}
  <2>1. PICK unsaved :
             /\ tty' = [tty EXCEPT !.pc[h] = "idle", !.mode[h] = tty.want[h],
                                   !.set[tty.on[h]] = Tty!Made(h, tty.want[h]), !.unsaved = unsaved]
             /\ \/ tty.orig_fd = h /\ unsaved = tty.unsaved
                \/ tty.orig_fd # h /\ unsaved = tty.unsaved \union {tty.on[h]}
    BY <1>2
  <2>2. Tty!Made(h, tty.want[h]) \in Tty!Settings
    BY <1>0 DEF Tty!Made, Tty!Modes, Tty!Settings
  <2>3. /\ DOMAIN tty' = TtyFields
        /\ tty'.on = tty.on /\ tty'.open = tty.open /\ tty'.gone = tty.gone /\ tty'.fake = tty.fake
        /\ tty'.mode = [tty.mode EXCEPT ![h] = tty.want[h]] /\ tty'.orig = tty.orig
        /\ tty'.pc = [tty.pc EXCEPT ![h] = "idle"] /\ tty'.want = tty.want
        /\ tty'.set = [tty.set EXCEPT ![tty.on[h]] = Tty!Made(h, tty.want[h])]
        /\ tty'.orig_fd = tty.orig_fd /\ tty'.orig_termios = tty.orig_termios
        /\ tty'.lock = tty.lock /\ tty'.leaked = tty.leaked /\ tty'.unsaved = unsaved
    BY <2>1 DEF TtyInv, TtyFields
  <2>4. TtyTyped'
    BY <1>0, <2>2, <2>3 DEF TtyInv, TtyTyped
  <2>5. TtyKnows'
    BY <1>0, <2>1, <2>3 DEF TtyInv, TtyTyped, TtyKnows
  <2>6. TtyRecord'
    BY <1>0, <2>1, <2>3 DEF TtyInv, TtyRecord
  <2>7. TtyChanged'
    BY <1>0, <2>1, <2>3 DEF TtyInv, TtyTyped, TtyChanged
  <2> QED BY <2>3, <2>4, <2>5, <2>6, <2>7 DEF TtyInv
<1>3. PICK ok \in BOOLEAN :
        tty' = [tty EXCEPT !.pc[h] = "idle",
          !.mode[h] = IF ok THEN tty.want[h] ELSE @,
          !.set[tty.on[h]] = IF ok THEN Tty!Made(h, tty.want[h]) ELSE @,
          !.unsaved = IF ok /\ tty.orig_fd # h THEN @ \union {tty.on[h]} ELSE @]
  BY DEF Tty!Set
<1>4. CASE ok
  BY <1>2, <1>3, <1>4
<1>5. CASE ~ok
  <2>1. tty' = [tty EXCEPT !.pc[h] = "idle", !.mode[h] = @, !.set[tty.on[h]] = @, !.unsaved = @]
    BY <1>3, <1>5
  <2>2. tty.mode = [tty.mode EXCEPT ![h] = @] /\ tty.set = [tty.set EXCEPT ![tty.on[h]] = @]
    BY <1>0 DEF TtyInv, TtyTyped
  <2>3. tty' = [tty EXCEPT !.pc[h] = "idle"]
    BY <2>1, <2>2 DEF TtyInv, TtyFields
  <2> QED BY <1>1, <2>3
<1> QED BY <1>3, <1>4, <1>5

LEMMA TtyClose ==
    ASSUME TtyConstants, TtyInv, NEW h \in Ttys, Tty!Close(h)
    PROVE  TtyInv'
<1>0. h \in tty.open /\ tty.pc[h] = "idle" /\ tty.on[h] \in Terminals /\ h # Tty!Nobody
  BY DEF Tty!Close, Tty!Idle, TtyInv, TtyTyped, TtyConstants
<1>1. PICK term, now :
        /\ tty' = [tty EXCEPT !.open = @ \ {h}, !.gone = @ \union {h}, !.orig_fd = term, !.set[tty.on[h]] = now]
        /\ \/ tty.orig_fd = h /\ h \notin tty.fake /\ term = Tty!Nobody /\ now = tty.orig_termios
           \/ ~(tty.orig_fd = h /\ h \notin tty.fake) /\ term = tty.orig_fd /\ now = tty.set[tty.on[h]]
  BY DEF Tty!Close, Tty!FdAfter
<1>2. /\ DOMAIN tty' = TtyFields
      /\ tty'.on = tty.on /\ tty'.open = tty.open \ {h} /\ tty'.gone = tty.gone \union {h} /\ tty'.fake = tty.fake
      /\ tty'.mode = tty.mode /\ tty'.orig = tty.orig /\ tty'.pc = tty.pc /\ tty'.want = tty.want
      /\ tty'.set = [tty.set EXCEPT ![tty.on[h]] = now]
      /\ tty'.orig_fd = term /\ tty'.orig_termios = tty.orig_termios
      /\ tty'.lock = tty.lock /\ tty'.leaked = tty.leaked /\ tty'.unsaved = tty.unsaved
  BY <1>1 DEF TtyInv, TtyFields
<1>3. now \in Tty!Settings /\ term \in Ttys \union {Tty!Nobody}
  BY <1>0, <1>1 DEF TtyInv, TtyTyped, TtyRecord
<1>4. TtyTyped'
  BY <1>0, <1>2, <1>3 DEF TtyInv, TtyTyped
<1>5. TtyKnows'
  BY <1>0, <1>2 DEF TtyInv, TtyTyped, TtyKnows
<1>6. TtyRecord'
  BY <1>0, <1>1, <1>2 DEF TtyInv, TtyRecord
<1>7. TtyChanged'
  BY <1>0, <1>1, <1>2 DEF TtyInv, TtyTyped, TtyRecord, TtyChanged
<1> QED BY <1>2, <1>4, <1>5, <1>6, <1>7 DEF TtyInv

LEMMA TtyReset ==
    ASSUME TtyConstants, TtyInv, Tty!ResetMode
    PROVE  TtyInv'
<1>0. tty.orig_fd \in tty.open /\ tty.lock = Tty!Nobody /\ tty.orig_fd \in Ttys /\ tty.orig_fd # Tty!Nobody
  BY DEF Tty!ResetMode, Tty!LockFree, TtyInv, TtyTyped, TtyConstants
<1>1. PICK leaked : /\ tty' = [tty EXCEPT !.set[tty.on[tty.orig_fd]] = tty.orig_termios, !.leaked = leaked]
                    /\ leaked = tty.leaked
  BY <1>0 DEF Tty!ResetMode
<1>2. /\ DOMAIN tty' = TtyFields
      /\ tty'.on = tty.on /\ tty'.open = tty.open /\ tty'.gone = tty.gone /\ tty'.fake = tty.fake
      /\ tty'.mode = tty.mode /\ tty'.orig = tty.orig /\ tty'.pc = tty.pc /\ tty'.want = tty.want
      /\ tty'.set = [tty.set EXCEPT ![tty.on[tty.orig_fd]] = tty.orig_termios]
      /\ tty'.orig_fd = tty.orig_fd /\ tty'.orig_termios = tty.orig_termios
      /\ tty'.lock = tty.lock /\ tty'.leaked = tty.leaked /\ tty'.unsaved = tty.unsaved
  BY <1>1 DEF TtyInv, TtyFields
<1>3. TtyTyped'
  BY <1>0, <1>2 DEF TtyInv, TtyTyped, TtyRecord
<1>4. TtyKnows'
  BY <1>2 DEF TtyInv, TtyKnows
<1>5. TtyRecord'
  BY <1>2 DEF TtyInv, TtyRecord
<1>6. TtyChanged'
  BY <1>0, <1>2 DEF TtyInv, TtyTyped, TtyRecord, TtyChanged
<1> QED BY <1>2, <1>3, <1>4, <1>5, <1>6 DEF TtyInv

LEMMA TtyStep == ASSUME TtyConstants, TtyInv, Tty!Next PROVE TtyInv'
  BY TtyOpen, TtySetMode, TtyLock, TtyRecorded, TtySet, TtyClose, TtyReset DEF Tty!Next

LEMMA TtyKeeps ==
    ASSUME TtyConstants, TtyInv
    PROVE  Tty!TypeOK /\ Tty!NoStaleEvent /\ Tty!ClosedIsClean /\ Tty!AssertsHold
<1>1. Tty!TypeOK /\ Tty!AssertsHold
  BY DEF TtyInv, TtyTyped, Tty!TypeOK, Tty!AssertsHold
<1>2. Tty!NoStaleEvent
  BY DEF TtyInv, TtyRecord, Tty!NoStaleEvent
<1>3. ASSUME NEW t \in Terminals \ tty.unsaved,
             \A h \in Ttys : tty.on[h] = t => h \in tty.gone \ tty.fake
      PROVE  tty.set[t] = "first"
  <2>1. CASE tty.set[t] # "first"
    <3>1. tty.orig_fd \in Ttys /\ tty.orig_fd # Tty!Nobody /\ tty.on[tty.orig_fd] = t
      BY <2>1 DEF TtyInv, TtyTyped, TtyChanged
    <3>2. tty.orig_fd \in tty.gone /\ tty.orig_fd \in tty.open
      BY <1>3, <3>1 DEF TtyInv, TtyRecord
    <3> QED BY <3>2 DEF TtyInv, TtyTyped
  <2> QED BY <2>1
<1>4. Tty!ClosedIsClean
  BY <1>3 DEF Tty!ClosedIsClean
<1> QED BY <1>1, <1>2, <1>4

LEMMA TtyChanges ==
    ASSUME TtyConstants, TtyInv, [Tty!Next]_tty
    PROVE  TtyInv'
<1>1. CASE Tty!Next
  BY <1>1, TtyStep
<1>2. CASE UNCHANGED tty
  BY <1>2 DEF TtyInv, TtyChanged, TtyKnows, TtyRecord, TtyTyped
<1> QED BY <1>1, <1>2

\* Terminals, for any handles on any terminals: a handle knows the mode it set, the record for
\* uv_tty_reset_mode is of a terminal as it was found and is held under its lock, and a closed
\* handle leaves nothing.
THEOREM TtyCorrect ==
    ASSUME TtyConstants
    PROVE  Tty!Spec => [](Tty!TypeOK /\ Tty!NoStaleEvent /\ Tty!ClosedIsClean /\ Tty!AssertsHold)
<1>1. ASSUME Tty!Init PROVE TtyInv
  BY <1>1, TtyBegins
<1>2. ASSUME TtyInv, [Tty!Next]_tty PROVE TtyInv'
  BY <1>2, TtyChanges
<1>3. TtyInv => Tty!TypeOK /\ Tty!NoStaleEvent /\ Tty!ClosedIsClean /\ Tty!AssertsHold
  BY TtyKeeps
<1> QED BY <1>1, <1>2, <1>3, PTL DEF Tty!Spec

-----------------------------------------------------------------------------
(* Descriptors *)

DesFields == {"helper", "steps", "open", "exec", "non", "result", "lock", "children", "others",
              "fd", "flags", "set", "listed"}

DesKinds == {"make", "atomic", "exec", "non", "lock", "unlock"}
DesMakes == {"make", "atomic"}
DesExecs == {"exec", "atomic"}

\* The ends that the first k steps of h treat in one of these ways; whether they leave the lock held.
DesUpto(h, k, kinds) == {e \in Descriptors!Ends : \E i \in 1..k : h[i][1] \in kinds /\ e \in h[i][2]}
DesLocked(h, k) == \E i \in 1..k : h[i][1] = "lock" /\ \A j \in i..k : h[j][1] # "unlock"

\* A helper makes descriptors once, and what it makes it sets up; it gives back the lock.
DesShape(h) ==
    /\ h \in Seq(DesKinds \X SUBSET Descriptors!Ends) /\ Len(h) \in 1..5
    /\ \A i, j \in 1..Len(h) : h[i][1] \in DesMakes /\ h[j][1] \in DesMakes => i = j
    /\ DesUpto(h, Len(h), DesMakes) # {} /\ DesUpto(h, Len(h), DesMakes) \subseteq DesUpto(h, Len(h), DesExecs)
    /\ ~DesLocked(h, Len(h))
    /\ h = Descriptors!Mkstemp => \A k \in 0..Len(h) : DesLocked(h, k) \/ DesUpto(h, k, DesMakes) \subseteq DesUpto(h, k, DesExecs)
    /\ h = Descriptors!OpenCloexec => \A k \in 0..Len(h) : DesUpto(h, k, DesMakes) \subseteq DesUpto(h, k, DesExecs)

\* The thread has done k steps of its helper.
DesDid(k) ==
    /\ Len(des.steps) = Len(des.helper) - k
    /\ \A i \in 1..Len(des.steps) : des.steps[i] = des.helper[k + i]
    /\ des.open = DesUpto(des.helper, k, DesMakes) /\ des.exec = DesUpto(des.helper, k, DesExecs)
    /\ des.non = DesUpto(des.helper, k, {"non"}) /\ (des.lock <=> DesLocked(des.helper, k))

DesTyped ==
    /\ des.helper \in Descriptors!Helpers /\ des.steps \in Seq(DesKinds \X SUBSET Descriptors!Ends)
    /\ des.result \in {"none", "given", "failed"} /\ des.exec \subseteq Descriptors!Ends
    /\ des.flags \subseteq Descriptors!Options /\ des.fd \in BOOLEAN

DesDone ==
    /\ des.result = "none" => \E k \in 0..Len(des.helper) : k < Len(des.helper) /\ DesDid(k)
    /\ des.result = "given" => DesDid(Len(des.helper))
    /\ des.result = "failed" => des.open = {} /\ des.lock = FALSE

DesInherited ==
    /\ des.helper \in {Descriptors!Mkstemp, Descriptors!OpenCloexec} => des.children = {}
    /\ des.helper = Descriptors!OpenCloexec => des.others = {}

DesOptions == des.fd => des.set = des.flags

DesInv == DOMAIN des = DesFields /\ DesTyped /\ DesDone /\ DesInherited /\ DesOptions

\* What a step adds.
LEMMA DesMore ==
    ASSUME NEW h \in Seq(DesKinds \X SUBSET Descriptors!Ends), NEW k \in 0..Len(h), k < Len(h), NEW kinds
    PROVE  /\ DesUpto(h, k + 1, kinds) =
                IF h[k + 1][1] \in kinds THEN DesUpto(h, k, kinds) \union h[k + 1][2] ELSE DesUpto(h, k, kinds)
           /\ DesLocked(h, k + 1) <=> (DesLocked(h, k) \/ h[k + 1][1] = "lock") /\ h[k + 1][1] # "unlock"
<1>1. k \in Nat /\ k + 1 \in 1..Len(h) /\ h[k + 1] \in DesKinds \X SUBSET Descriptors!Ends
  OBVIOUS
<1>2. h[k + 1][2] \subseteq Descriptors!Ends
  BY <1>1
<1>3. \A i : i \in 1..k + 1 <=> i \in 1..k \/ i = k + 1
  BY <1>1
<1>4. \A e \in Descriptors!Ends : (\E i \in 1..k + 1 : h[i][1] \in kinds /\ e \in h[i][2]) <=>
                      \/ \E i \in 1..k : h[i][1] \in kinds /\ e \in h[i][2]
                      \/ h[k + 1][1] \in kinds /\ e \in h[k + 1][2]
  BY <1>3
<1>5. DesUpto(h, k + 1, kinds) =
          IF h[k + 1][1] \in kinds THEN DesUpto(h, k, kinds) \union h[k + 1][2] ELSE DesUpto(h, k, kinds)
  BY <1>2, <1>4 DEF DesUpto
<1>6. DesLocked(h, k + 1) => (DesLocked(h, k) \/ h[k + 1][1] = "lock") /\ h[k + 1][1] # "unlock"
  <2>1. ASSUME NEW i \in 1..k + 1, h[i][1] = "lock", \A j \in i..k + 1 : h[j][1] # "unlock"
        PROVE  (DesLocked(h, k) \/ h[k + 1][1] = "lock") /\ h[k + 1][1] # "unlock"
    <3>1. k + 1 \in i..k + 1 /\ \A j \in i..k : j \in i..k + 1
      BY <1>1, <2>1
    <3> QED BY <1>3, <2>1, <3>1 DEF DesLocked
  <2> QED BY <2>1 DEF DesLocked
<1>7. ASSUME DesLocked(h, k) \/ h[k + 1][1] = "lock", h[k + 1][1] # "unlock" PROVE DesLocked(h, k + 1)
  <2>1. CASE h[k + 1][1] = "lock"
    <3>1. \A j \in k + 1..k + 1 : j = k + 1
      BY <1>1
    <3> QED BY <1>1, <1>7, <1>3, <2>1, <3>1 DEF DesLocked
  <2>2. ASSUME NEW i \in 1..k, h[i][1] = "lock", \A j \in i..k : h[j][1] # "unlock"
        PROVE  DesLocked(h, k + 1)
    <3>1. \A j \in i..k + 1 : j \in i..k \/ j = k + 1
      BY <1>1
    <3> QED BY <1>3, <1>7, <2>2, <3>1 DEF DesLocked
  <2> QED BY <1>7, <2>1, <2>2 DEF DesLocked
<1> QED BY <1>5, <1>6, <1>7

\* A helper that begins by making descriptors and then sets each of them up.
LEMMA DesPlain ==
    ASSUME NEW h \in Seq(DesKinds \X SUBSET Descriptors!Ends), Len(h) \in 1..5,
           NEW M \in SUBSET Descriptors!Ends, M # {}, h[1] = <<"make", M>>,
           \A i \in 2..Len(h) : h[i][1] \in {"exec", "non"},
           \A e \in M : \E i \in 2..Len(h) : h[i] = <<"exec", {e}>>
    PROVE  DesShape(h)
<1>1. \A i \in 1..Len(h) : i = 1 \/ i \in 2..Len(h)
  OBVIOUS
<1>2. 1 \in 1..Len(h) /\ \A i \in 2..Len(h) : i \in 1..Len(h)
  OBVIOUS
<1>3. \A i \in 1..Len(h) : h[i][1] # "lock" /\ (h[i][1] \in DesMakes => i = 1)
  BY <1>1 DEF DesMakes
<1>4. \A i, j \in 1..Len(h) : h[i][1] \in DesMakes /\ h[j][1] \in DesMakes => i = j
  BY <1>3
<1>5. M \subseteq DesUpto(h, Len(h), DesMakes)
  BY <1>2 DEF DesUpto, DesMakes
<1>6. DesUpto(h, Len(h), DesMakes) \subseteq M
  BY <1>3 DEF DesUpto
<1>7. M \subseteq DesUpto(h, Len(h), DesExecs)
  <2>1. ASSUME NEW e \in M PROVE e \in DesUpto(h, Len(h), DesExecs)
    <3>1. PICK i \in 2..Len(h) : h[i] = <<"exec", {e}>>
      OBVIOUS
    <3>2. h[i][1] = "exec" /\ e \in h[i][2] /\ i \in 1..Len(h)
      BY <1>2, <3>1
    <3> QED BY <3>2 DEF DesUpto, DesExecs
  <2> QED BY <2>1
<1>8. ~DesLocked(h, Len(h))
  BY <1>3 DEF DesLocked
<1>9. h # Descriptors!Mkstemp /\ h # Descriptors!OpenCloexec
  <2>1. h[1][1] = "make" /\ Descriptors!Mkstemp[1][1] = "lock" /\ Descriptors!OpenCloexec[1][1] = "atomic"
    BY DEF Descriptors!Mkstemp, Descriptors!OpenCloexec
  <2> QED BY <2>1
<1> QED BY <1>4, <1>5, <1>6, <1>7, <1>8, <1>9 DEF DesShape

LEMMA DesPair == ASSUME NEW nonblocking \in SUBSET Descriptors!Ends PROVE DesShape(Descriptors!Pair(nonblocking))
<1> DEFINE S == DesKinds \X SUBSET Descriptors!Ends
<1> DEFINE P == <<<<"make", {1, 2}>>, <<"exec", {1}>>, <<"exec", {2}>>>>
<1> DEFINE A == IF 1 \in nonblocking THEN <<<<"non", {1}>>>> ELSE <<>>
<1> DEFINE B == IF 2 \in nonblocking THEN <<<<"non", {2}>>>> ELSE <<>>
<1> DEFINE h == (P \o A) \o B
<1>1. Descriptors!Pair(nonblocking) = h
  BY DEF Descriptors!Pair
<1>2. P \in Seq(S) /\ Len(P) = 3 /\ P[1] = <<"make", {1, 2}>> /\ P[2] = <<"exec", {1}>> /\ P[3] = <<"exec", {2}>>
  BY DEF DesKinds, Descriptors!Ends
<1>3. A \in Seq(S) /\ Len(A) \in 0..1 /\ \A i \in 1..Len(A) : A[i][1] = "non"
  <2>1. <<<<"non", {1}>>>> \in Seq(S) /\ Len(<<<<"non", {1}>>>>) = 1 /\ <<<<"non", {1}>>>>[1] = <<"non", {1}>>
    BY DEF DesKinds, Descriptors!Ends
  <2>2. <<>> \in Seq(S) /\ Len(<<>>) = 0
    OBVIOUS
  <2> QED BY <2>1, <2>2
<1>4. B \in Seq(S) /\ Len(B) \in 0..1 /\ \A i \in 1..Len(B) : B[i][1] = "non"
  <2>1. <<<<"non", {2}>>>> \in Seq(S) /\ Len(<<<<"non", {2}>>>>) = 1 /\ <<<<"non", {2}>>>>[1] = <<"non", {2}>>
    BY DEF DesKinds, Descriptors!Ends
  <2>2. <<>> \in Seq(S) /\ Len(<<>>) = 0
    OBVIOUS
  <2> QED BY <2>1, <2>2
<1> HIDE DEF P, A, B
<1>5. /\ P \o A \in Seq(S) /\ Len(P \o A) = 3 + Len(A)
      /\ (P \o A)[1] = P[1] /\ (P \o A)[2] = P[2] /\ (P \o A)[3] = P[3]
      /\ \A i \in 4..3 + Len(A) : (P \o A)[i][1] = "non"
  <2>1. /\ P \o A \in Seq(S) /\ Len(P \o A) = Len(P) + Len(A)
        /\ \A i \in 1..Len(P) + Len(A) : (P \o A)[i] = IF i <= Len(P) THEN P[i] ELSE A[i - Len(P)]
    BY <1>2, <1>3, ConcatProperties, ZenonT(40)
  <2>2. Len(P) = 3 /\ Len(A) \in Nat
    BY <1>2, <1>3
  <2>3. \A i \in 1..3 : i \in 1..3 + Len(A) /\ i <= 3
    BY <2>2
  <2>4. \A i \in 4..3 + Len(A) : i \in 1..3 + Len(A) /\ ~(i <= 3) /\ i - 3 \in 1..Len(A)
    BY <2>2
  <2> QED BY <1>3, <2>1, <2>2, <2>3, <2>4
<1>6. /\ h \in Seq(S) /\ Len(h) = 3 + Len(A) + Len(B)
      /\ h[1] = P[1] /\ h[2] = P[2] /\ h[3] = P[3]
      /\ \A i \in 4..3 + Len(A) + Len(B) : h[i][1] = "non"
  <2>1. /\ h \in Seq(S) /\ Len(h) = Len(P \o A) + Len(B)
        /\ \A i \in 1..Len(P \o A) + Len(B) :
              h[i] = IF i <= Len(P \o A) THEN (P \o A)[i] ELSE B[i - Len(P \o A)]
    BY <1>4, <1>5, ConcatProperties
  <2>2. Len(P \o A) = 3 + Len(A) /\ Len(A) \in Nat /\ Len(B) \in Nat
    BY <1>3, <1>4, <1>5
  <2>3. \A i \in 1..3 : i \in 1..3 + Len(A) + Len(B) /\ i <= 3 + Len(A)
    BY <2>2
  <2>4. \A i \in 4..3 + Len(A) + Len(B) : /\ i \in 1..3 + Len(A) + Len(B)
                                          /\ i \in 4..3 + Len(A) \/ (~(i <= 3 + Len(A)) /\ i - (3 + Len(A)) \in 1..Len(B))
    BY <2>2
  <2>5. \A i \in 4..3 + Len(A) : i <= 3 + Len(A)
    BY <2>2
  <2> QED BY <1>4, <1>5, <2>1, <2>2, <2>3, <2>4, <2>5
<1>7. Len(h) \in 3..5 /\ \A i \in 2..Len(h) : i = 2 \/ i = 3 \/ i \in 4..Len(h)
  BY <1>3, <1>4, <1>6
<1>8. \A i \in 2..Len(h) : h[i][1] \in {"exec", "non"}
  BY <1>2, <1>6, <1>7
<1>9. \A e \in {1, 2} : \E i \in 2..Len(h) : h[i] = <<"exec", {e}>>
  BY <1>2, <1>6, <1>7
<1>10. {1, 2} \in SUBSET Descriptors!Ends /\ {1, 2} # {} /\ Len(h) \in 1..5 /\ h[1] = <<"make", {1, 2}>>
  BY <1>2, <1>6, <1>7 DEF Descriptors!Ends
<1> HIDE DEF h
<1>11. DesShape(h)
  BY <1>6, <1>8, <1>9, <1>10, DesPlain
<1> QED BY <1>1, <1>11

\* Each of the helpers is of this shape.
LEMMA DesHelpers == \A h \in Descriptors!Helpers : DesShape(h)
<1> DEFINE S == DesKinds \X SUBSET Descriptors!Ends
<1>1. DesShape(Descriptors!OpenCloexec)
  <2>1. Descriptors!OpenCloexec \in Seq(S) /\ Len(Descriptors!OpenCloexec) = 1 /\ Descriptors!OpenCloexec[1] = <<"atomic", {1}>>
    BY DEF Descriptors!OpenCloexec, DesKinds, Descriptors!Ends
  <2>2. Descriptors!OpenCloexec # Descriptors!Mkstemp
    <3>1. Descriptors!Mkstemp[1][1] = "lock" /\ Descriptors!OpenCloexec[1][1] = "atomic"
      BY <2>1 DEF Descriptors!Mkstemp
    <3> QED BY <3>1
  <2>3. \A i \in 1..1 : i = 1
    OBVIOUS
  <2>4. DesUpto(Descriptors!OpenCloexec, 1, DesMakes) = {1} /\ DesUpto(Descriptors!OpenCloexec, 1, DesExecs) = {1} /\ ~DesLocked(Descriptors!OpenCloexec, 1)
    BY <2>1, <2>3 DEF DesUpto, DesMakes, DesExecs, DesLocked, Descriptors!Ends
  <2>5. DesUpto(Descriptors!OpenCloexec, 0, DesMakes) = {}
    BY DEF DesUpto
  <2>6. \A k \in 0..1 : DesUpto(Descriptors!OpenCloexec, k, DesMakes) \subseteq DesUpto(Descriptors!OpenCloexec, k, DesExecs)
    <3>1. \A k \in 0..1 : k = 0 \/ k = 1
      OBVIOUS
    <3> QED BY <2>4, <2>5, <3>1
  <2>7. /\ \A i, j \in 1..1 : i = j
        /\ DesUpto(Descriptors!OpenCloexec, 1, DesMakes) # {}
        /\ DesUpto(Descriptors!OpenCloexec, 1, DesMakes) \subseteq DesUpto(Descriptors!OpenCloexec, 1, DesExecs)
        /\ ~DesLocked(Descriptors!OpenCloexec, 1) /\ 1 \in 1..5
    BY <2>3, <2>4
  <2> QED BY ONLY <2>1, <2>2, <2>6, <2>7 DEF DesShape
<1>2. DesShape(Descriptors!Mkstemp)
  <2>1. /\ Descriptors!Mkstemp \in Seq(S) /\ Len(Descriptors!Mkstemp) = 4 /\ Descriptors!Mkstemp[1] = <<"lock", {}>> /\ Descriptors!Mkstemp[2] = <<"make", {1}>>
        /\ Descriptors!Mkstemp[3] = <<"exec", {1}>> /\ Descriptors!Mkstemp[4] = <<"unlock", {}>>
    BY DEF Descriptors!Mkstemp, DesKinds, Descriptors!Ends
  <2>2. Descriptors!Mkstemp # Descriptors!OpenCloexec
    <3>1. Len(Descriptors!OpenCloexec) = 1
      BY DEF Descriptors!OpenCloexec
    <3>2. Len(Descriptors!Mkstemp) = 4
      BY <2>1
    <3> QED BY ONLY <3>1, <3>2
  <2>3. \A i \in 1..4 : i = 1 \/ i = 2 \/ i = 3 \/ i = 4
    OBVIOUS
  <2>4. \A i \in 1..4 : Descriptors!Mkstemp[i][1] \in DesMakes <=> i = 2
    BY <2>1, <2>3 DEF DesMakes
  <2>5. \A k \in 0..4 : DesUpto(Descriptors!Mkstemp, k, DesMakes) \subseteq {1}
    BY <2>1, <2>4 DEF DesUpto
  <2>6. 1 \in DesUpto(Descriptors!Mkstemp, 4, DesMakes) /\ 1 \in DesUpto(Descriptors!Mkstemp, 4, DesExecs)
    BY <2>1, <2>4 DEF DesUpto, DesExecs, Descriptors!Ends
  <2>7. ~DesLocked(Descriptors!Mkstemp, 4)
    BY <2>1, <2>3 DEF DesLocked
  <2>8. DesUpto(Descriptors!Mkstemp, 0, DesMakes) = {}
    BY DEF DesUpto
  <2>9. DesLocked(Descriptors!Mkstemp, 1) /\ DesLocked(Descriptors!Mkstemp, 2) /\ DesLocked(Descriptors!Mkstemp, 3)
    <3>1. \A k \in 1..3 : \A j \in 1..k : Descriptors!Mkstemp[j][1] # "unlock"
      <4>1. \A k \in 1..3 : \A j \in 1..k : j = 1 \/ j = 2 \/ j = 3
        OBVIOUS
      <4> QED BY <2>1, <4>1
    <3>2. Descriptors!Mkstemp[1][1] = "lock" /\ \A k \in 1..3 : 1 \in 1..k
      BY <2>1
    <3> QED BY <3>1, <3>2 DEF DesLocked
  <2>10. \A k \in 0..4 : DesLocked(Descriptors!Mkstemp, k) \/ DesUpto(Descriptors!Mkstemp, k, DesMakes) \subseteq DesUpto(Descriptors!Mkstemp, k, DesExecs)
    <3>1. \A k \in 0..4 : k = 0 \/ k = 1 \/ k = 2 \/ k = 3 \/ k = 4
      OBVIOUS
    <3> QED BY <2>5, <2>6, <2>8, <2>9, <3>1
  <2>11. \A i, j \in 1..4 : Descriptors!Mkstemp[i][1] \in DesMakes /\ Descriptors!Mkstemp[j][1] \in DesMakes => i = j
    BY <2>4
  <2>12. DesUpto(Descriptors!Mkstemp, 4, DesMakes) # {} /\ DesUpto(Descriptors!Mkstemp, 4, DesMakes) \subseteq DesUpto(Descriptors!Mkstemp, 4, DesExecs)
    BY <2>5, <2>6
  <2> QED BY <2>1, <2>2, <2>7, <2>10, <2>11, <2>12 DEF DesShape
<1>3. ASSUME NEW h \in {Descriptors!Socket, Descriptors!Accept1, Descriptors!Dup2} PROVE DesShape(h)
  <2>1. /\ h \in Seq(S) /\ Len(h) \in 2..3 /\ h[1] = <<"make", {1}>>
        /\ \A i \in 2..Len(h) : h[i][1] \in {"exec", "non"}
        /\ \E i \in 2..Len(h) : h[i] = <<"exec", {1}>>
    <3>1. CASE h = Descriptors!Socket
      <4>1. Descriptors!Socket \in Seq(S) /\ Len(Descriptors!Socket) = 3 /\ Descriptors!Socket[1] = <<"make", {1}>> /\ Descriptors!Socket[2] = <<"non", {1}>> /\ Descriptors!Socket[3] = <<"exec", {1}>>
        BY DEF Descriptors!Socket, DesKinds, Descriptors!Ends
      <4>2. \A i \in 2..3 : i = 2 \/ i = 3
        OBVIOUS
      <4> QED BY <3>1, <4>1, <4>2
    <3>2. CASE h = Descriptors!Accept1
      <4>1. Descriptors!Accept1 \in Seq(S) /\ Len(Descriptors!Accept1) = 3 /\ Descriptors!Accept1[1] = <<"make", {1}>> /\ Descriptors!Accept1[2] = <<"exec", {1}>> /\ Descriptors!Accept1[3] = <<"non", {1}>>
        BY DEF Descriptors!Accept1, DesKinds, Descriptors!Ends
      <4>2. \A i \in 2..3 : i = 2 \/ i = 3
        OBVIOUS
      <4> QED BY <3>2, <4>1, <4>2
    <3>3. CASE h = Descriptors!Dup2
      <4>1. Descriptors!Dup2 \in Seq(S) /\ Len(Descriptors!Dup2) = 2 /\ Descriptors!Dup2[1] = <<"make", {1}>> /\ Descriptors!Dup2[2] = <<"exec", {1}>>
        BY DEF Descriptors!Dup2, DesKinds, Descriptors!Ends
      <4>2. \A i \in 2..2 : i = 2
        OBVIOUS
      <4> QED BY <3>3, <4>1, <4>2
    <3> QED BY <3>1, <3>2, <3>3
  <2>2. {1} \in SUBSET Descriptors!Ends /\ {1} # {} /\ Len(h) \in 1..5 /\ \A e \in {1} : \E i \in 2..Len(h) : h[i] = <<"exec", {e}>>
    BY <2>1 DEF Descriptors!Ends
  <2> QED BY <2>1, <2>2, DesPlain
<1> QED BY <1>1, <1>2, <1>3, DesPair DEF Descriptors!Helpers

LEMMA DesBegins == ASSUME Descriptors!Init PROVE DesInv
<1>1. PICK helper \in Descriptors!Helpers : des =
        [helper |-> helper, steps |-> helper, open |-> {}, exec |-> {}, non |-> {}, result |-> "none",
         lock |-> FALSE, children |-> {}, others |-> {},
         fd |-> FALSE, flags |-> {}, set |-> {}, listed |-> FALSE]
  BY DEF Descriptors!Init
<1>2. helper \in Seq(DesKinds \X SUBSET Descriptors!Ends) /\ Len(helper) \in 1..5
  BY <1>1, DesHelpers DEF DesShape
<1>3. \A kinds : DesUpto(helper, 0, kinds) = {}
  BY DEF DesUpto
<1>4. ~DesLocked(helper, 0)
  BY DEF DesLocked
<1>5. DesDid(0)
  <2>1. Len(helper) = Len(helper) - 0 /\ \A i \in 1..Len(helper) : 0 + i = i
    BY <1>2
  <2>2. des.steps = helper /\ des.helper = helper /\ des.open = {} /\ des.exec = {} /\ des.non = {} /\ des.lock = FALSE
    BY <1>1
  <2>3. /\ Len(des.steps) = Len(des.helper) - 0
        /\ \A i \in 1..Len(des.steps) : des.steps[i] = des.helper[0 + i]
    BY <2>1, <2>2
  <2>4. ~des.lock /\ ~DesLocked(des.helper, 0)
    BY <1>4, <2>2
  <2> QED BY <1>3, <2>2, <2>3, <2>4 DEF DesDid
<1>6. DesDone
  <2>1. 0 \in 0..Len(helper) /\ 0 < Len(helper) /\ des.helper = helper /\ des.result = "none"
    <3>1. 0 \in 0..Len(helper) /\ 0 < Len(helper)
      BY <1>2
    <3> QED BY <1>1, <3>1
  <2> QED BY <1>5, <2>1 DEF DesDone
<1>7. DOMAIN des = DesFields /\ DesTyped /\ DesInherited /\ DesOptions
  BY <1>1, <1>2 DEF DesFields, DesTyped, DesInherited, DesOptions
<1> QED BY <1>6, <1>7 DEF DesInv

LEMMA DesTail ==
    ASSUME des.helper \in Seq(DesKinds \X SUBSET Descriptors!Ends), des.steps \in Seq(DesKinds \X SUBSET Descriptors!Ends),
           des.steps # <<>>, NEW k \in 0..Len(des.helper), Len(des.steps) = Len(des.helper) - k,
           \A i \in 1..Len(des.steps) : des.steps[i] = des.helper[k + i]
    PROVE  /\ Head(des.steps) = des.helper[k + 1] /\ Len(Tail(des.steps)) = Len(des.helper) - (k + 1)
           /\ Tail(des.steps) \in Seq(DesKinds \X SUBSET Descriptors!Ends)
           /\ \A i \in 1..Len(Tail(des.steps)) : Tail(des.steps)[i] = des.helper[(k + 1) + i]
<1> DEFINE s == des.steps
<1>1. /\ Tail(s) \in Seq(DesKinds \X SUBSET Descriptors!Ends) /\ Len(Tail(s)) = Len(s) - 1
      /\ \A i \in 1..Len(Tail(s)) : Tail(s)[i] = s[i + 1]
  BY HeadTailProperties
<1>2. Len(s) \in Nat /\ Len(des.helper) \in Nat /\ k \in Nat /\ Len(s) > 0 /\ Head(s) = s[1]
  BY EmptySeq, LenProperties
<1>3. 1 \in 1..Len(s) /\ Len(Tail(s)) = Len(des.helper) - (k + 1)
  BY <1>1, <1>2
<1>4. \A i \in 1..Len(s) - 1 : i + 1 \in 1..Len(s) /\ k + (i + 1) = (k + 1) + i
  BY <1>2
<1> QED BY <1>1, <1>2, <1>3, <1>4

\* One step of a helper that does it.
LEMMA DesStepDone ==
    ASSUME DesInv, des.result = "none", des.steps # <<>>,
           des' = [des EXCEPT !.steps = Tail(des.steps),
                   !.open = IF Head(des.steps)[1] \in {"make", "atomic"} THEN Head(des.steps)[2] ELSE @,
                   !.exec = IF Head(des.steps)[1] \in {"exec", "atomic"} THEN @ \union Head(des.steps)[2] ELSE @,
                   !.non = IF Head(des.steps)[1] = "non" THEN @ \union Head(des.steps)[2] ELSE @,
                   !.lock = (@ \/ Head(des.steps)[1] = "lock") /\ Head(des.steps)[1] # "unlock",
                   !.result = IF Tail(des.steps) = <<>> THEN "given" ELSE @]
    PROVE  DesInv'
<1> DEFINE next == Head(des.steps)
<1> DEFINE rest == Tail(des.steps)
<1> DEFINE result == IF rest = <<>> THEN "given" ELSE "none"
<1> DEFINE h == des.helper
<1>1. DesShape(h) /\ h \in Seq(DesKinds \X SUBSET Descriptors!Ends) /\ Len(h) \in 1..5
  BY DesHelpers DEF DesInv, DesTyped, DesShape
<1>2. PICK k \in 0..Len(h) : k < Len(h) /\ DesDid(k)
  BY DEF DesInv, DesDone
<1>3. /\ next = h[k + 1] /\ Len(rest) = Len(h) - (k + 1) /\ rest \in Seq(DesKinds \X SUBSET Descriptors!Ends)
      /\ \A i \in 1..Len(rest) : rest[i] = h[(k + 1) + i]
  <2>1. /\ des.steps \in Seq(DesKinds \X SUBSET Descriptors!Ends) /\ Len(des.steps) = Len(h) - k
        /\ \A i \in 1..Len(des.steps) : des.steps[i] = h[k + i]
    BY <1>2 DEF DesInv, DesTyped, DesDid
  <2>2. /\ des.helper \in Seq(DesKinds \X SUBSET Descriptors!Ends) /\ k \in 0..Len(des.helper)
        /\ des.steps \in Seq(DesKinds \X SUBSET Descriptors!Ends) /\ des.steps # <<>>
        /\ Len(des.steps) = Len(des.helper) - k
        /\ \A i \in 1..Len(des.steps) : des.steps[i] = des.helper[k + i]
    BY <1>1, <2>1
  <2>3. /\ Head(des.steps) = des.helper[k + 1] /\ Len(Tail(des.steps)) = Len(des.helper) - (k + 1)
        /\ Tail(des.steps) \in Seq(DesKinds \X SUBSET Descriptors!Ends)
        /\ \A i \in 1..Len(Tail(des.steps)) : Tail(des.steps)[i] = des.helper[(k + 1) + i]
    BY ONLY <2>2, DesTail
  <2> QED BY <2>3
<1>4. next[2] \subseteq Descriptors!Ends /\ next[1] \in DesKinds
  BY <1>1, <1>2, <1>3
<1>5. /\ DOMAIN des' = DesFields /\ des'.helper = h /\ des'.steps = rest
      /\ des'.open = IF next[1] \in {"make", "atomic"} THEN next[2] ELSE des.open
      /\ des'.exec = IF next[1] \in {"exec", "atomic"} THEN des.exec \union next[2] ELSE des.exec
      /\ des'.non = IF next[1] = "non" THEN des.non \union next[2] ELSE des.non
      /\ des'.lock = ((des.lock \/ next[1] = "lock") /\ next[1] # "unlock")
      /\ des'.result = result
      /\ des'.children = des.children /\ des'.others = des.others
      /\ des'.fd = des.fd /\ des'.flags = des.flags /\ des'.set = des.set
  BY DEF DesInv, DesFields
<1> HIDE DEF next, rest, result
<1>6. k + 1 \in 0..Len(h) /\ k + 1 \in 1..Len(h) /\ k \in 0..Len(h)
  BY <1>1, <1>2
<1>7. /\ \A kinds \in {DesMakes, DesExecs, {"non"}} : DesUpto(h, k + 1, kinds) =
                IF h[k + 1][1] \in kinds THEN DesUpto(h, k, kinds) \union h[k + 1][2] ELSE DesUpto(h, k, kinds)
      /\ DesLocked(h, k + 1) <=> (DesLocked(h, k) \/ h[k + 1][1] = "lock") /\ h[k + 1][1] # "unlock"
  <2>1. h \in Seq(DesKinds \X SUBSET Descriptors!Ends) /\ k \in 0..Len(h) /\ k < Len(h)
    BY <1>1, <1>2
  <2> HIDE DEF h
  <2>2. ASSUME NEW kinds
        PROVE  /\ DesUpto(h, k + 1, kinds) =
                     IF h[k + 1][1] \in kinds THEN DesUpto(h, k, kinds) \union h[k + 1][2] ELSE DesUpto(h, k, kinds)
               /\ DesLocked(h, k + 1) <=> (DesLocked(h, k) \/ h[k + 1][1] = "lock") /\ h[k + 1][1] # "unlock"
    BY ONLY <2>1, DesMore
  <2> QED BY ONLY <2>2
<1>8. next[1] \in DesMakes => DesUpto(h, k, DesMakes) = {}
  <2>1. ASSUME next[1] \in DesMakes, NEW i \in 1..k PROVE h[i][1] \notin DesMakes
    <3>1. i \in 1..Len(h) /\ i # k + 1
      BY <1>1, <1>2
    <3> QED BY <1>1, <1>3, <1>6, <2>1, <3>1 DEF DesShape
  <2> QED BY <2>1 DEF DesUpto
<1>9. DesDid(k + 1)'
  <2>1. des.open = DesUpto(h, k, DesMakes) /\ des.exec = DesUpto(h, k, DesExecs) /\ des.non = DesUpto(h, k, {"non"})
        /\ (des.lock <=> DesLocked(h, k))
    BY <1>2 DEF DesDid
  <2>2. des'.open = DesUpto(h, k + 1, DesMakes)
    <3>1. next[1] = h[k + 1][1] /\ next[2] = h[k + 1][2]
      BY <1>3
    <3>2. des'.open = IF next[1] \in DesMakes THEN next[2] ELSE des.open
      BY ONLY <1>5 DEF DesMakes
    <3>3. DesUpto(h, k + 1, DesMakes) = IF h[k + 1][1] \in DesMakes THEN DesUpto(h, k, DesMakes) \union h[k + 1][2]
                                        ELSE DesUpto(h, k, DesMakes)
      BY ONLY <1>7
    <3> HIDE DEF h
    <3> QED BY ONLY <1>8, <2>1, <3>1, <3>2, <3>3
  <2>3. des'.exec = DesUpto(h, k + 1, DesExecs)
    BY <1>3, <1>5, <1>7, <2>1 DEF DesExecs
  <2>4. des'.non = DesUpto(h, k + 1, {"non"})
    BY <1>3, <1>5, <1>7, <2>1
  <2>5. des'.lock <=> DesLocked(h, k + 1)
    <3>1. next[1] = h[k + 1][1]
      BY <1>3
    <3>2. des'.lock <=> (des.lock \/ next[1] = "lock") /\ next[1] # "unlock"
      BY <1>5
    <3>3. DesLocked(h, k + 1) <=> (DesLocked(h, k) \/ h[k + 1][1] = "lock") /\ h[k + 1][1] # "unlock"
      BY <1>7
    <3> QED BY <3>1, <3>2, <3>3, <2>1
  <2>6. /\ des'.helper = h /\ Len(des'.steps) = Len(h) - (k + 1)
        /\ \A i \in 1..Len(des'.steps) : des'.steps[i] = h[(k + 1) + i]
    BY ONLY <1>3, <1>5
  <2> QED BY ONLY <2>2, <2>3, <2>4, <2>5, <2>6 DEF DesDid
<1>10. result = "given" => k + 1 = Len(h)
  BY <1>1, <1>2, <1>3 DEF result
<1>11. result = "none" => k + 1 < Len(h)
  <2>1. CASE rest = <<>>
    BY <2>1 DEF result
  <2>2. CASE rest # <<>>
    BY <1>1, <1>2, <1>3, <2>2
  <2> QED BY <2>1, <2>2
<1>12. DesTyped'
  BY <1>3, <1>4, <1>5 DEF DesInv, DesTyped, result
<1>13. DesDone'
  <2>1. des'.result = "given" => DesDid(Len(h))'
    BY <1>5, <1>9, <1>10
  <2>2. des'.result = "none" => \E m \in 0..Len(h) : m < Len(h) /\ DesDid(m)'
    BY <1>5, <1>6, <1>9, <1>11
  <2> QED BY <1>5, <2>1, <2>2 DEF DesDone
<1>14. DesInherited' /\ DesOptions'
  BY <1>5 DEF DesInv, DesInherited, DesOptions
<1> QED BY <1>5, <1>12, <1>13, <1>14 DEF DesInv

LEMMA DesStepFails ==
    ASSUME DesInv,
           des' = [des EXCEPT !.steps = <<>>, !.result = "failed", !.lock = FALSE,
                              !.open = Descriptors!LeftOpen(des, Head(des.steps))]
    PROVE  DesInv'
<1>1. des.open \subseteq Descriptors!Ends
  <2>1. des.result \in {"none", "given"} => \E k \in 0..Len(des.helper) : des.open = DesUpto(des.helper, k, DesMakes)
    <3>1. Len(des.helper) \in 0..Len(des.helper)
      BY DesHelpers DEF DesInv, DesTyped, DesShape
    <3> QED BY <3>1 DEF DesInv, DesDone, DesDid
  <2>2. \A k : DesUpto(des.helper, k, DesMakes) \subseteq Descriptors!Ends
    BY DEF DesUpto
  <2>3. des.result \in {"none", "given", "failed"} /\ (des.result = "failed" => des.open = {})
    BY DEF DesInv, DesTyped, DesDone
  <2> QED BY <2>1, <2>2, <2>3
<1>2. /\ DOMAIN des' = DesFields /\ des'.helper = des.helper /\ des'.steps = <<>> /\ des'.open = {}
      /\ des'.exec = des.exec /\ des'.lock = FALSE /\ des'.result = "failed"
      /\ des'.children = des.children /\ des'.others = des.others
      /\ des'.fd = des.fd /\ des'.flags = des.flags /\ des'.set = des.set
  BY <1>1 DEF DesInv, DesFields, Descriptors!LeftOpen
<1>3. DesTyped' /\ DesDone' /\ DesInherited' /\ DesOptions'
  BY <1>2 DEF DesInv, DesTyped, DesDone, DesInherited, DesOptions
<1> QED BY <1>2, <1>3 DEF DesInv

\* Neither a child nor the TCP handle touches what a helper does.
LEMMA DesElsewhere ==
    ASSUME DesInv, DOMAIN des' = DesFields, des'.helper = des.helper, des'.steps = des.steps,
           des'.open = des.open, des'.exec = des.exec, des'.non = des.non, des'.result = des.result,
           des'.lock = des.lock
    PROVE  DesDone'
<1>1. \A k : DesDid(k) <=> DesDid(k)'
  BY DEF DesDid
<1> QED BY <1>1 DEF DesInv, DesDone

\* Where no lock is held, what a helper with the lock has open is not inherited.
LEMMA DesCovered ==
    ASSUME DesInv
    PROVE  /\ des.helper = Descriptors!Mkstemp /\ ~des.lock => des.open \ des.exec = {}
           /\ des.helper = Descriptors!OpenCloexec => des.open \ des.exec = {}
<1>1. DesShape(des.helper)
  BY DesHelpers DEF DesInv, DesTyped
<1>2. CASE des.result = "failed"
  BY <1>2 DEF DesInv, DesDone
<1>3. ASSUME NEW k \in 0..Len(des.helper), DesDid(k)
      PROVE  /\ des.helper = Descriptors!Mkstemp /\ ~des.lock => des.open \ des.exec = {}
             /\ des.helper = Descriptors!OpenCloexec => des.open \ des.exec = {}
  BY <1>1, <1>3 DEF DesShape, DesDid
<1>4. Len(des.helper) \in 0..Len(des.helper)
  BY <1>1 DEF DesShape
<1> QED BY <1>2, <1>3, <1>4 DEF DesInv, DesTyped, DesDone

LEMMA DesSpawn == ASSUME DesInv, Descriptors!Spawn \/ Descriptors!SpawnElsewhere PROVE DesInv'
<1>1. /\ DOMAIN des' = DesFields /\ des'.helper = des.helper /\ des'.steps = des.steps
      /\ des'.open = des.open /\ des'.exec = des.exec /\ des'.non = des.non /\ des'.result = des.result
      /\ des'.lock = des.lock /\ des'.fd = des.fd /\ des'.flags = des.flags /\ des'.set = des.set
      /\ \/ ~des.lock /\ des'.children = des.children \union (des.open \ des.exec) /\ des'.others = des.others
         \/ des'.children = des.children /\ des'.others = des.others \union (des.open \ des.exec)
  <2>1. CASE Descriptors!Spawn
    BY <2>1 DEF Descriptors!Spawn, Descriptors!MayFork, DesInv, DesFields
  <2>2. CASE Descriptors!SpawnElsewhere
    BY <2>2 DEF Descriptors!SpawnElsewhere, DesInv, DesFields
  <2> QED BY <2>1, <2>2
<1>2. DesInherited'
  BY <1>1, DesCovered DEF DesInv, DesInherited
<1>3. DesTyped' /\ DesOptions'
  BY <1>1 DEF DesInv, DesTyped, DesOptions
<1> QED BY <1>1, <1>2, <1>3, DesElsewhere DEF DesInv

LEMMA DesTcp ==
    ASSUME DesInv,
           \/ Descriptors!GetsSocket \/ Descriptors!TcpClose
           \/ \E o \in Descriptors!Options, on \in BOOLEAN : Descriptors!Option(o, on)
           \/ \E domain, ok \in BOOLEAN : Descriptors!TcpInit(domain, ok)
    PROVE  DesInv'
<1> DEFINE Same ==
      /\ DOMAIN des' = DesFields /\ des'.helper = des.helper /\ des'.steps = des.steps
      /\ des'.open = des.open /\ des'.exec = des.exec /\ des'.non = des.non /\ des'.result = des.result
      /\ des'.lock = des.lock /\ des'.children = des.children /\ des'.others = des.others
<1>1. CASE Descriptors!GetsSocket
  <2>1. Same /\ des'.fd = TRUE /\ des'.flags = des.flags /\ des'.set = des.flags
    BY <1>1 DEF Descriptors!GetsSocket, Descriptors!Carried, DesInv, DesFields
  <2>2. DesTyped' /\ DesInherited' /\ DesOptions'
    BY <2>1 DEF DesInv, DesTyped, DesInherited, DesOptions
  <2> QED BY <2>1, <2>2, DesElsewhere DEF DesInv
<1>2. CASE Descriptors!TcpClose
  <2>1. Same /\ des'.fd = FALSE /\ des'.flags = des.flags /\ des'.set = des.set
    BY <1>2 DEF Descriptors!TcpClose, DesInv, DesFields
  <2>2. DesTyped' /\ DesInherited' /\ DesOptions'
    BY <2>1 DEF DesInv, DesTyped, DesInherited, DesOptions
  <2> QED BY <2>1, <2>2, DesElsewhere DEF DesInv
<1>3. ASSUME NEW o \in Descriptors!Options, NEW on \in BOOLEAN, Descriptors!Option(o, on) PROVE DesInv'
  <2>1. PICK F : /\ des' = [des EXCEPT !.flags = F, !.set = IF des.fd THEN (IF on THEN des.set \union {o} ELSE des.set \ {o}) ELSE des.set]
                 /\ F = IF on THEN des.flags \union {o} ELSE des.flags \ {o}
    BY <1>3 DEF Descriptors!Option
  <2>2. Same /\ des'.fd = des.fd /\ des'.flags = F
        /\ des'.set = IF des.fd THEN (IF on THEN des.set \union {o} ELSE des.set \ {o}) ELSE des.set
    BY <2>1 DEF DesInv, DesFields
  <2>3. F \subseteq Descriptors!Options
    BY <2>1 DEF DesInv, DesTyped
  <2>4. DesTyped' /\ DesInherited'
    BY <2>2, <2>3 DEF DesInv, DesTyped, DesInherited
  <2>5. DesOptions'
    BY <2>1, <2>2 DEF DesInv, DesOptions
  <2> QED BY <2>2, <2>4, <2>5, DesElsewhere DEF DesInv
<1>4. ASSUME NEW domain \in BOOLEAN, NEW ok \in BOOLEAN, Descriptors!TcpInit(domain, ok) PROVE DesInv'
  <2>1. Same /\ des'.fd = (domain /\ ok) /\ des'.flags = {} /\ des'.set = {}
    BY <1>4 DEF Descriptors!TcpInit, DesInv, DesFields
  <2>2. DesTyped' /\ DesInherited' /\ DesOptions'
    BY <2>1 DEF DesInv, DesTyped, DesInherited, DesOptions
  <2> QED BY <2>1, <2>2, DesElsewhere DEF DesInv
<1> QED BY <1>1, <1>2, <1>3, <1>4

LEMMA DesHelps == ASSUME DesInv, Descriptors!Step PROVE DesInv'
<1>1. des.result = "none" /\ des.steps # <<>>
  BY DEF Descriptors!Step
<1>2. \/ des' = [des EXCEPT !.steps = Tail(des.steps),
                   !.open = IF Head(des.steps)[1] \in {"make", "atomic"} THEN Head(des.steps)[2] ELSE @,
                   !.exec = IF Head(des.steps)[1] \in {"exec", "atomic"} THEN @ \union Head(des.steps)[2] ELSE @,
                   !.non = IF Head(des.steps)[1] = "non" THEN @ \union Head(des.steps)[2] ELSE @,
                   !.lock = (@ \/ Head(des.steps)[1] = "lock") /\ Head(des.steps)[1] # "unlock",
                   !.result = IF Tail(des.steps) = <<>> THEN "given" ELSE @]
      \/ des' = [des EXCEPT !.steps = <<>>, !.result = "failed", !.lock = FALSE,
                            !.open = Descriptors!LeftOpen(des, Head(des.steps))]
  BY DEF Descriptors!Step
<1> QED BY <1>1, <1>2, DesStepDone, DesStepFails

LEMMA DesStep == ASSUME DesInv, Descriptors!Next PROVE DesInv'
  BY DesHelps, DesSpawn, DesTcp DEF Descriptors!Next

LEMMA DesKeeps ==
    ASSUME DesInv
    PROVE  Descriptors!TypeOK /\ Descriptors!NoDescriptorLost /\ Descriptors!ClosedIsClean /\ Descriptors!ToldTheTruth
<1>1. DesShape(des.helper)
  BY DesHelpers DEF DesInv, DesTyped
<1>2. Descriptors!TypeOK
  <2>1. \A k : DesUpto(des.helper, k, DesMakes) \subseteq Descriptors!Ends
    BY DEF DesUpto
  <2>2. des.open \subseteq Descriptors!Ends
    BY <2>1 DEF DesInv, DesTyped, DesDone, DesDid
  <2> QED BY <2>2 DEF DesInv, DesTyped, Descriptors!TypeOK
<1>3. Descriptors!NoDescriptorLost /\ Descriptors!ToldTheTruth
  BY DEF DesInv, DesInherited, DesOptions, Descriptors!NoDescriptorLost, Descriptors!ToldTheTruth
<1>4. ASSUME des.result = "given"
      PROVE  des.open # {} /\ des.open \subseteq des.exec /\ UNION Descriptors!Wanted \subseteq des.non /\ ~des.lock
  <2>1. DesDid(Len(des.helper))
    BY <1>4 DEF DesInv, DesDone
  <2>2. des.open # {} /\ des.open \subseteq des.exec /\ ~des.lock
    BY <1>1, <2>1 DEF DesShape, DesDid
  <2>3. UNION Descriptors!Wanted \subseteq des.non
    <3>1. ASSUME NEW w \in Descriptors!Wanted, NEW e \in w PROVE e \in des.non
      <4>1. PICK i \in DOMAIN des.helper : des.helper[i][1] = "non" /\ w = des.helper[i][2]
        BY DEF Descriptors!Wanted
      <4>2. i \in 1..Len(des.helper) /\ des.helper[i] \in DesKinds \X SUBSET Descriptors!Ends
        BY <1>1 DEF DesShape
      <4>3. e \in Descriptors!Ends
        BY <4>1, <4>2
      <4> QED BY <2>1, <4>1, <4>2, <4>3 DEF DesDid, DesUpto
    <3> QED BY <3>1
  <2> QED BY <2>2, <2>3
<1>5. Descriptors!ClosedIsClean
  BY <1>4 DEF DesInv, DesDone, Descriptors!ClosedIsClean
<1> QED BY <1>2, <1>3, <1>5

LEMMA DesChanges ==
    ASSUME DesInv, [Descriptors!Next]_des
    PROVE  DesInv'
<1>1. CASE Descriptors!Next
  BY <1>1, DesStep
<1>2. CASE UNCHANGED des
  BY <1>2 DEF DesInv, DesDone, DesInherited, DesOptions, DesTyped, DesDid
<1> QED BY <1>1, <1>2

\* Descriptors, for every helper that makes them and wherever it fails: none is lost, one that is
\* given is closed on exec and set as it was asked for, the lock is given back, and a child inherits
\* one only from a helper that cannot prevent it.
THEOREM DescriptorsCorrect ==
    Descriptors!Spec => [](Descriptors!TypeOK /\ Descriptors!NoDescriptorLost /\
                                  Descriptors!ClosedIsClean /\ Descriptors!ToldTheTruth)
<1>1. ASSUME Descriptors!Init PROVE DesInv
  BY <1>1, DesBegins
<1>2. ASSUME DesInv, [Descriptors!Next]_des PROVE DesInv'
  BY <1>2, DesChanges
<1>3. DesInv => Descriptors!TypeOK /\ Descriptors!NoDescriptorLost /\ Descriptors!ClosedIsClean /\
              Descriptors!ToldTheTruth
  BY DesKeeps
<1> QED BY <1>1, <1>2, <1>3, PTL DEF Descriptors!Spec

-----------------------------------------------------------------------------
(* File system requests *)

\* The requests are among those made; INIT leaves a type of theirs.
FsrConstants == MaxEntries \in Nat /\ "access" \in Types

FsrFields == {"phase", "type", "cb", "path", "bufs", "ptr", "result", "cursor", "heap", "wrong", "DIR"}

FsrEnded == {"done", "returned"}

FsrTyped ==
    /\ fsr.phase \in {"none", "queued", "running", "done", "returned"} /\ fsr.type \in Types
    /\ fsr.cb \in BOOLEAN /\ fsr.DIR \in BOOLEAN
    /\ fsr.path \in {"NULL", "copy", "program's path"}
    /\ fsr.bufs \in {"NULL", "bufs", "bufsml", "program's bufs"}
    /\ fsr.ptr \in {"NULL", "dir", "dents", "link", "statbuf"}
    /\ fsr.result \in -1..MaxEntries /\ fsr.cursor \in 0..MaxEntries
    /\ fsr.wrong = FALSE

\* Which pointers a request of a type has, at which time.
FsrPointers ==
    /\ fsr.phase = "none" => /\ fsr.path = "NULL" /\ fsr.bufs = "NULL" /\ fsr.ptr = "NULL"
                             /\ fsr.type = "closedir" => ~fsr.DIR
    /\ fsr.phase \in {"queued", "done"} => fsr.cb
    /\ fsr.path = "copy" => fsr.cb \/ fsr.type \in FsRequest!Template
    /\ fsr.path = "program's path" => ~(fsr.cb \/ fsr.type \in FsRequest!Template)
    /\ fsr.bufs # "NULL" => fsr.type \in FsRequest!WithBufs
    /\ fsr.bufs = "program's bufs" => fsr.phase = "running" /\ fsr.type = "read" /\ ~fsr.cb
    /\ fsr.bufs = "bufs" => fsr.type = "write" \/ fsr.cb
    /\ fsr.phase \in {"queued", "running"} =>
         /\ fsr.ptr = IF fsr.type \in FsRequest!WithDir THEN "dir" ELSE "NULL"
         /\ fsr.type \in FsRequest!WithDir => fsr.DIR
         /\ fsr.type = "opendir" => ~fsr.DIR
         /\ fsr.result = 0 /\ fsr.cursor = 0
    /\ fsr.ptr = "dir" => fsr.DIR /\ fsr.type \in {"readdir", "closedir", "opendir"}
    /\ fsr.ptr = "dents" => fsr.type = "scandir" /\ fsr.phase \in FsrEnded /\ fsr.result > 0 /\ fsr.cursor <= fsr.result
    /\ fsr.ptr = "link" => fsr.type \in {"readlink", "realpath", "statfs"}
    /\ fsr.ptr = "statbuf" => fsr.type \in FsRequest!Stats
    /\ fsr.type = "closedir" /\ fsr.phase \in FsrEnded => (fsr.ptr = "dir" <=> fsr.DIR)

\* What the fields of a request stand for: a copy of its path, its buffers, an answer, the entries
\* nobody asked for yet, the names read; and the directory that is open.
FsrStands(r, x) ==
    \/ r.path = "copy" /\ x = <<"copy", 0>>
    \/ r.bufs = "bufs" /\ x = <<"bufs", 0>>
    \/ r.DIR /\ x = <<"dir", 0>>
    \/ r.ptr = "link" /\ x = <<"link", 0>>
    \/ r.ptr = "dents" /\ (x = <<"dents", 0>> \/ \E i \in FsRequest!FirstLeft(r) + 1..r.result : x = <<"dent", i>>)
    \/ /\ r.type = "readdir" /\ r.ptr = "dir" /\ r.phase \in FsrEnded
       /\ \E i \in 1..r.result : x = <<"name", i>>

FsrHeap == \A x : x \in fsr.heap <=> FsrStands(fsr, x)

FsrInv == DOMAIN fsr = FsrFields /\ FsrTyped /\ FsrPointers /\ FsrHeap

LEMMA FsrBegins == ASSUME FsrConstants, FsRequest!Init PROVE FsrInv
  BY DEF FsrConstants, FsRequest!Init, FsrInv, FsrFields, FsrTyped, FsrPointers, FsrHeap, FsrStands, FsrEnded, FsRequest!Block

LEMMA FsrSubmit ==
    ASSUME FsrConstants, FsrInv, NEW type \in Types, NEW called \in BOOLEAN, NEW many \in BOOLEAN,
           FsRequest!Submit(type, called, many)
    PROVE  FsrInv'
<1>1. fsr.phase = "none" /\ (many => type \in FsRequest!WithBufs) /\ (type \in FsRequest!WithDir => fsr.DIR)
      /\ (type = "opendir" => ~fsr.DIR)
  BY DEF FsRequest!Submit
<1>2. PICK phase, path, bufs, ptr :
        /\ fsr' = [fsr EXCEPT !.phase = phase, !.type = type, !.cb = called, !.path = path, !.bufs = bufs,
                      !.ptr = ptr, !.result = 0, !.cursor = 0, !.heap = @ \union FsRequest!Heap(type, called, many)]
        /\ phase = IF called THEN "queued" ELSE "running"
        /\ path = FsRequest!PathOf(type, called) /\ bufs = FsRequest!BufsOf(type, called, many)
        /\ ptr = IF type \in FsRequest!WithDir THEN "dir" ELSE "NULL"
  BY DEF FsRequest!Submit
<1>3. /\ DOMAIN fsr' = FsrFields /\ fsr'.phase = phase /\ fsr'.type = type /\ fsr'.cb = called
      /\ fsr'.path = path /\ fsr'.bufs = bufs /\ fsr'.ptr = ptr /\ fsr'.result = 0 /\ fsr'.cursor = 0
      /\ fsr'.heap = fsr.heap \union FsRequest!Heap(type, called, many) /\ fsr'.wrong = fsr.wrong /\ fsr'.DIR = fsr.DIR
  BY <1>2 DEF FsrInv, FsrFields
<1>4. path \in {"NULL", "copy", "program's path"} /\ (path = "copy" => called \/ type \in FsRequest!Template)
      /\ (path = "program's path" => ~(called \/ type \in FsRequest!Template))
  BY <1>2 DEF FsRequest!PathOf
<1>5. bufs \in {"NULL", "bufs", "bufsml", "program's bufs"} /\ (bufs # "NULL" => type \in FsRequest!WithBufs)
      /\ (bufs = "program's bufs" => type = "read" /\ ~called) /\ (bufs = "bufs" => type = "write" \/ called)
  BY <1>2 DEF FsRequest!BufsOf, FsRequest!WithBufs
<1>6. FsrTyped'
  <2>1. 0 \in -1..MaxEntries /\ 0 \in 0..MaxEntries
    BY DEF FsrConstants
  <2>2. phase \in {"queued", "running"} /\ ptr \in {"dir", "NULL"}
    BY <1>2
  <2> QED BY <1>3, <1>4, <1>5, <2>1, <2>2 DEF FsrInv, FsrTyped
<1>7. FsrPointers'
  <2>1. phase \in {"queued", "running"} /\ phase \notin FsrEnded /\ (phase = "queued" => called)
    BY <1>2 DEF FsrEnded
  <2>2. \/ ptr = "dir" /\ type \in FsRequest!WithDir /\ fsr.DIR
        \/ ptr = "NULL" /\ type \notin FsRequest!WithDir
    BY <1>1, <1>2
  <2>3. type \in FsRequest!WithDir => type \in {"readdir", "closedir", "opendir"}
    BY DEF FsRequest!WithDir
  <2>4. bufs = "program's bufs" => phase = "running"
    BY <1>2, <1>5
  <2> QED BY <1>1, <1>3, <1>4, <1>5, <2>1, <2>2, <2>3, <2>4 DEF FsrPointers
<1>8. FsrHeap'
  <2>1. \A x : x \in FsRequest!Heap(type, called, many) <=> (path = "copy" /\ x = <<"copy", 0>>) \/ (bufs = "bufs" /\ x = <<"bufs", 0>>)
    <3>1. \A x : x \in FsRequest!Heap(type, called, many) <=> \E p \in {path, bufs} \intersect {"copy", "bufs"} : x = <<p, 0>>
      BY <1>2 DEF FsRequest!Heap
    <3>2. path # "bufs" /\ bufs # "copy"
      BY <1>4, <1>5
    <3> QED BY <3>1, <3>2
  <2>2. \A x : x \in fsr.heap <=> fsr.DIR /\ x = <<"dir", 0>>
    <3>1. fsr.path = "NULL" /\ fsr.bufs = "NULL" /\ fsr.ptr = "NULL"
      BY <1>1 DEF FsrInv, FsrPointers
    <3> QED BY <3>1 DEF FsrInv, FsrHeap, FsrStands
  <2>3. phase \notin FsrEnded /\ ptr # "link" /\ ptr # "dents"
    BY <1>2 DEF FsrEnded
  <2>4. \A x : x \in fsr'.heap <=> \/ path = "copy" /\ x = <<"copy", 0>>
                                   \/ bufs = "bufs" /\ x = <<"bufs", 0>>
                                   \/ fsr.DIR /\ x = <<"dir", 0>>
    BY <1>3, <2>1, <2>2
  <2> QED BY <1>3, <2>3, <2>4 DEF FsrHeap, FsrStands
<1> QED BY <1>3, <1>6, <1>7, <1>8 DEF FsrInv

LEMMA FsrNoMemory ==
    ASSUME FsrConstants, FsrInv, NEW type \in Types, NEW called \in BOOLEAN, NEW many \in BOOLEAN,
           FsRequest!NoMemory(type, called, many)
    PROVE  FsrInv'
<1>1. fsr.phase = "none" /\ FsRequest!Heap(type, called, many) # {}
  BY DEF FsRequest!NoMemory
<1>2. /\ DOMAIN fsr' = FsrFields /\ fsr'.phase = "returned" /\ fsr'.type = type /\ fsr'.cb = called
      /\ fsr'.path = "NULL" /\ fsr'.bufs = "NULL" /\ fsr'.ptr = "NULL" /\ fsr'.result = 0
      /\ fsr'.cursor = fsr.cursor /\ fsr'.heap = fsr.heap /\ fsr'.wrong = fsr.wrong /\ fsr'.DIR = fsr.DIR
  BY DEF FsRequest!NoMemory, FsrInv, FsrFields
<1>3. type # "closedir"
  BY <1>1 DEF FsRequest!Heap, FsRequest!PathOf, FsRequest!BufsOf, FsRequest!WithPath, FsRequest!OnePath, FsRequest!TwoPaths, FsRequest!Template, FsRequest!Allocates, FsRequest!Stats, FsRequest!WithBufs
<1>4. FsrTyped'
  <2>1. 0 \in -1..MaxEntries
    BY DEF FsrConstants
  <2> QED BY <1>2, <2>1 DEF FsrInv, FsrTyped
<1>5. FsrPointers'
  BY <1>2, <1>3 DEF FsrPointers, FsrEnded
<1>6. FsrHeap'
  BY <1>1, <1>2 DEF FsrInv, FsrPointers, FsrHeap, FsrStands
<1> QED BY <1>2, <1>4, <1>5, <1>6 DEF FsrInv

\* Giving back memory that is the request's own.
FsrFreed(r, f, objects) ==
    /\ DOMAIN f = FsrFields /\ f.heap = r.heap \ objects /\ f.wrong = FALSE
    /\ f.phase = r.phase /\ f.type = r.type /\ f.cb = r.cb /\ f.path = r.path /\ f.bufs = r.bufs
    /\ f.ptr = r.ptr /\ f.result = r.result /\ f.cursor = r.cursor /\ f.DIR = r.DIR

LEMMA FsrFree ==
    ASSUME NEW r, DOMAIN r = FsrFields, NEW objects, objects \subseteq r.heap, r.wrong = FALSE
    PROVE  FsrFreed(r, FsRequest!Free(r, objects), objects)
  BY DEF FsRequest!Free, FsrFields, FsrFreed

LEMMA FsrWaits == ASSUME FsrConstants, FsrInv, FsRequest!Cancel \/ FsRequest!Taken \/ FsRequest!Done PROVE FsrInv'
<1>1. PICK result :
        /\ DOMAIN fsr' = FsrFields /\ fsr'.type = fsr.type /\ fsr'.cb = fsr.cb
        /\ fsr'.path = fsr.path /\ fsr'.bufs = fsr.bufs /\ fsr'.ptr = fsr.ptr /\ fsr'.result = result
        /\ fsr'.cursor = fsr.cursor /\ fsr'.heap = fsr.heap /\ fsr'.wrong = fsr.wrong /\ fsr'.DIR = fsr.DIR
        /\ \/ fsr.phase = "queued" /\ fsr'.phase = "done" /\ result = -1
           \/ fsr.phase = "queued" /\ fsr'.phase = "running" /\ result = fsr.result
           \/ fsr.phase = "done" /\ fsr'.phase = "returned" /\ result = fsr.result
  <2>1. CASE FsRequest!Cancel
    BY <2>1 DEF FsRequest!Cancel, FsrInv, FsrFields
  <2>2. CASE FsRequest!Taken
    BY <2>2 DEF FsRequest!Taken, FsrInv, FsrFields
  <2>3. CASE FsRequest!Done
    BY <2>3 DEF FsRequest!Done, FsrInv, FsrFields
  <2> QED BY <2>1, <2>2, <2>3
<1>2. FsrTyped'
  <2>1. result \in -1..MaxEntries
    <3>1. -1 \in -1..MaxEntries
      BY DEF FsrConstants
    <3> QED BY <1>1, <3>1 DEF FsrInv, FsrTyped
  <2> QED BY <1>1, <2>1 DEF FsrInv, FsrTyped
<1>3. FsrPointers'
  BY <1>1 DEF FsrInv, FsrTyped, FsrPointers, FsrEnded, FsRequest!WithDir
<1>4. FsrHeap'
  <2>1. \A x : FsrStands(fsr, x)' <=> FsrStands(fsr, x)
    <3>1. \/ fsr.ptr # "dents"
          \/ result = fsr.result /\ FsRequest!FirstLeft(fsr') = FsRequest!FirstLeft(fsr)
      BY <1>1 DEF FsrInv, FsrPointers, FsrEnded, FsRequest!FirstLeft
    <3>2. CASE fsr.phase = "done"
      BY <1>1, <3>1, <3>2 DEF FsrStands, FsrEnded
    <3>3. CASE fsr.phase = "queued"
      <4>1. fsr.result = 0 /\ fsr.phase \notin FsrEnded /\ fsr.ptr # "dents" /\ \A i \in 1..result : FALSE
        <5>1. fsr.result = 0 /\ fsr.ptr # "dents"
          BY <3>3 DEF FsrInv, FsrPointers, FsrEnded, FsRequest!WithDir
        <5>2. result \in {-1, 0}
          BY <1>1, <3>3, <5>1
        <5> QED BY <3>3, <5>1, <5>2 DEF FsrEnded
      <4> QED BY <1>1, <4>1 DEF FsrStands
    <3> QED BY <1>1, <3>2, <3>3
  <2> QED BY <1>1, <2>1 DEF FsrInv, FsrHeap
<1> QED BY <1>1, <1>2, <1>3, <1>4 DEF FsrInv

LEMMA FsrScandirNext == ASSUME FsrConstants, FsrInv, FsRequest!ScandirNext PROVE FsrInv'
<1>1. /\ fsr.phase = "returned" /\ fsr.type = "scandir" /\ fsr.result >= 0 /\ fsr.ptr = "dents"
      /\ fsr.result \in 1..MaxEntries /\ fsr.cursor \in 0..fsr.result /\ fsr.result \in Nat /\ fsr.cursor \in Nat
      /\ fsr.wrong = FALSE /\ DOMAIN fsr = FsrFields
  <2>1. /\ fsr.phase = "returned" /\ fsr.type = "scandir" /\ fsr.result >= 0 /\ fsr.ptr # "NULL"
        /\ fsr.ptr \in {"NULL", "dir", "dents", "link", "statbuf"}
        /\ fsr.result \in -1..MaxEntries /\ fsr.cursor \in 0..MaxEntries /\ MaxEntries \in Nat
        /\ fsr.wrong = FALSE /\ DOMAIN fsr = FsrFields
    BY DEF FsRequest!ScandirNext, FsrInv, FsrTyped, FsrConstants
  <2>2. fsr.ptr = "dents" /\ fsr.result > 0 /\ fsr.cursor <= fsr.result
    BY <2>1 DEF FsrInv, FsrPointers, FsRequest!Stats
  <2> QED BY <2>1, <2>2
<1> DEFINE r == IF fsr.cursor > 0 THEN FsRequest!Free(fsr, {<<"dent", fsr.cursor>>}) ELSE fsr
<1>2. \A x : x \in fsr.heap <=>
        \/ fsr.path = "copy" /\ x = <<"copy", 0>>
        \/ fsr.bufs = "bufs" /\ x = <<"bufs", 0>>
        \/ fsr.DIR /\ x = <<"dir", 0>>
        \/ x = <<"dents", 0>>
        \/ \E i \in FsRequest!FirstLeft(fsr) + 1..fsr.result : x = <<"dent", i>>
  BY <1>1 DEF FsrInv, FsrHeap, FsrStands
<1>3. /\ DOMAIN r = FsrFields /\ r.wrong = FALSE /\ r.phase = fsr.phase /\ r.type = fsr.type /\ r.cb = fsr.cb
      /\ r.path = fsr.path /\ r.bufs = fsr.bufs /\ r.ptr = fsr.ptr /\ r.result = fsr.result
      /\ r.cursor = fsr.cursor /\ r.DIR = fsr.DIR
      /\ \A x : x \in r.heap <=>
            \/ fsr.path = "copy" /\ x = <<"copy", 0>>
            \/ fsr.bufs = "bufs" /\ x = <<"bufs", 0>>
            \/ fsr.DIR /\ x = <<"dir", 0>>
            \/ x = <<"dents", 0>>
            \/ \E i \in fsr.cursor + 1..fsr.result : x = <<"dent", i>>
  <2>1. CASE fsr.cursor > 0
    <3>1. FsRequest!FirstLeft(fsr) + 1 = fsr.cursor /\ fsr.cursor \in fsr.cursor..fsr.result
      BY <1>1, <2>1 DEF FsRequest!FirstLeft
    <3>2. \A i : i \in fsr.cursor..fsr.result <=> i = fsr.cursor \/ i \in fsr.cursor + 1..fsr.result
      BY <1>1, <2>1
    <3>3. fsr.cursor \notin fsr.cursor + 1..fsr.result
      BY <1>1
    <3>4. {<<"dent", fsr.cursor>>} \subseteq fsr.heap
      BY <1>2, <3>1
    <3>5. r = FsRequest!Free(fsr, {<<"dent", fsr.cursor>>})
      BY <2>1
    <3>6. /\ DOMAIN r = FsrFields /\ r.wrong = FALSE /\ r.phase = fsr.phase /\ r.type = fsr.type /\ r.cb = fsr.cb
          /\ r.path = fsr.path /\ r.bufs = fsr.bufs /\ r.ptr = fsr.ptr /\ r.result = fsr.result
          /\ r.cursor = fsr.cursor /\ r.DIR = fsr.DIR /\ r.heap = fsr.heap \ {<<"dent", fsr.cursor>>}
      <4>1. FsrFreed(fsr, FsRequest!Free(fsr, {<<"dent", fsr.cursor>>}), {<<"dent", fsr.cursor>>})
        BY <1>1, <3>4, FsrFree
      <4> HIDE DEF r
      <4> QED BY <3>5, <4>1 DEF FsrFreed
    <3> HIDE DEF r
    <3>7. \A x : x \in r.heap <=> x \in fsr.heap /\ x # <<"dent", fsr.cursor>>
      BY <3>6
    <3>8. \A x : x \in r.heap <=>
            \/ fsr.path = "copy" /\ x = <<"copy", 0>>
            \/ fsr.bufs = "bufs" /\ x = <<"bufs", 0>>
            \/ fsr.DIR /\ x = <<"dir", 0>>
            \/ x = <<"dents", 0>>
            \/ \E i \in fsr.cursor + 1..fsr.result : x = <<"dent", i>>
      BY <1>2, <3>1, <3>2, <3>3, <3>7
    <3> QED BY <3>6, <3>8
  <2>2. CASE ~(fsr.cursor > 0)
    <3>1. FsRequest!FirstLeft(fsr) + 1 = fsr.cursor + 1 /\ r = fsr
      BY <1>1, <2>2 DEF FsRequest!FirstLeft
    <3> QED BY <1>1, <1>2, <3>1
  <2> QED BY <2>1, <2>2
<1> HIDE DEF r
<1>4. fsr' = IF fsr.cursor = fsr.result THEN [FsRequest!Free(r, FsRequest!Block("dents")) EXCEPT !.ptr = "NULL"]
             ELSE [r EXCEPT !.cursor = @ + 1]
  BY DEF FsRequest!ScandirNext, r
<1>5. CASE fsr.cursor = fsr.result
  <2>1. FsRequest!Block("dents") = {<<"dents", 0>>}
    BY DEF FsRequest!Block
  <2>2. FsRequest!Block("dents") \subseteq r.heap
    BY <1>3, <2>1
  <2>3. fsr' = [FsRequest!Free(r, FsRequest!Block("dents")) EXCEPT !.ptr = "NULL"]
    BY <1>4, <1>5
  <2>4. /\ DOMAIN fsr' = FsrFields /\ fsr'.wrong = FALSE /\ fsr'.phase = fsr.phase /\ fsr'.type = fsr.type
        /\ fsr'.cb = fsr.cb /\ fsr'.path = fsr.path /\ fsr'.bufs = fsr.bufs /\ fsr'.ptr = "NULL"
        /\ fsr'.result = fsr.result /\ fsr'.cursor = fsr.cursor /\ fsr'.DIR = fsr.DIR
        /\ fsr'.heap = r.heap \ {<<"dents", 0>>}
    <3>1. FsrFreed(r, FsRequest!Free(r, FsRequest!Block("dents")), FsRequest!Block("dents"))
      BY <1>3, <2>2, FsrFree
    <3> QED BY <1>1, <1>3, <2>1, <2>3, <3>1 DEF FsrFreed, FsrFields
  <2>5. \A i : i \notin fsr.cursor + 1..fsr.result
    BY <1>1, <1>5
  <2>6. \A x : x \in fsr'.heap <=>
            \/ fsr.path = "copy" /\ x = <<"copy", 0>>
            \/ fsr.bufs = "bufs" /\ x = <<"bufs", 0>>
            \/ fsr.DIR /\ x = <<"dir", 0>>
    BY <1>3, <2>4, <2>5
  <2>7. FsrHeap'
    BY <1>1, <2>4, <2>6 DEF FsrHeap, FsrStands
  <2>8. FsrTyped' /\ FsrPointers'
    BY <1>1, <2>4 DEF FsrInv, FsrTyped, FsrPointers, FsrEnded
  <2> QED BY <2>4, <2>7, <2>8 DEF FsrInv
<1>6. CASE fsr.cursor # fsr.result
  <2>1. /\ DOMAIN fsr' = FsrFields /\ fsr'.wrong = FALSE /\ fsr'.phase = fsr.phase /\ fsr'.type = fsr.type
        /\ fsr'.cb = fsr.cb /\ fsr'.path = fsr.path /\ fsr'.bufs = fsr.bufs /\ fsr'.ptr = fsr.ptr
        /\ fsr'.result = fsr.result /\ fsr'.cursor = fsr.cursor + 1 /\ fsr'.DIR = fsr.DIR
        /\ fsr'.heap = r.heap
    BY <1>3, <1>4, <1>6 DEF FsrFields
  <2>2. FsRequest!FirstLeft(fsr') + 1 = fsr.cursor + 1 /\ fsr.cursor + 1 \in 0..fsr.result /\ fsr.cursor + 1 \in 0..MaxEntries
    BY <1>1, <1>6, <2>1 DEF FsRequest!FirstLeft, FsrConstants
  <2>3. FsrHeap'
    <3>1. \A x : FsrStands(fsr, x)' <=>
            \/ fsr.path = "copy" /\ x = <<"copy", 0>>
            \/ fsr.bufs = "bufs" /\ x = <<"bufs", 0>>
            \/ fsr.DIR /\ x = <<"dir", 0>>
            \/ x = <<"dents", 0>>
            \/ \E i \in fsr.cursor + 1..fsr.result : x = <<"dent", i>>
      BY <1>1, <2>1, <2>2 DEF FsrStands
    <3> QED BY <1>3, <2>1, <3>1 DEF FsrHeap
  <2>4. FsrTyped'
    BY <2>1, <2>2 DEF FsrInv, FsrTyped
  <2>5. FsrPointers'
    <3>1. fsr.cursor + 1 <= fsr.result
      BY <1>1, <1>6
    <3> QED BY <1>1, <2>1, <3>1 DEF FsrInv, FsrPointers, FsrEnded
  <2> QED BY <2>1, <2>3, <2>4, <2>5 DEF FsrInv
<1> QED BY <1>5, <1>6

\* What the work of a request of fsr's may leave: s, but for its phase.
FsrLeaves(s) ==
    /\ DOMAIN s = FsrFields /\ s.type = fsr.type /\ s.cb = fsr.cb /\ s.path = fsr.path /\ s.cursor = 0
    /\ s.wrong = FALSE /\ s.bufs = "NULL" /\ s.DIR \in BOOLEAN /\ s.result \in -1..MaxEntries
    /\ s.ptr \in {"NULL", "dir", "dents", "link", "statbuf"}
    /\ s.ptr = "dir" => s.DIR /\ s.type \in {"readdir", "closedir", "opendir"}
    /\ s.ptr = "dents" => s.type = "scandir" /\ s.result > 0
    /\ s.ptr = "link" => s.type \in {"readlink", "realpath", "statfs"}
    /\ s.ptr = "statbuf" => s.type \in FsRequest!Stats
    /\ s.type = "closedir" => (s.ptr = "dir" <=> s.DIR)
    /\ \A x : x \in s.heap <=>
         \/ s.path = "copy" /\ x = <<"copy", 0>>
         \/ s.DIR /\ x = <<"dir", 0>>
         \/ s.ptr = "link" /\ x = <<"link", 0>>
         \/ s.ptr = "dents" /\ (x = <<"dents", 0>> \/ \E i \in 1..s.result : x = <<"dent", i>>)
         \/ s.type = "readdir" /\ s.ptr = "dir" /\ \E i \in 1..s.result : x = <<"name", i>>

LEMMA FsrLeft ==
    ASSUME FsrConstants, FsrInv, fsr.phase = "running", NEW s, FsrLeaves(s),
           fsr' = [s EXCEPT !.phase = IF fsr.cb THEN "done" ELSE "returned"]
    PROVE  FsrInv'
<1>1. /\ DOMAIN fsr' = FsrFields /\ fsr'.phase = (IF fsr.cb THEN "done" ELSE "returned")
      /\ fsr'.type = fsr.type /\ fsr'.cb = fsr.cb
      /\ fsr'.path = fsr.path /\ fsr'.bufs = "NULL" /\ fsr'.ptr = s.ptr /\ fsr'.result = s.result
      /\ fsr'.cursor = 0 /\ fsr'.heap = s.heap /\ fsr'.wrong = FALSE /\ fsr'.DIR = s.DIR
  BY DEF FsrLeaves, FsrFields
<1>2. 0 \in 0..MaxEntries
  BY DEF FsrConstants
<1>3. fsr'.phase \in FsrEnded /\ fsr'.phase \in {"none", "queued", "running", "done", "returned"}
      /\ (fsr'.phase = "done" => fsr.cb)
  BY <1>1 DEF FsrEnded
<1>4. FsrTyped'
  BY <1>1, <1>2, <1>3 DEF FsrLeaves, FsrInv, FsrTyped
<1>5. FsrPointers'
  <2>1. s.ptr = "dents" => 0 <= s.result
    BY DEF FsrLeaves
  <2>2. fsr'.phase \notin {"none", "queued", "running"}
    BY <1>3 DEF FsrEnded
  <2> QED BY <1>1, <1>3, <2>1, <2>2 DEF FsrLeaves, FsrInv, FsrPointers
<1>6. FsrHeap'
  <2>1. FsRequest!FirstLeft(fsr') + 1 = 1
    BY <1>1 DEF FsRequest!FirstLeft
  <2> QED BY <1>1, <1>3, <2>1 DEF FsrLeaves, FsrHeap, FsrStands
<1> QED BY <1>1, <1>4, <1>5, <1>6 DEF FsrInv

LEMMA FsrWork == ASSUME FsrConstants, FsrInv, FsRequest!Work PROVE FsrInv'
<1>1. PICK n \in 0..MaxEntries, ok \in BOOLEAN :
        /\ fsr.type = "closedir" => ok
        /\ fsr' = [(IF ok THEN FsRequest!Succeeded(fsr, n) ELSE FsRequest!Failed(fsr))
                     EXCEPT !.phase = IF fsr.cb THEN "done" ELSE "returned"]
  BY DEF FsRequest!Work
<1>2. /\ fsr.phase = "running" /\ DOMAIN fsr = FsrFields /\ fsr.wrong = FALSE /\ fsr.DIR \in BOOLEAN
      /\ fsr.bufs \in {"NULL", "bufs", "bufsml", "program's bufs"} /\ fsr.cb \in BOOLEAN
      /\ fsr.cursor = 0 /\ fsr.result = 0 /\ fsr.ptr = IF fsr.type \in FsRequest!WithDir THEN "dir" ELSE "NULL"
      /\ (fsr.type \in FsRequest!WithDir => fsr.DIR) /\ (fsr.type = "opendir" => ~fsr.DIR)
      /\ (fsr.bufs # "NULL" => fsr.type \in FsRequest!WithBufs)
      /\ (fsr.bufs = "program's bufs" => fsr.type = "read" /\ ~fsr.cb)
      /\ (fsr.bufs = "bufs" => fsr.type = "write" \/ fsr.cb)
  BY DEF FsRequest!Work, FsrInv, FsrTyped, FsrPointers
<1>3. \A x : x \in fsr.heap <=>
        \/ fsr.path = "copy" /\ x = <<"copy", 0>>
        \/ fsr.bufs = "bufs" /\ x = <<"bufs", 0>>
        \/ fsr.DIR /\ x = <<"dir", 0>>
  <2>1. fsr.ptr \notin {"link", "dents"} /\ fsr.phase \notin FsrEnded
    BY <1>2 DEF FsrEnded
  <2> QED BY <2>1 DEF FsrInv, FsrHeap, FsrStands
<1>4. 0 \in -1..MaxEntries /\ -1 \in -1..MaxEntries /\ n \in -1..MaxEntries /\ n \in Nat
  BY DEF FsrConstants
<1>5. \A i : i \notin 1..0 /\ i \notin 1..-1
  OBVIOUS
<1>6. CASE fsr.type \in FsRequest!WithBufs
  <2>1. fsr.ptr = "NULL" /\ fsr.type \in {"read", "write"}
    BY <1>2, <1>6 DEF FsRequest!WithBufs, FsRequest!WithDir
  <2>2. PICK b : b = FsRequest!BufsDone(fsr)
    OBVIOUS
  <2>3. /\ DOMAIN b = FsrFields /\ b.type = fsr.type /\ b.cb = fsr.cb /\ b.path = fsr.path /\ b.cursor = 0
        /\ b.wrong = FALSE /\ b.bufs = "NULL" /\ b.DIR = fsr.DIR /\ b.result = 0 /\ b.ptr = "NULL"
        /\ \A x : x \in b.heap <=> (fsr.path = "copy" /\ x = <<"copy", 0>>) \/ (fsr.DIR /\ x = <<"dir", 0>>)
    <3>1. CASE FsRequest!FreesBufs(fsr)
      <4>1. b = [FsRequest!Free(fsr, FsRequest!Block(fsr.bufs)) EXCEPT !.bufs = "NULL"]
        BY <2>2, <3>1 DEF FsRequest!BufsDone
      <4>2. fsr.bufs = "NULL" \/ fsr.bufs = "bufs"
        BY <1>2, <2>1, <3>1 DEF FsRequest!FreesBufs
      <4>3. FsRequest!Block(fsr.bufs) = IF fsr.bufs = "bufs" THEN {<<"bufs", 0>>} ELSE {}
        BY <4>2 DEF FsRequest!Block
      <4>4. FsRequest!Block(fsr.bufs) \subseteq fsr.heap
        BY <1>3, <4>3
      <4>5. FsrFreed(fsr, FsRequest!Free(fsr, FsRequest!Block(fsr.bufs)), FsRequest!Block(fsr.bufs))
        BY <1>2, <4>4, FsrFree
      <4>6. /\ DOMAIN b = FsrFields /\ b.type = fsr.type /\ b.cb = fsr.cb /\ b.path = fsr.path /\ b.cursor = 0
            /\ b.wrong = FALSE /\ b.bufs = "NULL" /\ b.DIR = fsr.DIR /\ b.result = 0 /\ b.ptr = "NULL"
            /\ b.heap = fsr.heap \ FsRequest!Block(fsr.bufs)
        BY <1>2, <2>1, <4>1, <4>5 DEF FsrFreed, FsrFields
      <4>7. \A x : x \in b.heap <=> (fsr.path = "copy" /\ x = <<"copy", 0>>) \/ (fsr.DIR /\ x = <<"dir", 0>>)
        BY <1>3, <4>3, <4>6
      <4> QED BY <4>6, <4>7
    <3>2. CASE ~FsRequest!FreesBufs(fsr)
      <4>1. b = [fsr EXCEPT !.bufs = "NULL"]
        BY <2>2, <3>2 DEF FsRequest!BufsDone
      <4>2. fsr.bufs # "bufs"
        BY <1>2, <3>2 DEF FsRequest!FreesBufs
      <4> QED BY <1>2, <1>3, <2>1, <4>1, <4>2 DEF FsrFields
    <3> QED BY <3>1, <3>2
  <2>4. FsrLeaves(b)
    BY <1>2, <1>4, <2>1, <2>3 DEF FsrLeaves
  <2>5. FsrLeaves([b EXCEPT !.result = -1])
    BY <1>2, <1>4, <2>1, <2>3 DEF FsrLeaves, FsrFields
  <2>6. FsRequest!Succeeded(fsr, n) = b /\ FsRequest!Failed(fsr) = [b EXCEPT !.result = -1]
    BY <1>6, <2>1, <2>2 DEF FsRequest!Succeeded, FsRequest!Failed, FsRequest!WithBufs, FsRequest!Stats
  <2> QED BY <1>1, <1>2, <2>4, <2>5, <2>6, FsrLeft
<1>7. CASE fsr.type \notin FsRequest!WithBufs /\ ~ok
  <2>1. PICK s : s = [fsr EXCEPT !.result = -1]
    OBVIOUS
  <2>2. fsr.bufs = "NULL" /\ fsr.type # "closedir" /\ (fsr.ptr = "NULL" \/ (fsr.type = "readdir" /\ fsr.ptr = "dir" /\ fsr.DIR))
    BY <1>1, <1>2, <1>7 DEF FsRequest!WithDir
  <2>3. FsrLeaves(s)
    BY <1>2, <1>3, <1>4, <1>5, <2>1, <2>2 DEF FsrLeaves, FsrFields
  <2>4. fsr' = [s EXCEPT !.phase = IF fsr.cb THEN "done" ELSE "returned"]
    BY <1>1, <1>7, <2>1 DEF FsRequest!Failed
  <2> QED BY <1>2, <2>3, <2>4, FsrLeft
<1>8. CASE fsr.type \notin FsRequest!WithBufs /\ ok
  <2>0. fsr.bufs = "NULL"
    BY <1>2, <1>8
  <2>1. ASSUME NEW s, s = FsRequest!Succeeded(fsr, n) PROVE FsrLeaves(s)
    <3>1. CASE fsr.type = "scandir"
      <4>1. s = FsRequest!Scandir(fsr, n) /\ fsr.ptr = "NULL"
        <5>1. s = FsRequest!Scandir(fsr, n)
          BY <2>1, <3>1 DEF FsRequest!Succeeded, FsRequest!WithBufs, FsRequest!Stats
        <5>2. fsr.ptr = "NULL"
          BY <1>2, <3>1 DEF FsRequest!WithDir
        <5> QED BY <5>1, <5>2
      <4>2. CASE n = 0
        BY <1>2, <1>3, <1>4, <1>5, <2>0, <3>1, <4>1, <4>2 DEF FsrLeaves, FsRequest!Scandir
      <4>3. CASE n # 0
        <5>1. /\ DOMAIN s = FsrFields /\ s.type = fsr.type /\ s.cb = fsr.cb /\ s.path = fsr.path /\ s.cursor = 0
              /\ s.wrong = FALSE /\ s.bufs = "NULL" /\ s.DIR = fsr.DIR /\ s.result = n /\ s.ptr = "dents"
              /\ s.heap = fsr.heap \union FsRequest!Block("dents") \union FsRequest!Dents(n)
          BY <1>2, <2>0, <4>1, <4>3 DEF FsRequest!Scandir, FsrFields
        <5>2. \A x : x \in FsRequest!Block("dents") \union FsRequest!Dents(n) <=> x = <<"dents", 0>> \/ \E i \in 1..n : x = <<"dent", i>>
          BY DEF FsRequest!Block, FsRequest!Dents
        <5>3. n > 0
          BY <1>4, <4>3
        <5> QED BY <1>2, <1>3, <1>4, <2>0, <3>1, <5>1, <5>2, <5>3 DEF FsrLeaves
      <4> QED BY <4>2, <4>3
    <3>2. CASE fsr.type = "opendir"
      <4>1. s = FsRequest!Opendir(fsr) /\ fsr.ptr = "NULL"
        <5>1. s = FsRequest!Opendir(fsr)
          BY <2>1, <3>2 DEF FsRequest!Succeeded, FsRequest!WithBufs, FsRequest!Stats
        <5>2. fsr.ptr = "NULL"
          BY <1>2, <3>2 DEF FsRequest!WithDir
        <5> QED BY <5>1, <5>2
      <4>2. /\ DOMAIN s = FsrFields /\ s.type = fsr.type /\ s.cb = fsr.cb /\ s.path = fsr.path /\ s.cursor = 0
            /\ s.wrong = FALSE /\ s.bufs = "NULL" /\ s.DIR = TRUE /\ s.result = 0 /\ s.ptr = "dir"
            /\ s.heap = fsr.heap \union {<<"dir", 0>>}
        BY <1>2, <2>0, <4>1 DEF FsRequest!Opendir, FsrFields, FsRequest!Block
      <4> QED BY <1>2, <1>3, <1>4, <2>0, <3>2, <4>2 DEF FsrLeaves
    <3>3. CASE fsr.type = "readdir"
      <4>1. s = FsRequest!Readdir(fsr, n) /\ fsr.ptr = "dir" /\ fsr.DIR
        <5>1. s = FsRequest!Readdir(fsr, n)
          BY <2>1, <3>3 DEF FsRequest!Succeeded, FsRequest!WithBufs, FsRequest!Stats
        <5>2. fsr.ptr = "dir" /\ fsr.DIR
          BY <1>2, <3>3 DEF FsRequest!WithDir
        <5> QED BY <5>1, <5>2
      <4>2. /\ DOMAIN s = FsrFields /\ s.type = fsr.type /\ s.cb = fsr.cb /\ s.path = fsr.path /\ s.cursor = 0
            /\ s.wrong = FALSE /\ s.bufs = "NULL" /\ s.DIR = fsr.DIR /\ s.result = n /\ s.ptr = "dir"
            /\ s.heap = fsr.heap \union FsRequest!Entries(n)
        BY <1>2, <2>0, <4>1 DEF FsRequest!Readdir, FsrFields
      <4>3. \A x : x \in FsRequest!Entries(n) <=> \E i \in 1..n : x = <<"name", i>>
        BY DEF FsRequest!Entries
      <4> QED BY <1>2, <1>3, <1>4, <2>0, <3>3, <4>1, <4>2, <4>3 DEF FsrLeaves
    <3>4. CASE fsr.type = "closedir"
      <4>1. s = FsRequest!Closedir(fsr) /\ fsr.ptr = "dir" /\ fsr.DIR
        <5>1. s = FsRequest!Closedir(fsr)
          BY <2>1, <3>4 DEF FsRequest!Succeeded, FsRequest!WithBufs, FsRequest!Stats
        <5>2. fsr.ptr = "dir" /\ fsr.DIR
          BY <1>2, <3>4 DEF FsRequest!WithDir
        <5> QED BY <5>1, <5>2
      <4>2. FsRequest!Block("dir") = {<<"dir", 0>>} /\ FsRequest!Block("dir") \subseteq fsr.heap
        BY <1>3, <4>1 DEF FsRequest!Block
      <4>3. FsrFreed(fsr, FsRequest!Free(fsr, FsRequest!Block("dir")), FsRequest!Block("dir"))
        BY <1>2, <4>2, FsrFree
      <4>4. /\ DOMAIN s = FsrFields /\ s.type = fsr.type /\ s.cb = fsr.cb /\ s.path = fsr.path /\ s.cursor = 0
            /\ s.wrong = FALSE /\ s.bufs = "NULL" /\ s.DIR = FALSE /\ s.result = 0 /\ s.ptr = "NULL"
            /\ s.heap = fsr.heap \ {<<"dir", 0>>}
        BY <1>2, <2>0, <4>1, <4>2, <4>3 DEF FsRequest!Closedir, FsrFreed, FsrFields
      <4> QED BY <1>2, <1>3, <1>4, <2>0, <3>4, <4>4 DEF FsrLeaves
    <3>5. CASE fsr.type \in {"readlink", "realpath", "statfs"}
      <4>1. s = FsRequest!Linked(fsr) /\ fsr.ptr = "NULL"
        <5>1. s = FsRequest!Linked(fsr)
          BY <2>1, <3>5 DEF FsRequest!Succeeded, FsRequest!WithBufs, FsRequest!Stats
        <5>2. fsr.ptr = "NULL"
          BY <1>2, <3>5 DEF FsRequest!WithDir
        <5> QED BY <5>1, <5>2
      <4>2. /\ DOMAIN s = FsrFields /\ s.type = fsr.type /\ s.cb = fsr.cb /\ s.path = fsr.path /\ s.cursor = 0
            /\ s.wrong = FALSE /\ s.bufs = "NULL" /\ s.DIR = fsr.DIR /\ s.result = 0 /\ s.ptr = "link"
            /\ s.heap = fsr.heap \union {<<"link", 0>>}
        BY <1>2, <2>0, <4>1 DEF FsRequest!Linked, FsrFields, FsRequest!Block
      <4> QED BY <1>2, <1>3, <1>4, <2>0, <3>5, <4>2 DEF FsrLeaves
    <3>6. CASE fsr.type \in FsRequest!Stats
      <4>1. s = [fsr EXCEPT !.ptr = "statbuf"]
        BY <1>8, <2>1, <3>6 DEF FsRequest!Succeeded, FsRequest!WithBufs, FsRequest!Stats
      <4>2. /\ DOMAIN s = FsrFields /\ s.type = fsr.type /\ s.cb = fsr.cb /\ s.path = fsr.path /\ s.cursor = 0
            /\ s.wrong = FALSE /\ s.bufs = "NULL" /\ s.DIR = fsr.DIR /\ s.result = 0 /\ s.ptr = "statbuf"
            /\ s.heap = fsr.heap
        BY <1>2, <2>0, <4>1 DEF FsrFields
      <4>3. s.type \notin {"closedir", "readdir"}
        BY <3>6, <4>2 DEF FsRequest!Stats
      <4> QED BY <1>2, <1>3, <1>4, <2>0, <3>6, <4>2, <4>3 DEF FsrLeaves
    <3>7. CASE fsr.type \notin {"scandir", "opendir", "readdir", "closedir", "readlink", "realpath", "statfs"} \union FsRequest!Stats
      <4>1. s = fsr /\ fsr.ptr = "NULL"
        BY <1>2, <1>8, <2>1, <3>7 DEF FsRequest!Succeeded, FsRequest!WithDir
      <4> QED BY <1>2, <1>3, <1>4, <2>0, <3>7, <4>1 DEF FsrLeaves
    <3> QED BY <3>1, <3>2, <3>3, <3>4, <3>5, <3>6, <3>7
  <2>2. fsr' = [FsRequest!Succeeded(fsr, n) EXCEPT !.phase = IF fsr.cb THEN "done" ELSE "returned"]
    BY <1>1, <1>8
  <2> QED BY <1>2, <2>1, <2>2, FsrLeft
<1> QED BY <1>6, <1>7, <1>8

\* What a step of cleanup leaves of fsr's request.
FsrRest(s) ==
    /\ DOMAIN s = FsrFields /\ s.wrong = FALSE
    /\ s.phase = fsr.phase /\ s.type = fsr.type /\ s.cb = fsr.cb /\ s.result = fsr.result
    /\ s.cursor = fsr.cursor /\ s.DIR = fsr.DIR
    /\ \A x : x \in s.heap <=> FsrStands(s, x)

LEMMA FsrCleanup == ASSUME FsrConstants, FsrInv, FsRequest!Cleanup PROVE FsrInv'
<1> DEFINE p == [(IF FsRequest!OwnsPath(fsr) THEN FsRequest!Free(fsr, FsRequest!Block(fsr.path)) ELSE fsr) EXCEPT !.path = "NULL"]
<1> DEFINE q == CASE p.type = "readdir" /\ p.ptr # "NULL" -> FsRequest!ReaddirCleanup(p)
                  [] p.type = "scandir" /\ p.ptr # "NULL" -> FsRequest!ScandirCleanup(p)
                  [] OTHER -> p
<1> DEFINE b == [(IF q.bufs # "bufsml" THEN FsRequest!Free(q, FsRequest!Block(q.bufs)) ELSE q) EXCEPT !.bufs = "NULL"]
<1> DEFINE c == IF b.type # "opendir" /\ b.ptr # "statbuf" THEN FsRequest!Free(b, FsRequest!Block(b.ptr)) ELSE b
<1>1. /\ fsr.phase \in {"returned", "none"}
      /\ fsr' = [c EXCEPT !.ptr = "NULL", !.phase = "none",
                          !.DIR = IF fsr.type = "closedir" THEN FALSE ELSE @]
  BY DEF FsRequest!Cleanup
<1>2. FsrRest(fsr)
  BY DEF FsrInv, FsrTyped, FsrHeap, FsrRest
<1>3. FsrRest(p) /\ p.path = "NULL" /\ p.bufs = fsr.bufs /\ p.ptr = fsr.ptr
  <2>1. CASE FsRequest!OwnsPath(fsr)
    <3>1. fsr.path = "copy"
      BY <2>1 DEF FsRequest!OwnsPath, FsrInv, FsrTyped, FsrPointers
    <3>2. FsRequest!Block(fsr.path) = {<<"copy", 0>>} /\ FsRequest!Block(fsr.path) \subseteq fsr.heap
      BY <1>2, <3>1 DEF FsRequest!Block, FsrRest, FsrStands
    <3>3. FsrFreed(fsr, FsRequest!Free(fsr, FsRequest!Block(fsr.path)), FsRequest!Block(fsr.path))
      BY <1>2, <3>2, FsrFree DEF FsrRest
    <3>4. p = [FsRequest!Free(fsr, FsRequest!Block(fsr.path)) EXCEPT !.path = "NULL"]
      BY <2>1
    <3> HIDE DEF p
    <3>5. /\ DOMAIN p = FsrFields /\ p.wrong = FALSE /\ p.path = "NULL" /\ p.bufs = fsr.bufs /\ p.ptr = fsr.ptr
          /\ p.phase = fsr.phase /\ p.type = fsr.type /\ p.cb = fsr.cb /\ p.result = fsr.result
          /\ p.cursor = fsr.cursor /\ p.DIR = fsr.DIR /\ p.heap = fsr.heap \ {<<"copy", 0>>}
      BY <3>2, <3>3, <3>4 DEF FsrFreed, FsrFields
    <3>6. FsRequest!FirstLeft(p) = FsRequest!FirstLeft(fsr)
      BY <3>5 DEF FsRequest!FirstLeft
    <3>7. \A x : x \in p.heap <=> FsrStands(p, x)
      BY <1>2, <3>1, <3>5, <3>6 DEF FsrRest, FsrStands
    <3> QED BY <3>5, <3>7 DEF FsrRest
  <2>2. CASE ~FsRequest!OwnsPath(fsr)
    <3>1. fsr.path # "copy"
      BY <2>2 DEF FsRequest!OwnsPath, FsrInv, FsrTyped, FsrPointers
    <3>2. p = [fsr EXCEPT !.path = "NULL"]
      BY <2>2
    <3> HIDE DEF p
    <3>3. /\ DOMAIN p = FsrFields /\ p.wrong = FALSE /\ p.path = "NULL" /\ p.bufs = fsr.bufs /\ p.ptr = fsr.ptr
          /\ p.phase = fsr.phase /\ p.type = fsr.type /\ p.cb = fsr.cb /\ p.result = fsr.result
          /\ p.cursor = fsr.cursor /\ p.DIR = fsr.DIR /\ p.heap = fsr.heap
      BY <1>2, <3>2 DEF FsrRest, FsrFields
    <3>4. FsRequest!FirstLeft(p) = FsRequest!FirstLeft(fsr)
      BY <3>3 DEF FsRequest!FirstLeft
    <3>5. \A x : x \in p.heap <=> FsrStands(p, x)
      BY <1>2, <3>1, <3>3, <3>4 DEF FsrRest, FsrStands
    <3> QED BY <3>3, <3>5 DEF FsrRest
  <2> QED BY <2>1, <2>2
<1> HIDE DEF p
<1>4. FsrRest(q) /\ q.path = "NULL" /\ q.bufs = fsr.bufs /\ q.ptr # "dents" /\ (q.ptr = "dir" => fsr.type \in {"closedir", "opendir"})
      /\ (q.ptr = "NULL" \/ q.ptr = fsr.ptr)
  <2>1. CASE fsr.type = "readdir" /\ fsr.ptr # "NULL"
    <3>1. fsr.ptr = "dir" /\ fsr.phase \in FsrEnded
      BY <1>1, <2>1 DEF FsrInv, FsrTyped, FsrPointers, FsRequest!Stats, FsrEnded
    <3>2. PICK names : names = FsRequest!Entries(IF p.result > 0 THEN p.result ELSE 0)
      OBVIOUS
    <3>3. \A x : x \in names <=> \E i \in 1..p.result : x = <<"name", i>>
      <4>1. p.result \in Int
        <5>1. \A i \in -1..MaxEntries : i \in Int
          OBVIOUS
        <5> QED BY <1>3, <5>1 DEF FsrRest, FsrInv, FsrTyped
      <4>2. CASE p.result > 0
        BY <3>2, <4>2 DEF FsRequest!Entries
      <4>3. CASE ~(p.result > 0)
        <5>1. \A i : i \notin 1..p.result /\ i \notin 1..0
          BY <4>1, <4>3
        <5> QED BY <3>2, <4>3, <5>1 DEF FsRequest!Entries
      <4> QED BY <4>2, <4>3
    <3>4. \A x : x \in names => FsrStands(p, x)
      BY <1>3, <2>1, <3>1, <3>3 DEF FsrRest, FsrStands
    <3>5. FsrFreed(p, FsRequest!Free(p, names), names)
      BY <1>3, <3>4, FsrFree DEF FsrRest
    <3>6. q = [FsRequest!Free(p, names) EXCEPT !.ptr = "NULL"]
      <4>1. p.type = "readdir" /\ p.ptr # "NULL"
        BY <1>3, <2>1 DEF FsrRest
      <4> QED BY <3>2, <4>1 DEF FsRequest!ReaddirCleanup
    <3> HIDE DEF q
    <3>7. /\ DOMAIN q = FsrFields /\ q.wrong = FALSE /\ q.path = "NULL" /\ q.bufs = fsr.bufs /\ q.ptr = "NULL"
          /\ q.phase = fsr.phase /\ q.type = fsr.type /\ q.cb = fsr.cb /\ q.result = fsr.result
          /\ q.cursor = fsr.cursor /\ q.DIR = fsr.DIR /\ q.heap = p.heap \ names
      BY <1>3, <3>5, <3>6 DEF FsrFreed, FsrRest, FsrFields
    <3>8. \A x : x \in p.heap <=> \/ fsr.bufs = "bufs" /\ x = <<"bufs", 0>>
                                  \/ fsr.DIR /\ x = <<"dir", 0>>
                                  \/ x \in names
      BY <1>3, <2>1, <3>1, <3>3 DEF FsrRest, FsrStands
    <3>9. \A x : x \in names => x[1] = "name"
      BY <3>3
    <3>10. <<"bufs", 0>> \notin names /\ <<"dir", 0>> \notin names
      BY <3>9
    <3>11. \A x : x \in q.heap <=> FsrStands(q, x)
      BY <3>7, <3>8, <3>10 DEF FsrStands
    <3> QED BY <3>7, <3>11 DEF FsrRest
  <2>2. CASE fsr.type = "scandir" /\ fsr.ptr # "NULL"
    <3>1. fsr.ptr = "dents"
      BY <2>2 DEF FsrInv, FsrTyped, FsrPointers, FsRequest!Stats
    <3>2. PICK dents : dents = {<<"dent", i>> : i \in FsRequest!FirstLeft(p) + 1..p.result} \union FsRequest!Block("dents")
      OBVIOUS
    <3>3. \A x : x \in dents <=> x = <<"dents", 0>> \/ \E i \in FsRequest!FirstLeft(p) + 1..p.result : x = <<"dent", i>>
      BY <3>2 DEF FsRequest!Block
    <3>4. \A x : x \in dents => FsrStands(p, x)
      BY <1>3, <3>1, <3>3 DEF FsrStands
    <3>5. FsrFreed(p, FsRequest!Free(p, dents), dents)
      BY <1>3, <3>4, FsrFree DEF FsrRest
    <3>6. q = [FsRequest!Free(p, dents) EXCEPT !.ptr = "NULL"]
      <4>1. p.type = "scandir" /\ p.ptr # "NULL"
        BY <1>3, <2>2 DEF FsrRest
      <4> QED BY <3>2, <4>1 DEF FsRequest!ScandirCleanup
    <3> HIDE DEF q
    <3>7. /\ DOMAIN q = FsrFields /\ q.wrong = FALSE /\ q.path = "NULL" /\ q.bufs = fsr.bufs /\ q.ptr = "NULL"
          /\ q.phase = fsr.phase /\ q.type = fsr.type /\ q.cb = fsr.cb /\ q.result = fsr.result
          /\ q.cursor = fsr.cursor /\ q.DIR = fsr.DIR /\ q.heap = p.heap \ dents
      BY <1>3, <3>5, <3>6 DEF FsrFreed, FsrRest, FsrFields
    <3>8. \A x : x \in p.heap <=> \/ fsr.bufs = "bufs" /\ x = <<"bufs", 0>>
                                  \/ fsr.DIR /\ x = <<"dir", 0>>
                                  \/ x \in dents
      BY <1>3, <2>2, <3>1, <3>3 DEF FsrRest, FsrStands
    <3>9. \A x : x \in dents => x[1] \in {"dents", "dent"}
      BY <3>3
    <3>10. <<"bufs", 0>> \notin dents /\ <<"dir", 0>> \notin dents
      BY <3>9
    <3>11. \A x : x \in q.heap <=> FsrStands(q, x)
      BY <2>2, <3>7, <3>8, <3>10 DEF FsrStands
    <3> QED BY <3>7, <3>11 DEF FsrRest
  <2>3. CASE ~(fsr.type = "readdir" /\ fsr.ptr # "NULL") /\ ~(fsr.type = "scandir" /\ fsr.ptr # "NULL")
    <3>1. q = p
      BY <1>3, <2>3 DEF FsrRest
    <3>2. fsr.ptr # "dents" /\ (fsr.ptr = "dir" => fsr.type \in {"closedir", "opendir"})
      BY <2>3 DEF FsrInv, FsrPointers
    <3> QED BY <1>3, <3>1, <3>2
  <2> QED BY <2>1, <2>2, <2>3
<1> HIDE DEF q
<1>5. FsrRest(b) /\ b.path = "NULL" /\ b.bufs = "NULL" /\ b.ptr = q.ptr
  <2>0. q.bufs \in {"NULL", "bufs", "bufsml"}
    BY <1>1, <1>4 DEF FsrInv, FsrTyped, FsrPointers
  <2>1. FsRequest!Block(q.bufs) = IF q.bufs = "NULL" THEN {} ELSE {<<q.bufs, 0>>}
    BY DEF FsRequest!Block
  <2>2. CASE q.bufs # "bufsml"
    <3>1. FsRequest!Block(q.bufs) \subseteq q.heap
      BY <1>4, <2>0, <2>1, <2>2 DEF FsrRest, FsrStands
    <3>2. FsrFreed(q, FsRequest!Free(q, FsRequest!Block(q.bufs)), FsRequest!Block(q.bufs))
      BY <1>4, <3>1, FsrFree DEF FsrRest
    <3>3. b = [FsRequest!Free(q, FsRequest!Block(q.bufs)) EXCEPT !.bufs = "NULL"]
      BY <2>2
    <3> HIDE DEF b
    <3>4. /\ DOMAIN b = FsrFields /\ b.wrong = FALSE /\ b.path = "NULL" /\ b.bufs = "NULL" /\ b.ptr = q.ptr
          /\ b.phase = fsr.phase /\ b.type = fsr.type /\ b.cb = fsr.cb /\ b.result = fsr.result
          /\ b.cursor = fsr.cursor /\ b.DIR = fsr.DIR /\ b.heap = q.heap \ FsRequest!Block(q.bufs)
      BY <1>4, <3>2, <3>3 DEF FsrFreed, FsrRest, FsrFields
    <3>5. \A x : x \in b.heap <=> FsrStands(b, x)
      BY <1>4, <2>0, <2>1, <2>2, <3>4 DEF FsrRest, FsrStands
    <3> QED BY <3>4, <3>5 DEF FsrRest
  <2>3. CASE q.bufs = "bufsml"
    <3>1. b = [q EXCEPT !.bufs = "NULL"]
      BY <2>3
    <3> HIDE DEF b
    <3>2. /\ DOMAIN b = FsrFields /\ b.wrong = FALSE /\ b.path = "NULL" /\ b.bufs = "NULL" /\ b.ptr = q.ptr
          /\ b.phase = fsr.phase /\ b.type = fsr.type /\ b.cb = fsr.cb /\ b.result = fsr.result
          /\ b.cursor = fsr.cursor /\ b.DIR = fsr.DIR /\ b.heap = q.heap
      BY <1>4, <3>1 DEF FsrRest, FsrFields
    <3>3. \A x : x \in b.heap <=> FsrStands(b, x)
      BY <1>4, <2>3, <3>2 DEF FsrRest, FsrStands
    <3> QED BY <3>2, <3>3 DEF FsrRest
  <2> QED BY <2>2, <2>3
<1> HIDE DEF b
<1>6. \A x : x \in b.heap <=> (fsr.DIR /\ x = <<"dir", 0>>) \/ (b.ptr = "link" /\ x = <<"link", 0>>)
  <2>1. ~(b.type = "readdir" /\ b.ptr = "dir") /\ b.ptr # "dents"
    BY <1>4, <1>5 DEF FsrRest
  <2> QED BY <1>5, <2>1 DEF FsrRest, FsrStands
<1>7. /\ DOMAIN c = FsrFields /\ c.wrong = FALSE /\ c.path = "NULL" /\ c.bufs = "NULL"
      /\ c.type = fsr.type /\ c.cb = fsr.cb /\ c.result = fsr.result /\ c.cursor = fsr.cursor /\ c.DIR = fsr.DIR
      /\ \A x : x \in c.heap <=> fsr.DIR /\ fsr.type # "closedir" /\ x = <<"dir", 0>>
  <2>0. /\ fsr.ptr \in {"NULL", "dir", "dents", "link", "statbuf"} /\ b.type = fsr.type
        /\ fsr.ptr = "dir" => fsr.DIR
        /\ fsr.ptr = "link" => fsr.type # "opendir" /\ fsr.type # "closedir"
        /\ fsr.ptr = "statbuf" => fsr.type # "closedir"
        /\ fsr.type = "closedir" => (fsr.ptr = "dir" <=> fsr.DIR)
    BY <1>1, <1>5 DEF FsrInv, FsrTyped, FsrPointers, FsrRest, FsrEnded, FsRequest!Stats
  <2>1. b.ptr \in {"NULL", "dir", "link", "statbuf"} /\ (b.ptr # "NULL" => b.ptr = fsr.ptr)
    BY <1>4, <1>5, <2>0
  <2>2. fsr.type = "closedir" => b.ptr = fsr.ptr
    <3>1. fsr.type = "closedir" => p.type # "readdir" /\ p.type # "scandir"
      BY <1>3 DEF FsrRest
    <3>2. fsr.type = "closedir" => q = p
      BY <3>1 DEF q
    <3> QED BY <1>3, <1>5, <3>2
  <2>3. FsRequest!Block(b.ptr) = IF b.ptr = "NULL" THEN {} ELSE {<<b.ptr, 0>>}
    BY DEF FsRequest!Block
  <2>4. CASE b.type # "opendir" /\ b.ptr # "statbuf"
    <3>1. FsRequest!Block(b.ptr) \subseteq b.heap
      BY <1>6, <2>0, <2>1, <2>3, <2>4
    <3>2. FsrFreed(b, FsRequest!Free(b, FsRequest!Block(b.ptr)), FsRequest!Block(b.ptr))
      BY <1>5, <3>1, FsrFree DEF FsrRest
    <3>3. c = FsRequest!Free(b, FsRequest!Block(b.ptr))
      BY <2>4
    <3> HIDE DEF c
    <3>4. b.ptr = "dir" => fsr.type = "closedir"
      BY <1>4, <1>5, <2>0, <2>4
    <3>5. \A x : x \in c.heap <=> fsr.DIR /\ fsr.type # "closedir" /\ x = <<"dir", 0>>
      BY <1>6, <2>0, <2>1, <2>2, <2>3, <2>4, <3>2, <3>3, <3>4 DEF FsrFreed
    <3> QED BY <1>5, <3>2, <3>3, <3>5 DEF FsrFreed, FsrRest
  <2>5. CASE ~(b.type # "opendir" /\ b.ptr # "statbuf")
    <3>1. c = b
      BY <2>5
    <3>2. fsr.type # "closedir" /\ b.ptr # "link"
      BY <2>0, <2>1, <2>5
    <3> QED BY <1>5, <1>6, <3>1, <3>2 DEF FsrRest
  <2> QED BY <2>4, <2>5
<1> HIDE DEF c
<1>8. /\ DOMAIN fsr' = FsrFields /\ fsr'.wrong = FALSE /\ fsr'.path = "NULL" /\ fsr'.bufs = "NULL"
      /\ fsr'.ptr = "NULL" /\ fsr'.phase = "none" /\ fsr'.type = fsr.type /\ fsr'.cb = fsr.cb
      /\ fsr'.result = fsr.result /\ fsr'.cursor = fsr.cursor /\ fsr'.heap = c.heap
      /\ fsr'.DIR = (IF fsr.type = "closedir" THEN FALSE ELSE fsr.DIR)
  BY <1>1, <1>7 DEF FsrFields
<1>9. FsrTyped'
  BY <1>8 DEF FsrInv, FsrTyped
<1>10. FsrPointers'
  BY <1>8 DEF FsrPointers, FsrEnded
<1>11. FsrHeap'
  BY <1>7, <1>8 DEF FsrHeap, FsrStands
<1> QED BY <1>8, <1>9, <1>10, <1>11 DEF FsrInv

LEMMA FsrStep == ASSUME FsrConstants, FsrInv, FsRequest!Next PROVE FsrInv'
  BY FsrSubmit, FsrNoMemory, FsrWaits, FsrWork, FsrScandirNext, FsrCleanup DEF FsRequest!Next

LEMMA FsrKeeps ==
    ASSUME FsrConstants, FsrInv
    PROVE  FsRequest!TypeOK /\ FsRequest!AssertsHold /\ FsRequest!ClosedIsClean
<1>1. FsRequest!TypeOK /\ FsRequest!AssertsHold
  BY DEF FsrInv, FsrTyped, FsRequest!TypeOK, FsRequest!AssertsHold
<1>2. ASSUME fsr.phase = "none" PROVE fsr.heap = IF fsr.DIR THEN FsRequest!Block("dir") ELSE {}
  <2>1. \A x : x \in fsr.heap <=> fsr.DIR /\ x = <<"dir", 0>>
    <3>1. fsr.path = "NULL" /\ fsr.bufs = "NULL" /\ fsr.ptr = "NULL"
      BY <1>2 DEF FsrInv, FsrPointers
    <3> QED BY <3>1 DEF FsrInv, FsrHeap, FsrStands
  <2>2. FsRequest!Block("dir") = {<<"dir", 0>>}
    BY DEF FsRequest!Block
  <2> QED BY <2>1, <2>2
<1>3. FsRequest!ClosedIsClean
  BY <1>2 DEF FsRequest!ClosedIsClean
<1> QED BY <1>1, <1>3

LEMMA FsrChanges ==
    ASSUME FsrConstants, FsrInv, [FsRequest!Next]_fsr
    PROVE  FsrInv'
<1>1. CASE FsRequest!Next
  BY <1>1, FsrStep
<1>2. CASE UNCHANGED fsr
  BY <1>2, ZenonT(40) DEF FsrInv, FsrHeap, FsrPointers, FsrTyped
<1> QED BY <1>1, <1>2

\* A file system request, for any type and any number of directory entries: what is allocated is
\* what its fields point to, nothing is freed twice or read after it was freed, and uv_fs_req_cleanup
\* leaves nothing.
THEOREM FsRequestCorrect ==
    ASSUME FsrConstants
    PROVE  FsRequest!Spec => [](FsRequest!TypeOK /\ FsRequest!AssertsHold /\ FsRequest!ClosedIsClean)
<1>1. ASSUME FsRequest!Init PROVE FsrInv
  BY <1>1, FsrBegins
<1>2. ASSUME FsrInv, [FsRequest!Next]_fsr PROVE FsrInv'
  BY <1>2, FsrChanges
<1>3. FsrInv => FsRequest!TypeOK /\ FsRequest!AssertsHold /\ FsRequest!ClosedIsClean
  BY FsrKeeps
<1> QED BY <1>1, <1>2, <1>3, PTL DEF FsRequest!Spec

-----------------------------------------------------------------------------
(* Names and random bytes *)

LookConstants == BufLen \in Nat /\ Stride \in Nat

LookFields == {"at", "kind", "async", "parts", "buf", "bad", "retcode", "told", "given", "fd", "from",
               "len", "pos", "most", "active"}

LookTyped ==
    /\ look.at \in {"none", "queued", "running", "cancelled", "done", "told"}
    /\ look.kind \in Lookups!Kinds \union {"none"} /\ look.parts \subseteq Lookups!Parts /\ look.bad = FALSE
    /\ look.len \in 0..BufLen /\ look.pos \in 0..look.len /\ look.most \in 0..Stride
    /\ look.fd \in BOOLEAN

\* While a request is under way it is registered; the buffer is known by its first part.
LookUnderWay ==
    /\ look.at \in {"none", "told"} => look.buf = "null" /\ look.active = 0 /\ look.parts = {}
    /\ look.at \notin {"none", "told"} => look.active = 1
    /\ look.kind = "getaddrinfo" /\ look.at \notin {"none", "told"} =>
         look.parts # {} /\ look.buf = Lookups!FirstPart(look.parts)
    /\ look.kind # "getaddrinfo" => look.buf = "null" /\ look.parts = {}
    /\ look.at \in {"queued", "cancelled"} => look.retcode = "0" /\ look.pos = 0
    /\ look.at = "running" => look.retcode = "0"

\* The device is open while bytes come from it, and what was not all got is an error.
LookBytes ==
    /\ look.fd => look.at = "running" /\ look.kind = "random" /\ look.from = "device"
    /\ look.at = "done" /\ look.kind = "random" /\ look.retcode = "0" => look.pos = look.len
    /\ look.at = "told" => /\ (look.told = "0" <=> look.given)
                           /\ look.given /\ look.kind = "random" => look.pos = look.len

LookInv == DOMAIN look = LookFields /\ LookTyped /\ LookUnderWay /\ LookBytes

LEMMA LookBegins == ASSUME LookConstants, Lookups!Init PROVE LookInv
  BY DEF LookConstants, Lookups!Init, LookInv, LookFields, LookTyped, LookUnderWay, LookBytes, Lookups!Kinds

\* The first part is where the buffer was made.
LEMMA LookFirst ==
    ASSUME NEW parts \in SUBSET Lookups!Parts, parts \intersect {"service", "hostname"} # {}
    PROVE  Lookups!Allocated(parts) = Lookups!FirstPart(parts) /\ parts # {}
<1> DEFINE place == [hints |-> 1, service |-> 2, hostname |-> 3]
<1>1. place["hints"] = 1 /\ place["service"] = 2 /\ place["hostname"] = 3
  OBVIOUS
<1> HIDE DEF place
<1>2. Lookups!FirstPart(parts) \in parts /\ \A q \in parts : place[Lookups!FirstPart(parts)] <= place[q]
  BY <1>1 DEF Lookups!FirstPart, Lookups!Parts
<1>3. \A p \in parts : (\A q \in parts : place[p] <= place[q]) => p = Lookups!FirstPart(parts)
  <2>1. ASSUME NEW p \in parts, \A q \in parts : place[p] <= place[q] PROVE p = Lookups!FirstPart(parts)
    <3>1. place[p] <= place[Lookups!FirstPart(parts)] /\ place[Lookups!FirstPart(parts)] <= place[p]
      BY <1>2, <2>1
    <3> QED BY <1>1, <3>1 DEF Lookups!FirstPart, Lookups!Parts
  <2> QED BY <2>1
<1>4. Lookups!Allocated(parts) = CHOOSE p \in parts : \A q \in parts : place[p] <= place[q]
  BY DEF Lookups!Allocated, place
<1> QED BY <1>2, <1>3, <1>4

\* A request that starts.
LEMMA LookStarts ==
    ASSUME LookConstants, LookInv, look.at = "none", DOMAIN look' = LookFields,
           look'.at \in {"queued", "running"}, look'.kind \in Lookups!Kinds, look'.retcode = "0",
           look'.active = look.active + 1, look'.pos = 0, look'.most = 0, look'.bad = look.bad,
           look'.fd = look.fd, look'.len \in 0..BufLen, look'.parts \subseteq Lookups!Parts,
           \/ look'.kind = "getaddrinfo" /\ look'.parts # {} /\ look'.buf = Lookups!FirstPart(look'.parts)
           \/ look'.kind # "getaddrinfo" /\ look'.parts = {} /\ look'.buf = "null"
    PROVE  LookInv'
<1>1. LookTyped'
  <2>1. 0 \in 0..look'.len /\ 0 \in 0..Stride
    BY DEF LookConstants
  <2> QED BY <2>1 DEF LookInv, LookTyped
<1>2. LookUnderWay' /\ LookBytes'
  BY DEF LookInv, LookUnderWay, LookBytes
<1> QED BY <1>1, <1>2 DEF LookInv

LEMMA LookCalls ==
    ASSUME LookConstants, LookInv,
           \/ \E parts \in SUBSET Lookups!Parts, async \in BOOLEAN : Lookups!GetAddrInfo(parts, async)
           \/ \E async \in BOOLEAN : Lookups!GetNameInfo(async) \/ \E n \in 0..BufLen : Lookups!Random(n, async)
    PROVE  LookInv'
<1>0. 0 \in 0..BufLen /\ DOMAIN look = LookFields
  BY DEF LookConstants, LookInv
<1>1. ASSUME NEW parts \in SUBSET Lookups!Parts, NEW async \in BOOLEAN, Lookups!GetAddrInfo(parts, async) PROVE LookInv'
  <2>1. /\ look.at = "none" /\ parts \intersect {"service", "hostname"} # {}
        /\ look' = [Lookups!Started("getaddrinfo", async) EXCEPT !.parts = parts, !.buf = Lookups!Allocated(parts)]
    BY <1>1 DEF Lookups!GetAddrInfo
  <2>2. Lookups!Allocated(parts) = Lookups!FirstPart(parts) /\ parts # {}
    BY <2>1, LookFirst
  <2>3. /\ DOMAIN look' = LookFields /\ look'.at \in {"queued", "running"} /\ look'.kind = "getaddrinfo"
        /\ look'.retcode = "0" /\ look'.active = look.active + 1 /\ look'.pos = 0 /\ look'.most = 0
        /\ look'.bad = look.bad /\ look'.fd = look.fd /\ look'.len = 0 /\ look'.parts = parts
        /\ look'.buf = Lookups!Allocated(parts)
    BY <1>0, <2>1 DEF Lookups!Started, LookFields
  <2> QED BY <1>0, <2>1, <2>2, <2>3, LookStarts DEF Lookups!Kinds
<1>2. ASSUME NEW async \in BOOLEAN, Lookups!GetNameInfo(async) PROVE LookInv'
  <2>1. look.at = "none" /\ look' = Lookups!Started("getnameinfo", async)
    BY <1>2 DEF Lookups!GetNameInfo
  <2>2. look.parts = {} /\ look.buf = "null"
    BY <2>1 DEF LookInv, LookUnderWay
  <2>3. /\ DOMAIN look' = LookFields /\ look'.at \in {"queued", "running"} /\ look'.kind = "getnameinfo"
        /\ look'.retcode = "0" /\ look'.active = look.active + 1 /\ look'.pos = 0 /\ look'.most = 0
        /\ look'.bad = look.bad /\ look'.fd = look.fd /\ look'.len = 0 /\ look'.parts = {}
        /\ look'.buf = "null"
    BY <1>0, <2>1, <2>2 DEF Lookups!Started, LookFields
  <2> QED BY <1>0, <2>1, <2>3, LookStarts DEF Lookups!Kinds
<1>3. ASSUME NEW async \in BOOLEAN, NEW n \in 0..BufLen, Lookups!Random(n, async) PROVE LookInv'
  <2>1. look.at = "none" /\ look' = [Lookups!Started("random", async) EXCEPT !.len = n, !.from = "entropy"]
    BY <1>3 DEF Lookups!Random
  <2>2. look.parts = {} /\ look.buf = "null"
    BY <2>1 DEF LookInv, LookUnderWay
  <2>3. /\ DOMAIN look' = LookFields /\ look'.at \in {"queued", "running"} /\ look'.kind = "random"
        /\ look'.retcode = "0" /\ look'.active = look.active + 1 /\ look'.pos = 0 /\ look'.most = 0
        /\ look'.bad = look.bad /\ look'.fd = look.fd /\ look'.len = n /\ look'.parts = {}
        /\ look'.buf = "null"
    BY <1>0, <2>1, <2>2 DEF Lookups!Started, LookFields
  <2> QED BY <2>1, <2>3, LookStarts DEF Lookups!Kinds
<1> QED BY <1>1, <1>2, <1>3

\* What the work may leave, and where: what the parts are, and that it is registered, stays.
LEMMA LookWorks ==
    ASSUME LookConstants, LookInv, look.at \in {"queued", "running"}, DOMAIN look' = LookFields,
           look'.kind = look.kind, look'.parts = look.parts, look'.buf = look.buf, look'.bad = look.bad,
           look'.active = look.active, look'.len = look.len,
           look'.at \in {"running", "cancelled", "done"},
           look'.pos \in 0..look.len, look'.most \in 0..Stride, look'.fd \in BOOLEAN,
           look'.at = "running" => look'.retcode = "0",
           look'.at = "cancelled" => look'.retcode = "0" /\ look'.pos = 0,
           look'.fd => look'.at = "running" /\ look.kind = "random" /\ look'.from = "device",
           look'.at = "done" /\ look.kind = "random" /\ look'.retcode = "0" => look'.pos = look.len
    PROVE  LookInv'
<1>1. LookTyped'
  BY DEF LookInv, LookTyped
<1>2. LookUnderWay'
  BY DEF LookInv, LookUnderWay
<1>3. LookBytes'
  BY DEF LookBytes
<1> QED BY <1>1, <1>2, <1>3 DEF LookInv

LEMMA LookWaits == ASSUME LookConstants, LookInv, Lookups!Cancel \/ Lookups!Taken PROVE LookInv'
<1>1. /\ look.at = "queued" /\ DOMAIN look = LookFields /\ look.retcode = "0" /\ look.pos = 0
      /\ look.most \in 0..Stride /\ look.pos \in 0..look.len /\ ~look.fd /\ look.fd \in BOOLEAN
  BY DEF Lookups!Cancel, Lookups!Taken, LookInv, LookTyped, LookUnderWay, LookBytes
<1>2. \/ look' = [look EXCEPT !.at = "cancelled"]
      \/ look' = [look EXCEPT !.at = "running"]
  BY DEF Lookups!Cancel, Lookups!Taken
<1>3. /\ DOMAIN look' = LookFields /\ look'.at \in {"cancelled", "running"}
      /\ look'.kind = look.kind /\ look'.parts = look.parts /\ look'.buf = look.buf /\ look'.bad = look.bad
      /\ look'.active = look.active /\ look'.len = look.len /\ look'.pos = look.pos /\ look'.most = look.most
      /\ look'.fd = look.fd /\ look'.retcode = look.retcode
  BY <1>1, <1>2 DEF LookFields
<1> QED BY <1>1, <1>3, LookWorks

LEMMA LookLookup == ASSUME LookConstants, LookInv, Lookups!Lookup PROVE LookInv'
<1>1. /\ look.at = "running" /\ look.kind # "random" /\ DOMAIN look = LookFields /\ look.most \in 0..Stride
      /\ look.pos \in 0..look.len /\ ~look.fd /\ look.fd \in BOOLEAN
  BY DEF Lookups!Lookup, LookInv, LookTyped, LookBytes
<1>2. PICK r : look' = [look EXCEPT !.at = "done", !.retcode = r]
  BY DEF Lookups!Lookup, Lookups!Result
<1>3. /\ DOMAIN look' = LookFields /\ look'.at = "done"
      /\ look'.kind = look.kind /\ look'.parts = look.parts /\ look'.buf = look.buf /\ look'.bad = look.bad
      /\ look'.active = look.active /\ look'.len = look.len /\ look'.pos = look.pos /\ look'.most = look.most
      /\ look'.fd = look.fd
  BY <1>1, <1>2 DEF LookFields
<1> QED BY <1>1, <1>3, LookWorks

LEMMA LookGetEntropy == ASSUME LookConstants, LookInv, Lookups!GetEntropy PROVE LookInv'
<1>1. /\ look.at = "running" /\ look.kind = "random" /\ look.from = "entropy" /\ DOMAIN look = LookFields
      /\ look.most \in 0..Stride /\ look.pos \in 0..look.len /\ ~look.fd /\ look.fd \in BOOLEAN
      /\ look.retcode = "0" /\ look.len \in 0..BufLen
  BY DEF Lookups!GetEntropy, LookInv, LookTyped, LookUnderWay, LookBytes
<1>2. CASE look' = [look EXCEPT !.from = "device", !.fd = TRUE]
  <2>1. /\ DOMAIN look' = LookFields /\ look'.at = "running" /\ look'.from = "device" /\ look'.retcode = "0"
        /\ look'.kind = look.kind /\ look'.parts = look.parts /\ look'.buf = look.buf /\ look'.bad = look.bad
        /\ look'.active = look.active /\ look'.len = look.len /\ look'.pos = look.pos /\ look'.most = look.most
        /\ look'.fd = TRUE
    BY <1>1, <1>2 DEF LookFields
  <2> QED BY <1>1, <2>1, LookWorks
<1>3. CASE Lookups!Result("error")
  <2>1. /\ DOMAIN look' = LookFields /\ look'.at = "done" /\ look'.retcode = "error"
        /\ look'.kind = look.kind /\ look'.parts = look.parts /\ look'.buf = look.buf /\ look'.bad = look.bad
        /\ look'.active = look.active /\ look'.len = look.len /\ look'.pos = look.pos /\ look'.most = look.most
        /\ look'.fd = look.fd
    BY <1>1, <1>3 DEF Lookups!Result, LookFields
  <2> QED BY <1>1, <2>1, LookWorks
<1>4. ASSUME NEW n, n = Lookups!Piece(look.pos, look.len),
             look' = [look EXCEPT !.pos = @ + n, !.most = IF n > @ THEN n ELSE @,
                                  !.at = IF look.pos + n = look.len THEN "done" ELSE @]
      PROVE  LookInv'
  <2>1. look.len \in Nat /\ look.pos \in Nat /\ look.pos <= look.len /\ Stride \in Nat
    BY <1>1 DEF LookConstants
  <2>2. n \in 0..Stride /\ look.pos + n \in 0..look.len
    BY <1>4, <2>1 DEF Lookups!Piece
  <2>3. PICK most : most = IF n > look.most THEN n ELSE look.most
    OBVIOUS
  <2>4. most \in 0..Stride
    BY <1>1, <2>2, <2>3
  <2>5. /\ DOMAIN look' = LookFields /\ look'.at = (IF look.pos + n = look.len THEN "done" ELSE "running")
        /\ look'.retcode = "0" /\ look'.from = "entropy"
        /\ look'.kind = look.kind /\ look'.parts = look.parts /\ look'.buf = look.buf /\ look'.bad = look.bad
        /\ look'.active = look.active /\ look'.len = look.len /\ look'.pos = look.pos + n /\ look'.most = most
        /\ look'.fd = look.fd
    BY <1>1, <1>4, <2>3 DEF LookFields
  <2> QED BY <1>1, <2>2, <2>4, <2>5, LookWorks
<1> QED BY <1>2, <1>3, <1>4 DEF Lookups!GetEntropy

LEMMA LookReadDevice == ASSUME LookConstants, LookInv, Lookups!ReadDevice PROVE LookInv'
<1>1. /\ look.at = "running" /\ look.kind = "random" /\ look.from = "device" /\ DOMAIN look = LookFields
      /\ look.most \in 0..Stride /\ look.pos \in 0..look.len /\ look.fd \in BOOLEAN
      /\ look.retcode = "0" /\ look.len \in 0..BufLen
  BY DEF Lookups!ReadDevice, LookInv, LookTyped, LookUnderWay
<1>2. CASE Lookups!Filled(look.pos, look.len) /\ look' = [look EXCEPT !.fd = FALSE, !.at = "done"]
  <2>1. /\ DOMAIN look' = LookFields /\ look'.at = "done" /\ look'.retcode = "0" /\ look.pos = look.len
        /\ look'.kind = look.kind /\ look'.parts = look.parts /\ look'.buf = look.buf /\ look'.bad = look.bad
        /\ look'.active = look.active /\ look'.len = look.len /\ look'.pos = look.pos /\ look'.most = look.most
        /\ look'.fd = FALSE
    BY <1>1, <1>2 DEF LookFields, Lookups!Filled
  <2> QED BY <1>1, <2>1, LookWorks
<1>3. ASSUME NEW n \in 1..look.len - look.pos, look' = [look EXCEPT !.pos = @ + n] PROVE LookInv'
  <2>1. look.pos + n \in 0..look.len
    BY <1>1
  <2>2. /\ DOMAIN look' = LookFields /\ look'.at = "running" /\ look'.retcode = "0" /\ look'.from = "device"
        /\ look'.kind = look.kind /\ look'.parts = look.parts /\ look'.buf = look.buf /\ look'.bad = look.bad
        /\ look'.active = look.active /\ look'.len = look.len /\ look'.pos = look.pos + n /\ look'.most = look.most
        /\ look'.fd = look.fd
    BY <1>1, <1>3 DEF LookFields
  <2> QED BY <1>1, <2>1, <2>2, LookWorks
<1>4. CASE look' = [look EXCEPT !.fd = FALSE, !.at = "done", !.retcode = "error"]
  <2>1. /\ DOMAIN look' = LookFields /\ look'.at = "done" /\ look'.retcode = "error"
        /\ look'.kind = look.kind /\ look'.parts = look.parts /\ look'.buf = look.buf /\ look'.bad = look.bad
        /\ look'.active = look.active /\ look'.len = look.len /\ look'.pos = look.pos /\ look'.most = look.most
        /\ look'.fd = FALSE
    BY <1>1, <1>4 DEF LookFields
  <2> QED BY <1>1, <2>1, LookWorks
<1> QED BY <1>2, <1>3, <1>4 DEF Lookups!ReadDevice

LEMMA LookDone == ASSUME LookConstants, LookInv, Lookups!Done PROVE LookInv'
<1>1. /\ look.at \in {"done", "cancelled"} /\ DOMAIN look = LookFields /\ look.active = 1 /\ look.bad = FALSE
      /\ ~look.fd
      /\ look.kind = "getaddrinfo" => look.parts # {} /\ look.buf = Lookups!FirstPart(look.parts)
      /\ look.kind # "getaddrinfo" => look.parts = {} /\ look.buf = "null"
  BY DEF Lookups!Done, LookInv, LookTyped, LookUnderWay, LookBytes
<1>2. PICK buf, bad :
        /\ look' = [look EXCEPT !.at = "told", !.active = @ - 1, !.told = Lookups!Verdict(look),
                      !.given = Lookups!Verdict(look) = "0", !.bad = bad, !.parts = {}, !.buf = buf]
        /\ bad = (look.bad \/ (look.kind = "getaddrinfo" /\ Lookups!FirstPart(look.parts) # look.buf))
        /\ buf = IF Lookups!FirstPart(look.parts) = look.buf THEN "null" ELSE look.buf
  BY DEF Lookups!Done
<1>3. bad = FALSE /\ buf = "null"
  BY <1>1, <1>2
<1>4. /\ DOMAIN look' = LookFields /\ look'.at = "told" /\ look'.active = 0 /\ look'.told = Lookups!Verdict(look)
      /\ look'.given = (Lookups!Verdict(look) = "0") /\ look'.bad = FALSE /\ look'.parts = {} /\ look'.buf = "null"
      /\ look'.kind = look.kind /\ look'.fd = look.fd /\ look'.len = look.len /\ look'.pos = look.pos
      /\ look'.most = look.most
  BY <1>1, <1>2, <1>3 DEF LookFields
<1>5. Lookups!Verdict(look) = "0" => look.at = "done" /\ look.retcode = "0"
  BY <1>1 DEF Lookups!Verdict
<1>6. LookTyped' /\ LookUnderWay'
  BY <1>4 DEF LookInv, LookTyped, LookUnderWay
<1>7. LookBytes'
  BY <1>1, <1>4, <1>5 DEF LookInv, LookBytes
<1> QED BY <1>4, <1>6, <1>7 DEF LookInv

LEMMA LookAgain == ASSUME LookConstants, LookInv, Lookups!Again PROVE LookInv'
<1>1. /\ look.at = "told" /\ DOMAIN look' = LookFields /\ look'.at = "none" /\ look'.kind = look.kind
      /\ look'.parts = look.parts /\ look'.buf = look.buf /\ look'.bad = look.bad
      /\ look'.active = look.active /\ look'.len = look.len /\ look'.pos = look.pos /\ look'.most = look.most
      /\ look'.fd = look.fd
  BY DEF Lookups!Again, LookInv, LookFields
<1>2. LookTyped' /\ LookUnderWay' /\ LookBytes'
  BY <1>1 DEF LookInv, LookTyped, LookUnderWay, LookBytes
<1> QED BY <1>1, <1>2 DEF LookInv

LEMMA LookStep == ASSUME LookConstants, LookInv, Lookups!Next PROVE LookInv'
  BY LookCalls, LookWaits, LookLookup, LookGetEntropy, LookReadDevice, LookDone, LookAgain DEF Lookups!Next

LEMMA LookKeeps ==
    ASSUME LookConstants, LookInv
    PROVE  Lookups!TypeOK /\ Lookups!ClosedIsClean /\ Lookups!ToldTheTruth /\ Lookups!AssertsHold
<1>1. Lookups!TypeOK
  BY DEF LookInv, LookTyped, Lookups!TypeOK
<1>2. Lookups!ClosedIsClean /\ Lookups!ToldTheTruth
  BY DEF LookInv, LookTyped, LookUnderWay, LookBytes, Lookups!ClosedIsClean, Lookups!ToldTheTruth
<1>3. look.most <= Stride
  BY DEF LookConstants, LookInv, LookTyped
<1>4. Lookups!AssertsHold
  BY <1>3 DEF LookInv, LookUnderWay, Lookups!AssertsHold
<1> QED BY <1>1, <1>2, <1>4

LEMMA LookChanges ==
    ASSUME LookConstants, LookInv, [Lookups!Next]_look
    PROVE  LookInv'
<1>1. CASE Lookups!Next
  BY <1>1, LookStep
<1>2. CASE UNCHANGED look
  BY <1>2 DEF LookInv, LookBytes, LookTyped, LookUnderWay
<1> QED BY <1>1, <1>2

\* Names and random bytes, for any length: the copy of the arguments is freed once and by its first
\* part, the device is closed, and who is told of success got every byte that was asked for.
THEOREM LookupsCorrect ==
    ASSUME LookConstants
    PROVE  Lookups!Spec => [](Lookups!TypeOK /\ Lookups!ClosedIsClean /\ Lookups!ToldTheTruth /\
                              Lookups!AssertsHold)
<1>1. ASSUME Lookups!Init PROVE LookInv
  BY <1>1, LookBegins
<1>2. ASSUME LookInv, [Lookups!Next]_look PROVE LookInv'
  BY <1>2, LookChanges
<1>3. LookInv => Lookups!TypeOK /\ Lookups!ClosedIsClean /\ Lookups!ToldTheTruth /\ Lookups!AssertsHold
  BY LookKeeps
<1> QED BY <1>1, <1>2, <1>3, PTL DEF Lookups!Spec

\* The descriptors are handed on in the order they came: the program's are older than the one that
\* waits for uv_accept, and the queued ones younger.
Ascends(q) == \A i, j \in 1..Len(q) : i < j => q[i] < q[j]

AccTold ==
    /\ Ascends(acc.clients) /\ Ascends(acc.queued)
    /\ acc.accepted_fd # 0 => \A d : Contains(acc.clients, d) => d < acc.accepted_fd
    /\ \A d : Contains(acc.queued, d) => acc.accepted_fd < d

LEMMA AscendsAppend ==
    ASSUME NEW m \in Nat, NEW q \in Seq(1..m), NEW x \in 1..m, Ascends(q),
           \A y : Contains(q, y) => y < x
    PROVE  Ascends(Append(q, x))
<1>1. /\ Len(q) \in Nat /\ Len(Append(q, x)) = Len(q) + 1
      /\ \A i \in 1..Len(q) : Append(q, x)[i] = q[i] /\ q[i] < x
      /\ Append(q, x)[Len(q) + 1] = x
  BY DEF Contains
<1> QED BY <1>1 DEF Ascends

LEMMA AscendsTail ==
    ASSUME NEW m \in Nat, NEW q \in Seq(1..m), q # <<>>, Ascends(q)
    PROVE  Ascends(Tail(q)) /\ \A y : Contains(Tail(q), y) => Head(q) < y
<1>1. /\ Len(q) \in Nat \ {0} /\ Len(Tail(q)) = Len(q) - 1 /\ Head(q) = q[1]
      /\ \A i \in 1..(Len(q) - 1) : Tail(q)[i] = q[i + 1] /\ i + 1 \in 1..Len(q)
  BY EmptySeq
<1> QED BY <1>1 DEF Ascends, Contains

LEMMA AscendsConcat ==
    ASSUME NEW m \in Nat, NEW p \in Seq(1..m), NEW q \in Seq(1..m), Ascends(p), Ascends(q),
           \A x, y : Contains(p, x) /\ Contains(q, y) => x < y
    PROVE  Ascends(p \o q)
<1>0. PICK r, a, b : r = p \o q /\ a = Len(p) /\ b = Len(q)
  OBVIOUS
<1>1. /\ a \in Nat /\ b \in Nat /\ Len(r) = a + b
      /\ \A i \in 1..a : r[i] = p[i] /\ p[i] \in Int
      /\ \A i \in (a + 1)..(a + b) : r[i] = q[i - a] /\ q[i - a] \in Int /\ i - a \in 1..b
  <2>1. /\ \A i \in 1..Len(p) : p[i] \in Int
        /\ \A i \in 1..Len(q) : q[i] \in Int
    BY ElementOfSeq
  <2>2. /\ Len(p) \in Nat /\ Len(q) \in Nat /\ Len(p \o q) = Len(p) + Len(q)
        /\ \A i \in 1..(Len(p) + Len(q)) : (p \o q)[i] = IF i <= Len(p) THEN p[i] ELSE q[i - Len(p)]
    BY ConcatProperties
  <2>3. ASSUME NEW i \in 1..a PROVE r[i] = p[i] /\ p[i] \in Int
    BY <1>0, <2>1, <2>2, <2>3
  <2>4. ASSUME NEW i \in (a + 1)..(a + b)
        PROVE  r[i] = q[i - a] /\ q[i - a] \in Int /\ i - a \in 1..b
    <3>1. i - a \in 1..b /\ i \in 1..(a + b) /\ ~(i <= a)
      BY <1>0, <2>2, <2>4
    <3> QED BY ONLY <1>0, <2>1, <2>2, <3>1
  <2> QED BY ONLY <1>0, <2>2, <2>3, <2>4
<1>2. /\ \A i, j \in 1..a : i < j => p[i] < p[j]
      /\ \A i, j \in 1..b : i < j => q[i] < q[j]
      /\ \A i \in 1..a, j \in 1..b : p[i] < q[j]
  BY <1>0 DEF Ascends, Contains
<1>3. ASSUME NEW i \in 1..(a + b), NEW j \in 1..(a + b), i < j
      PROVE  r[i] < r[j]
  <2>1. CASE j <= a
    BY ONLY <1>1, <1>2, <1>3, <2>1
  <2>2. CASE a < i
    BY ONLY <1>1, <1>2, <1>3, <2>2
  <2>3. CASE i <= a /\ a < j
    BY ONLY <1>1, <1>2, <1>3, <2>3
  <2> QED BY ONLY <1>1, <1>3, <2>1, <2>2, <2>3
<1> QED BY <1>0, <1>1, <1>3 DEF Ascends

LEMMA AscendsRun ==
    ASSUME NEW from \in Nat \ {0}, NEW n \in Nat PROVE Ascends(Following(from, n))
  BY DEF Ascends, Following

LEMMA AccToldFirst == ASSUME Accept!Init PROVE AccTold
<1>1. acc.clients = <<>> /\ acc.queued = <<>> /\ acc.accepted_fd = 0
  BY DEF Accept!Init, Accept!NoFd
<1> QED BY <1>1, EmptyQueue DEF AccTold, Ascends

LEMMA AccTells == ASSUME AccConstants, AccInv, AccTold, [Accept!Next]_acc PROVE AccTold'
<1> DOMAIN acc = AccFields /\ AccTyped /\ AccQueues /\ AccPlaces /\ AccKinds /\ AccWatched
  BY DEF AccInv
<1>1. ASSUME acc'.clients = acc.clients, acc'.queued = acc.queued, acc'.accepted_fd = acc.accepted_fd
      PROVE  AccTold'
  BY <1>1 DEF AccTold
<1>2. CASE UNCHANGED acc
  BY <1>1, <1>2
<1>3. CASE Accept!TcpBind \/ Accept!PipeBind \/ Accept!Listen \/ Accept!ReadStart \/ Accept!ReadStop \/ Accept!Connects \/ Accept!NoDescriptors \/ Accept!CallbackReturns
  <2>1. CASE Accept!TcpBind
    <3>1. /\ acc'.clients = acc.clients /\ acc'.queued = acc.queued
          /\ acc'.accepted_fd = acc.accepted_fd
      <4>1. \/ \E inUse \in BOOLEAN : acc' = [acc EXCEPT !.fd = TRUE, !.delayed_error = inUse]
            \/ acc' = [acc EXCEPT !.fd = TRUE]
        BY <2>1, Zenon DEF Accept!TcpBind
      <4>2. CASE acc' = [acc EXCEPT !.fd = TRUE]
        BY <4>2 DEF AccFields
      <4>3. ASSUME NEW inUse, acc' = [acc EXCEPT !.fd = TRUE, !.delayed_error = inUse]
            PROVE  /\ acc'.clients = acc.clients /\ acc'.queued = acc.queued
                   /\ acc'.accepted_fd = acc.accepted_fd
        BY <4>3 DEF AccFields
      <4> QED BY <4>1, <4>2, <4>3, Zenon
    <3> QED BY <1>1, <3>1
  <2>4. CASE Accept!PipeBind
    BY <1>1, <2>4 DEF Accept!PipeBind, AccFields
  <2>2. CASE Accept!Listen \/ Accept!ReadStart \/ Accept!ReadStop
    BY <1>1, <2>2 DEF Accept!Listen, Accept!ReadStart, Accept!ReadStop, AccFields
  <2>3. CASE Accept!Connects \/ Accept!CallbackReturns
    BY <1>1, <2>3 DEF Accept!Connects, Accept!CallbackReturns, AccFields
  <2>5. CASE Accept!NoDescriptors
    BY <1>1, <2>5 DEF Accept!NoDescriptors, AccFields
  <2> QED BY <1>3, <2>1, <2>2, <2>3, <2>4, <2>5
<1>4. CASE Accept!Accepted
  <2>1. /\ acc.watch /\ acc.listening /\ acc.pc = "loop" /\ acc'.clients = acc.clients
        /\ acc'.queued = acc.queued /\ acc'.accepted_fd = Accept!Next1
    BY <1>4 DEF Accept!Accepted, AccFields
  <2>2. acc.queued = <<>>
    BY <2>1 DEF AccWatched, AccQueues
  <2>3. \A d : Contains(acc.clients, d) => d < Accept!Next1
    <3>1. \A d : Contains(acc.clients, d) => d \in 1..(acc.made - acc.backlog)
      BY DEF AccPlaces
    <3> QED BY <3>1 DEF Accept!Next1, AccTyped, AccConstants
  <2> QED BY <2>1, <2>2, <2>3, EmptyQueue DEF AccTold
<1>5. CASE Accept!Close
  <2>1. acc'.clients = acc.clients /\ acc'.queued = <<>> /\ acc'.accepted_fd = 0
    BY <1>5 DEF Accept!Close, AccFields, Accept!NoFd
  <2> QED BY <2>1, EmptyQueue DEF AccTold, Ascends
<1>6. ASSUME NEW k \in 1..MaxFds, Accept!Receive(k) PROVE AccTold'
  <2>1. acc.made \in Nat /\ acc.backlog = 0 /\ acc.made + k <= MaxFds /\ MaxFds \in Nat
        /\ acc.accepted_fd \in 0..MaxFds
    BY <1>6 DEF Accept!Receive, AccKinds, AccTyped, AccConstants
  <2>2. PICK f \in Nat, from \in Nat, n \in Nat :
          /\ acc.accepted_fd = 0 => f = acc.made + 1 /\ from = acc.made + 2
          /\ acc.accepted_fd # 0 => f = acc.accepted_fd /\ from = acc.made + 1
          /\ from + n <= MaxFds + 1
          /\ acc'.clients = acc.clients /\ acc'.accepted_fd = f
          /\ acc'.queued = acc.queued \o Following(from, n)
    <3> DEFINE first == acc.made + 1
               last == acc.made + k
               start == IF acc.accepted_fd = Accept!NoFd THEN first + 1 ELSE first
    <3>1. PICK n \in 0..(last - start + 1) :
              acc' = [[acc EXCEPT !.made = last, !.pc = "callback", !.accepted_fd = IF @ = Accept!NoFd THEN first ELSE @]
                        EXCEPT !.queued = @ \o [i \in 1..n |-> start + i - 1],
                               !.size = Accept!Room(acc.size, Len(acc.queued) + n),
                               !.closed = IF n = last - start + 1 THEN @ ELSE @ \union Accept!Dropped(start + n, last)]
      BY <1>6, ZenonT(60) DEF Accept!Receive
    <3>2. [i \in 1..n |-> start + i - 1] = Following(start, n)
      BY DEF Following
    <3>3. /\ acc'.clients = acc.clients
          /\ acc'.accepted_fd = (IF acc.accepted_fd = Accept!NoFd THEN first ELSE acc.accepted_fd)
          /\ acc'.queued = acc.queued \o [i \in 1..n |-> start + i - 1]
      BY <3>1 DEF AccFields
    <3>4. start \in Nat /\ n \in Nat /\ start + n <= MaxFds + 1
      BY <2>1, <3>1
    <3>5. /\ acc.accepted_fd = 0 => acc'.accepted_fd = acc.made + 1 /\ start = acc.made + 2
          /\ acc.accepted_fd # 0 => acc'.accepted_fd = acc.accepted_fd /\ start = acc.made + 1
          /\ acc'.accepted_fd \in Nat
      BY <2>1, <3>3 DEF Accept!NoFd
    <3>6. acc'.queued = acc.queued \o Following(start, n)
      BY <3>2, <3>3
    <3> HIDE DEF start, first, last
    <3> QED BY <3>3, <3>4, <3>5, <3>6
  <2>3. \A d : Contains(acc.clients, d) \/ Contains(acc.queued, d) => d \in Int /\ 1 <= d /\ d <= acc.made
    BY <2>1 DEF AccPlaces
  <2>4. /\ Following(from, n) \in Seq(1..MaxFds) /\ Ascends(Following(from, n))
        /\ \A d : Contains(Following(from, n), d) <=> d \in Int /\ from <= d /\ d < from + n
    <3>1. from \in Nat \ {0} /\ from + n <= MaxFds + 1
      BY <2>1, <2>2
    <3>2. Ascends(Following(from, n))
      BY <3>1, AscendsRun
    <3> QED BY <2>1, <3>1, <3>2, AccRun
  <2>5. \A x, y : Contains(acc.queued, x) /\ Contains(Following(from, n), y) => x < y
    BY <2>1, <2>2, <2>3, <2>4
  <2>6. acc.queued \in Seq(1..MaxFds) /\ Ascends(acc.queued)
    BY DEF AccQueues, AccTold
  <2>7. Ascends(acc'.queued)
    BY <2>1, <2>2, <2>4, <2>5, <2>6, AscendsConcat
  <2>8. \A d : Contains(acc'.queued, d) <=> Contains(acc.queued, d) \/ Contains(Following(from, n), d)
    BY <2>2, <2>4, <2>6, ConcatQueue
  <2>9. \A d : Contains(acc'.queued, d) => f < d
    <3>1. CASE acc.accepted_fd = 0
      <4>1. acc.queued = <<>> /\ \A d : ~Contains(<<>>, d)
        BY <3>1, EmptyQueue DEF AccQueues
      <4> QED BY <2>1, <2>2, <2>4, <2>8, <3>1, <4>1
    <3>2. CASE acc.accepted_fd # 0
      <4>1. acc.accepted_fd <= acc.made
        BY <2>1, <3>2 DEF AccPlaces
      <4> QED BY <2>1, <2>2, <2>4, <2>8, <3>2, <4>1 DEF AccTold
    <3> QED BY <3>1, <3>2
  <2>10. \A d : Contains(acc.clients, d) => d < f
    BY <2>1, <2>2, <2>3 DEF AccTold
  <2> QED BY <2>2, <2>7, <2>9, <2>10 DEF AccTold
<1>7. ASSUME NEW ok \in BOOLEAN, Accept!AcceptInto(ok) PROVE AccTold'
  <2>1. /\ acc.accepted_fd # 0
        /\ acc'.clients = (IF ok THEN Append(acc.clients, acc.accepted_fd) ELSE acc.clients)
        /\ acc'.accepted_fd = (IF acc.queued = <<>> THEN 0 ELSE Head(acc.queued))
        /\ acc'.queued = (IF acc.queued = <<>> THEN acc.queued ELSE Tail(acc.queued))
    BY <1>7 DEF Accept!AcceptInto, Accept!WithoutFirst, AccFields, Accept!NoFd
  <2>2. acc.accepted_fd \in 1..MaxFds /\ MaxFds \in Nat
    BY <2>1 DEF AccTyped, AccConstants
  <2>3. acc.clients \in Seq(1..MaxFds) /\ acc.queued \in Seq(1..MaxFds)
    BY DEF AccQueues
  <2>4. \A d : Contains(acc.clients, d) => d < acc.accepted_fd
    BY <2>1 DEF AccTold
  <2>5. Ascends(Append(acc.clients, acc.accepted_fd))
    BY <2>2, <2>3, <2>4, AscendsAppend DEF AccTold
  <2>6. Ascends(acc'.clients)
    BY <2>1, <2>5 DEF AccTold
  <2>7. \A d : Contains(acc'.clients, d) => Contains(acc.clients, d) \/ d = acc.accepted_fd
    BY <2>1, <2>2, <2>3, AppendQueue DEF AccQueues
  <2>8. CASE acc.queued = <<>>
    BY <2>1, <2>6, <2>8, EmptyQueue DEF AccTold
  <2>9. CASE acc.queued # <<>>
    <3>1. Ascends(Tail(acc.queued)) /\ \A y : Contains(Tail(acc.queued), y) => Head(acc.queued) < y
      BY <2>2, <2>3, <2>9, AscendsTail DEF AccTold
    <3>2. Contains(acc.queued, Head(acc.queued)) /\ Head(acc.queued) \in 1..MaxFds
      BY <2>3, <2>9, TailQueue
    <3>3. acc.accepted_fd < Head(acc.queued)
      BY <3>2 DEF AccTold
    <3>4. \A d : Contains(acc'.clients, d) => d \in Int /\ d < Head(acc.queued)
      <4>1. \A d : Contains(acc.clients, d) => d \in Int
        BY DEF AccPlaces
      <4> QED BY <2>2, <2>4, <2>7, <3>2, <3>3, <4>1
    <3> QED BY <2>1, <2>6, <2>9, <3>1, <3>4 DEF AccTold
  <2> QED BY <2>8, <2>9
<1> QED BY <1>2, <1>3, <1>4, <1>5, <1>6, <1>7 DEF Accept!Next

LEMMA AccTellsInOrder == ASSUME AccInv, AccTold PROVE Accept!InOrder
<1>1. DOMAIN acc.clients = 1..Len(acc.clients)
  BY DEF AccInv, AccQueues
<1> QED BY <1>1 DEF Accept!InOrder, AccTold, Ascends

\* While the array is walked, loop->watchers[nwatchers] points to it, so that no event in it is of
\* a file that was closed.
KqFresh(k) ==
    /\ k.wrong = FALSE
    /\ k.pc # "program" => k.nw # 0
    /\ k.pc \in {"dispatch", "callback"} =>
         k.list = k.nw /\ \A i \in DOMAIN k.batch : k.batch[i].stale = FALSE

LEMMA KqFreshFirst == ASSUME KqConstants, Kqueue!Init PROVE KqFresh(kq)
  BY DEF Kqueue!Init, KqFresh

LEMMA KqResizedFresh ==
    ASSUME NEW k, DOMAIN k = KqFields, k.nw \in Nat, k.list \in {0, k.nw}, NEW len \in 2..(KqTop + 1),
           KqFresh(k)
    PROVE  KqFresh(Kqueue!Resized(k, len))
<1>1. CASE len <= k.nw
  BY <1>1 DEF Kqueue!Resized
<1>2. CASE ~(len <= k.nw)
  <2>1. PICK r : r = Kqueue!Resized(k, len)
    OBVIOUS
  <2>2. PICK nw, list : nw = Kqueue!NextPowerOfTwo(len + 2) - 2 /\ list = Kqueue!ListMoved(k, nw)
    OBVIOUS
  <2>x. r = [k EXCEPT !.nw = nw, !.list = list]
    BY <1>2, <2>1, <2>2 DEF Kqueue!Resized
  <2>3. /\ r.nw = nw /\ r.list = list /\ r.pc = k.pc /\ r.batch = k.batch /\ r.wrong = k.wrong
    BY <2>x DEF KqFields
  <2>4. r.nw \in Nat /\ k.nw <= r.nw
    BY <2>1, KqResized
  <2>5. k.pc # "program" => r.nw # 0
    BY <2>4 DEF KqFresh
  <2>6. k.pc \in {"dispatch", "callback"} => r.list = r.nw
    BY <2>2, <2>3 DEF Kqueue!ListMoved, KqFresh
  <2> QED BY <2>1, <2>3, <2>5, <2>6 DEF KqFresh
<1> QED BY <1>1, <1>2

LEMMA KqEnqueuedFresh == ASSUME NEW k, DOMAIN k = KqFields, NEW w, KqFresh(k) PROVE KqFresh(Kqueue!Enqueue(k, w))
  BY DEF Kqueue!Enqueue, KqFresh, KqFields

LEMMA KqStartedFresh ==
    ASSUME KqConstants, NEW k, KqGood(k), KqFresh(k), NEW w \in Kqueue!All, NEW mask \in SUBSET Kqueue!Masks, k.fd[w] # 0
    PROVE  KqFresh(Kqueue!IoStart(k, w, mask))
<1> DOMAIN k = KqFields /\ KqTyped(k)
  BY DEF KqGood
<1>1. PICK c : c = [k EXCEPT !.pevents[w] = @ \union mask]
  OBVIOUS
<1>2. /\ DOMAIN c = KqFields /\ c.nw = k.nw /\ c.list = k.list /\ c.pc = k.pc
      /\ c.batch = k.batch /\ c.wrong = k.wrong
  BY <1>1 DEF KqFields
<1>3. c.nw \in Nat /\ c.list \in {0, c.nw} /\ KqFresh(c)
  BY <1>2 DEF KqTyped, KqFresh
<1>4. k.fd[w] + 1 \in 2..(KqTop + 1)
  <2>1. k.fd[w] \in Fds /\ \A g \in Fds : g \in 1..KqTop
    BY DEF KqTyped, KqConstants
  <2> QED BY <2>1, KqTopIs, SMT
<1>5. PICK a : a = Kqueue!Resized(c, k.fd[w] + 1)
  OBVIOUS
<1>6. KqFresh(a) /\ DOMAIN a = KqFields
  <2>1. DOMAIN a = DOMAIN c
    BY <1>2, <1>3, <1>4, <1>5, KqResized
  <2> QED BY <1>2, <1>3, <1>4, <1>5, <2>1, KqResizedFresh
<1>7. PICK b : b = Kqueue!Enqueue(a, w)
  OBVIOUS
<1>8. KqFresh(b) /\ DOMAIN b = KqFields
  <2>1. DOMAIN b = DOMAIN a
    BY <1>7 DEF Kqueue!Enqueue
  <2> QED BY <1>6, <1>7, <2>1, KqEnqueuedFresh
<1>9. Kqueue!IoStart(k, w, mask) \in
        {a, b, [b EXCEPT !.watchers[b.fd[w]] = w, !.nfds = @ + 1]}
  BY <1>1, <1>5, <1>7 DEF Kqueue!IoStart
<1>10. KqFresh([b EXCEPT !.watchers[b.fd[w]] = w, !.nfds = @ + 1])
  BY <1>8 DEF KqFresh, KqFields
<1> QED BY <1>6, <1>8, <1>9, <1>10

LEMMA KqStoppedFresh ==
    ASSUME NEW k, DOMAIN k = KqFields, KqFresh(k), NEW w, NEW mask
    PROVE  KqFresh(Kqueue!IoStop(k, w, mask)) /\ Kqueue!IoStop(k, w, mask).list = k.list
<1>1. PICK a : a = [k EXCEPT !.pevents[w] = @ \ mask]
  OBVIOUS
<1>2. /\ DOMAIN a = KqFields /\ a.nw = k.nw /\ a.list = k.list /\ a.pc = k.pc
      /\ a.batch = k.batch /\ a.wrong = k.wrong
  BY <1>1 DEF KqFields
<1>3. KqFresh(a)
  BY <1>2 DEF KqFresh
<1>4. PICK r : r = Kqueue!IoStop(k, w, mask)
  OBVIOUS
<1>5. \/ r = k \/ r = Kqueue!Enqueue(a, w)
      \/ r = [a EXCEPT !.queue = Kqueue!Dequeued(k, w), !.events[w] = {},
                       !.deleted = {d \in @ : d[1] # w},
                       !.nfds = IF a.watchers[k.fd[w]] = w THEN @ - 1 ELSE @,
                       !.watchers[k.fd[w]] = IF @ = w THEN Kqueue!NULL ELSE @]
  BY <1>1, <1>4 DEF Kqueue!IoStop
<1>6. CASE r = k
  BY <1>4, <1>6
<1>7. CASE r = Kqueue!Enqueue(a, w)
  <2>1. r.list = a.list
    BY <1>2, <1>7 DEF Kqueue!Enqueue, KqFields
  <2> QED BY <1>2, <1>3, <1>4, <1>7, <2>1, KqEnqueuedFresh
<1>8. CASE r = [a EXCEPT !.queue = Kqueue!Dequeued(k, w), !.events[w] = {},
                       !.deleted = {d \in @ : d[1] # w},
                       !.nfds = IF a.watchers[k.fd[w]] = w THEN @ - 1 ELSE @,
                       !.watchers[k.fd[w]] = IF @ = w THEN Kqueue!NULL ELSE @]
  <2>1. /\ r.nw = k.nw /\ r.list = k.list /\ r.pc = k.pc /\ r.batch = k.batch /\ r.wrong = k.wrong
    BY <1>2, <1>8 DEF KqFields
  <2> QED BY <1>4, <2>1 DEF KqFresh
<1> QED BY <1>5, <1>6, <1>7, <1>8

\* An event of the file is struck out, so that closing the file leaves nothing stale.
LEMMA KqInvalidatedFresh ==
    ASSUME NEW k, KqGood(k), KqBatch(k), KqFresh(k), NEW f, f # -1
    PROVE  /\ KqFresh(Kqueue!Invalidate(k, f))
           /\ k.pc \in {"dispatch", "callback"} => \A i \in DOMAIN Kqueue!Invalidate(k, f).batch :
                Kqueue!Invalidate(k, f).batch[i].filter # "PROC" => Kqueue!Invalidate(k, f).batch[i].fd # f
<1> DOMAIN k = KqFields /\ KqTyped(k)
  BY DEF KqGood
<1>1. CASE k.list # k.nw \/ k.list = 0
  <2>1. Kqueue!Invalidate(k, f) = k
    BY <1>1 DEF Kqueue!Invalidate
  <2>2. k.pc \notin {"dispatch", "callback"}
    BY <1>1 DEF KqFresh
  <2> QED BY <2>1, <2>2
<1>2. CASE ~(k.list # k.nw \/ k.list = 0)
  <2> DEFINE g(i) == IF k.batch[i].fd = f /\ Kqueue!OfFile(k.batch[i]) THEN [k.batch[i] EXCEPT !.fd = -1] ELSE k.batch[i]
  <2>1. PICK r : r = Kqueue!Invalidate(k, f)
    OBVIOUS
  <2>2. r = [k EXCEPT !.batch = [i \in DOMAIN k.batch |-> g(i)]]
    BY <1>2, <2>1 DEF Kqueue!Invalidate
  <2>3. /\ r.batch = [i \in DOMAIN k.batch |-> g(i)]
        /\ r.pc = k.pc /\ r.nw = k.nw /\ r.list = k.list /\ r.wrong = k.wrong
    BY <2>2 DEF KqFields
  <2>4. ASSUME k.pc \in {"dispatch", "callback"}, NEW i \in DOMAIN k.batch
        PROVE  g(i).stale = FALSE /\ (g(i).filter # "PROC" => g(i).fd # f)
    <3>1. k.batch[i] \in KqEntries /\ k.batch[i].stale = FALSE
      BY <2>4 DEF KqBatch, KqFresh
    <3>2. [k.batch[i] EXCEPT !.fd = -1].fd = -1 /\ [k.batch[i] EXCEPT !.fd = -1].stale = FALSE
      BY <3>1 DEF KqEntries
    <3> QED BY <3>1, <3>2 DEF Kqueue!OfFile
  <2> HIDE DEF g
  <2>5. \A i \in DOMAIN k.batch : r.batch[i] = g(i)
    BY <2>3
  <2>6. DOMAIN r.batch = DOMAIN k.batch
    BY <2>3
  <2>7. k.pc \in {"dispatch", "callback"} => \A i \in DOMAIN r.batch :
          r.batch[i].stale = FALSE /\ (r.batch[i].filter # "PROC" => r.batch[i].fd # f)
    BY <2>4, <2>5, <2>6
  <2>8. KqFresh(r)
    BY <2>3, <2>7 DEF KqFresh
  <2> QED BY <2>1, <2>7, <2>8
<1> QED BY <1>1, <1>2

LEMMA KqClosedFresh ==
    ASSUME KqConstants, NEW k, KqGood(k), KqBatch(k), KqFresh(k), NEW w \in Kqueue!All, k.fd[w] # 0
    PROVE  KqFresh(Kqueue!Closed(k, w))
<1> DOMAIN k = KqFields /\ KqTyped(k)
  BY DEF KqGood
<1>1. PICK s : s = Kqueue!IoStop(k, w, Kqueue!Masks)
  OBVIOUS
<1>2. KqGood(s) /\ KqBatch(s) /\ KqFresh(s) /\ s.pc = k.pc
  <2>1. Kqueue!Masks \in SUBSET Kqueue!Masks
    OBVIOUS
  <2>2. KqGood(s) /\ s.pc = k.pc /\ s.batch = k.batch /\ s.children = k.children
    BY <1>1, <2>1, KqStopped
  <2> QED BY <1>1, <2>2, KqStoppedFresh DEF KqBatch
<1>3. PICK f, a : f = k.fd[w] /\ a = Kqueue!Invalidate(s, f)
  OBVIOUS
<1>4. f # -1
  BY <1>3, KqMembers, KqNumbers
<1>5. /\ KqFresh(a) /\ a.pc = k.pc /\ DOMAIN a = KqFields
      /\ k.pc \in {"dispatch", "callback"} => \A i \in DOMAIN a.batch : a.batch[i].filter # "PROC" => a.batch[i].fd # f
  <2>1. a.pc = s.pc /\ DOMAIN a = DOMAIN s
    BY <1>2, <1>3, KqInvalidated
  <2>2. DOMAIN s = KqFields
    BY <1>2 DEF KqGood
  <2> QED BY <1>2, <1>3, <1>4, <2>1, <2>2, KqInvalidatedFresh
<1> DEFINE g(i) == IF a.batch[i].fd = f /\ a.batch[i].filter # "PROC" THEN [a.batch[i] EXCEPT !.stale = TRUE] ELSE a.batch[i]
<1>6. PICK r : r = Kqueue!Closed(k, w)
  OBVIOUS
<1>7. r = [a EXCEPT !.fd[w] = 0, !.filters = {x \in @ : x[1] # f}, !.batch = [i \in DOMAIN @ |-> g(i)]]
  BY <1>1, <1>3, <1>6 DEF Kqueue!Closed
<1>8. /\ r.batch = [i \in DOMAIN a.batch |-> g(i)] /\ r.pc = a.pc /\ r.nw = a.nw
      /\ r.list = a.list /\ r.wrong = a.wrong
  BY <1>5, <1>7 DEF KqFields
<1>9. ASSUME k.pc \in {"dispatch", "callback"}, NEW i \in DOMAIN a.batch PROVE g(i).stale = FALSE
  BY <1>5, <1>9 DEF KqFresh
<1> HIDE DEF g
<1>10. DOMAIN r.batch = DOMAIN a.batch /\ \A i \in DOMAIN a.batch : r.batch[i] = g(i)
  BY <1>8
<1>11. k.pc \in {"dispatch", "callback"} => \A i \in DOMAIN r.batch : r.batch[i].stale = FALSE
  BY <1>9, <1>10
<1> QED BY <1>5, <1>6, <1>8, <1>11 DEF KqFresh

LEMMA KqPollStoppedFresh ==
    ASSUME KqConstants, NEW k, KqGood(k), KqBatch(k), KqFresh(k), NEW w \in Kqueue!All
    PROVE  KqFresh(Kqueue!PollStopped(k, w))
<1> DOMAIN k = KqFields /\ KqTyped(k)
  BY DEF KqGood
<1>1. PICK s : s = Kqueue!IoStop(k, w, Kqueue!Masks)
  OBVIOUS
<1>2. KqGood(s) /\ KqBatch(s) /\ KqFresh(s)
  <2>1. Kqueue!Masks \in SUBSET Kqueue!Masks
    OBVIOUS
  <2>2. KqGood(s) /\ s.pc = k.pc /\ s.batch = k.batch /\ s.children = k.children
    BY <1>1, <2>1, KqStopped
  <2> QED BY <1>1, <2>2, KqStoppedFresh DEF KqBatch
<1>3. k.fd[w] # -1
  BY KqMembers, KqNumbers
<1> QED BY <1>1, <1>2, <1>3, KqInvalidatedFresh DEF Kqueue!PollStopped

LEMMA KqTells == ASSUME KqConstants, KqInv, KqFresh(kq), [Kqueue!Next]_kq PROVE KqFresh(kq')
<1> KqGood(kq) /\ KqBatch(kq) /\ DOMAIN kq = KqFields /\ KqTyped(kq)
  BY DEF KqInv, KqGood
<1>1. CASE UNCHANGED kq
  BY <1>1
<1>2. ASSUME NEW w \in Kqueue!All, Kqueue!Open(w) PROVE KqFresh(kq')
  BY <1>2 DEF Kqueue!Open, KqFresh, KqFields
<1>3. ASSUME NEW w \in Kqueue!All, Kqueue!Close(w) PROVE KqFresh(kq')
  BY <1>3, KqClosedFresh DEF Kqueue!Close
<1>4. ASSUME NEW w \in Kqueue!All, Kqueue!PollStop(w) PROVE KqFresh(kq')
  BY <1>4, KqPollStoppedFresh DEF Kqueue!PollStop
<1>5. ASSUME NEW w \in Kqueue!All, NEW e \in Kqueue!Masks, Kqueue!Start(w, e) PROVE KqFresh(kq')
  <2>1. {e} \in SUBSET Kqueue!Masks
    OBVIOUS
  <2> QED BY <1>5, <2>1, KqStartedFresh DEF Kqueue!Start
<1>6. ASSUME NEW w \in Kqueue!All, NEW e \in Kqueue!Masks, Kqueue!Stop(w, e) PROVE KqFresh(kq')
  BY <1>6, KqStoppedFresh DEF Kqueue!Stop
<1>7. ASSUME NEW w \in Kqueue!All, NEW mask \in SUBSET Kqueue!Masks, Kqueue!PollStart(w, mask) PROVE KqFresh(kq')
  <2>1. PICK k : k = Kqueue!PollStopped(kq, w)
    OBVIOUS
  <2>2. KqGood(k) /\ KqBatch(k) /\ KqFresh(k) /\ k.fd = kq.fd
    BY <2>1, KqPollStopped, KqPollStoppedFresh
  <2>3. kq' = (IF mask = {} THEN k ELSE Kqueue!IoStart(k, w, mask)) /\ k.fd[w] # 0
    BY <1>7, <2>1, <2>2 DEF Kqueue!PollStart
  <2> QED BY <2>2, <2>3, KqStartedFresh
<1>8. CASE Kqueue!Register
  <2>1. /\ kq'.pc = "poll" /\ kq'.nw = kq.nw /\ kq'.wrong = kq.wrong
    BY <1>8 DEF Kqueue!Register, KqFields
  <2>2. KqUsed(kq) # {}
    BY <1>8, FS_EmptySet DEF Kqueue!Register, KqGood, KqCounts
  <2>3. PICK f \in Fds : kq.watchers[f] # Kqueue!NULL
    BY <2>2 DEF KqUsed
  <2>4. kq.watchers[f] \in Kqueue!All /\ kq.fd[kq.watchers[f]] = f /\ kq.pevents[kq.watchers[f]] # {}
    BY <2>3 DEF KqGood, KqWatched, KqTyped
  <2>5. f < kq.nw
    BY <2>4 DEF KqGood, KqWatched
  <2>6. kq.nw # 0
    BY <2>5, KqNumbers
  <2> QED BY <2>1, <2>6 DEF KqFresh
<1>9. CASE Kqueue!Kevent
  <2>1. PICK b \in UNION {[1..n -> {e \in Kqueue!Entries : e.filter = "PROC" \/ <<e.fd, e.filter>> \in kq.filters}] : n \in 1..Full} :
        kq' = [kq EXCEPT !.batch = b, !.full = Len(b) = Full, !.list = kq.nw, !.pc = "dispatch",
                         !.children = Kqueue!Cardinality({i \in DOMAIN b : b[i].filter = "PROC"})]
    BY <1>9, Zenon DEF Kqueue!Kevent
  <2>2. \A i \in DOMAIN b : b[i].stale = FALSE
    <3>1. PICK n \in 1..Full : b \in [1..n -> {e \in Kqueue!Entries : e.filter = "PROC" \/ <<e.fd, e.filter>> \in kq.filters}]
      OBVIOUS
    <3>2. \A i \in DOMAIN b : b[i] \in Kqueue!Entries
      BY <3>1
    <3> QED BY <3>2 DEF Kqueue!Entries
  <2>3. /\ kq'.batch = b /\ kq'.list = kq.nw /\ kq'.pc = "dispatch" /\ kq'.nw = kq.nw
        /\ kq'.wrong = kq.wrong
    BY <2>1 DEF KqFields
  <2>4. kq.pc = "poll"
    BY <1>9 DEF Kqueue!Kevent
  <2> QED BY <2>2, <2>3, <2>4 DEF KqFresh
<1>10. CASE Kqueue!Timeout
  BY <1>10 DEF Kqueue!Timeout, KqFresh, KqFields
<1>11. CASE Kqueue!Dispatch
  <2>1. kq.pc = "dispatch" /\ kq.batch # <<>> /\ kq.batch \in Seq(KqEntries)
    BY <1>11 DEF Kqueue!Dispatch, KqBatch
  <2>2. PICK e, t, k : e = Head(kq.batch) /\ t = Tail(kq.batch) /\ k = [kq EXCEPT !.batch = Tail(@)]
    OBVIOUS
  <2>3. e.stale = FALSE /\ \A i \in DOMAIN t : t[i].stale = FALSE
    BY <2>1, <2>2, KqTail DEF KqFresh
  <2>4. /\ k.batch = t /\ DOMAIN k = KqFields /\ k.pc = "dispatch" /\ k.nw = kq.nw
        /\ k.list = kq.list /\ k.wrong = kq.wrong
    BY <2>1, <2>2 DEF KqFields
  <2>5. kq' = IF e.filter = "PROC"
              THEN [k EXCEPT !.reap = TRUE, !.children = IF e.fd = -1 THEN @ ELSE @ - 1]
              ELSE IF e.fd = -1 THEN k
              ELSE IF Kqueue!Unwanted(k, e)
              THEN [k EXCEPT !.filters = @ \ {<<e.fd, e.filter>>},
                       !.deleted = @ \union {<<w, e.filter>> : w \in {w \in Kqueue!All :
                           k.fd[w] = e.fd /\ e.filter \in k.events[w]}}]
              ELSE [k EXCEPT !.pc = "callback", !.wrong = @ \/ e.stale]
    BY <1>11, <2>2 DEF Kqueue!Dispatch
  <2>6. /\ kq'.batch = t /\ kq'.nw = kq.nw /\ kq'.list = kq.list
        /\ kq'.pc \in {"dispatch", "callback"}
        /\ kq'.wrong = kq.wrong \/ kq'.wrong = (kq.wrong \/ e.stale)
    BY <2>4, <2>5 DEF KqFields
  <2> QED BY <2>1, <2>3, <2>6 DEF KqFresh
<1>12. CASE Kqueue!CallbackReturns
  BY <1>12 DEF Kqueue!CallbackReturns, KqFresh, KqFields
<1>13. CASE Kqueue!Walked
  <2>1. /\ kq'.wrong = kq.wrong /\ kq'.nw = kq.nw /\ kq'.pc \in {"poll", "program"}
        /\ kq.pc = "dispatch"
    BY <1>13 DEF Kqueue!Walked, KqFields
  <2> QED BY <2>1 DEF KqFresh
<1> QED BY <1>1, <1>2, <1>3, <1>4, <1>5, <1>6, <1>7, <1>8, <1>9, <1>10, <1>11, <1>12, <1>13 DEF Kqueue!Next

LEMMA KqNothingStale == ASSUME KqFresh(kq) PROVE Kqueue!NoStaleEvent
  BY DEF KqFresh, Kqueue!NoStaleEvent

-----------------------------------------------------------------------------
(* The parts together *)

DarwinConstants ==
    /\ UdpConstants /\ AccConstants /\ SelConstants /\ TtyConstants /\ KqConstants
    /\ ProcConstants /\ FseConstants /\ FspConstants /\ BarConstants /\ FsrConstants
    /\ IoConstants /\ LookConstants /\ LlConstants /\ QryConstants /\ SpawnConstants

\* A step of one part is none of the others.
LEMMA OneAtATime ==
    ASSUME [DarwinNext]_allVars
    PROVE  /\ [Next]_vars /\ [Udp!Next]_udp /\ [Accept!Next]_acc /\ [Select!Next]_sel
           /\ [Tty!Next]_tty /\ [Descriptors!Next]_des /\ [Kqueue!Next]_kq /\ [Process!Next]_proc
           /\ [FsEvents!Next]_fse /\ [FsPoll!Next]_fsp /\ [Barrier!Next]_bar
           /\ [FsRequest!Next]_fsr /\ [FsIo!Next]_fio /\ [Lookups!Next]_look
           /\ [LoopLife!Next]_loops /\ [Queries!Next]_qry
<1>1. CASE UNCHANGED allVars
  BY <1>1 DEF allVars
<1>2. CASE DarwinNext
  BY <1>2 DEF DarwinNext, Only
<1> QED BY <1>1, <1>2

\* MCDarwin runs every part as it runs alone.
THEOREM RunsItsParts ==
    DarwinSpec =>
        /\ Spec /\ Udp!Spec /\ Accept!Spec /\ Select!Spec /\ Tty!Spec /\ Descriptors!Spec
        /\ Kqueue!Spec /\ Process!Spec /\ FsEvents!Spec /\ FsPoll!Spec /\ Barrier!Spec
        /\ FsRequest!Spec /\ FsIo!Spec /\ Lookups!Spec /\ LoopLife!Spec /\ Queries!Spec
<1>1. DarwinInit =>
        /\ Init /\ Udp!Init /\ Accept!Init /\ Select!Init /\ Tty!Init /\ Descriptors!Init
        /\ Kqueue!Init /\ Process!Init /\ FsEvents!Init /\ FsPoll!Init /\ Barrier!Init
        /\ FsRequest!Init /\ FsIo!Init /\ Lookups!Init /\ LoopLife!Init /\ Queries!Init
  BY DEF DarwinInit
<1>2. [DarwinNext]_allVars =>
        /\ [Next]_vars /\ [Udp!Next]_udp /\ [Accept!Next]_acc /\ [Select!Next]_sel
        /\ [Tty!Next]_tty /\ [Descriptors!Next]_des /\ [Kqueue!Next]_kq /\ [Process!Next]_proc
        /\ [FsEvents!Next]_fse /\ [FsPoll!Next]_fsp /\ [Barrier!Next]_bar /\ [FsRequest!Next]_fsr
        /\ [FsIo!Next]_fio /\ [Lookups!Next]_look /\ [LoopLife!Next]_loops /\ [Queries!Next]_qry
  BY OneAtATime
<1> QED BY <1>1, <1>2, PTL
        DEF DarwinSpec, Spec, Udp!Spec, Accept!Spec, Select!Spec, Tty!Spec, Descriptors!Spec, Kqueue!Spec,
            Process!Spec, FsEvents!Spec, FsPoll!Spec, Barrier!Spec, FsRequest!Spec, FsIo!Spec,
            Lookups!Spec, LoopLife!Spec, Queries!Spec

\* What every part keeps.
DarwinInv ==
    /\ UdpInv /\ AccInv /\ SelInv /\ TtyInv /\ DesInv /\ KqInv /\ ProcInv /\ FseInv /\ FspInv
    /\ BarInv /\ FsrInv /\ IoInv /\ LookInv /\ LlInv /\ QryInv

LEMMA DarwinBegins == ASSUME DarwinConstants, DarwinInit PROVE DarwinInv
<1> /\ UdpConstants /\ AccConstants /\ SelConstants /\ TtyConstants /\ KqConstants
    /\ ProcConstants /\ FseConstants /\ FspConstants /\ BarConstants /\ FsrConstants
    /\ IoConstants /\ LookConstants /\ LlConstants /\ QryConstants
  BY DEF DarwinConstants
<1> /\ Init /\ Udp!Init /\ Accept!Init /\ Select!Init /\ Tty!Init /\ Descriptors!Init
    /\ Kqueue!Init /\ Process!Init /\ FsEvents!Init /\ FsPoll!Init /\ Barrier!Init
    /\ FsRequest!Init /\ FsIo!Init /\ Lookups!Init /\ LoopLife!Init /\ Queries!Init
  BY DEF DarwinInit
<1>1. UdpInv
  BY UdpBegins
<1>2. AccInv
  BY AccBegins
<1>3. SelInv
  BY SelInit0
<1>4. TtyInv
  BY TtyBegins
<1>5. DesInv
  BY DesBegins
<1>6. KqInv
  BY KqBegins
<1>7. ProcInv
  BY ProcBegins
<1>8. FseInv
  BY FseBegins
<1>9. FspInv
  BY FspBegins
<1>10. BarInv
  BY BarBegins
<1>11. FsrInv
  BY FsrBegins
<1>12. IoInv
  BY IoBegins
<1>13. LookInv
  BY LookBegins
<1>14. LlInv
  BY LlBegins
<1>15. QryInv
  BY QryBegins
<1> QED BY <1>1, <1>2, <1>3, <1>4, <1>5, <1>6, <1>7, <1>8, <1>9, <1>10, <1>11, <1>12, <1>13, <1>14,
           <1>15 DEF DarwinInv

LEMMA DarwinStep == ASSUME DarwinConstants, DarwinInv, [DarwinNext]_allVars PROVE DarwinInv'
<1> /\ UdpConstants /\ AccConstants /\ SelConstants /\ TtyConstants /\ KqConstants
    /\ ProcConstants /\ FseConstants /\ FspConstants /\ BarConstants /\ FsrConstants
    /\ IoConstants /\ LookConstants /\ LlConstants /\ QryConstants
  BY DEF DarwinConstants
<1> /\ UdpInv /\ AccInv /\ SelInv /\ TtyInv /\ DesInv /\ KqInv /\ ProcInv /\ FseInv /\ FspInv
    /\ BarInv /\ FsrInv /\ IoInv /\ LookInv /\ LlInv /\ QryInv
  BY DEF DarwinInv
<1> /\ [Next]_vars /\ [Udp!Next]_udp /\ [Accept!Next]_acc /\ [Select!Next]_sel /\ [Tty!Next]_tty
    /\ [Descriptors!Next]_des /\ [Kqueue!Next]_kq /\ [Process!Next]_proc /\ [FsEvents!Next]_fse
    /\ [FsPoll!Next]_fsp /\ [Barrier!Next]_bar /\ [FsRequest!Next]_fsr /\ [FsIo!Next]_fio
    /\ [Lookups!Next]_look /\ [LoopLife!Next]_loops /\ [Queries!Next]_qry
  BY OneAtATime
<1>1. UdpInv'
  BY UdpChanges
<1>2. AccInv'
  BY AccChanges
<1>3. SelInv'
  BY SelChanges
<1>4. TtyInv'
  BY TtyChanges
<1>5. DesInv'
  BY DesChanges
<1>6. KqInv'
  BY KqChanges
<1>7. ProcInv'
  BY ProcChanges
<1>8. FseInv'
  BY FseChanges
<1>9. FspInv'
  BY FspChanges
<1>10. BarInv'
  BY BarStep
<1>11. FsrInv'
  BY FsrChanges
<1>12. IoInv'
  BY IoChanges
<1>13. LookInv'
  BY LookChanges
<1>14. LlInv'
  BY LlChanges
<1>15. QryInv'
  BY QryChanges
<1> QED BY <1>1, <1>2, <1>3, <1>4, <1>5, <1>6, <1>7, <1>8, <1>9, <1>10, <1>11, <1>12, <1>13, <1>14,
           <1>15 DEF DarwinInv

LEMMA DarwinKeeps == ASSUME DarwinConstants PROVE DarwinSpec => []DarwinInv
<1>1. ASSUME DarwinInit PROVE DarwinInv
  BY <1>1, DarwinBegins
<1>2. ASSUME DarwinInv, [DarwinNext]_allVars PROVE DarwinInv'
  BY <1>2, DarwinStep
<1> QED BY <1>1, <1>2, PTL DEF DarwinSpec

\* Nothing is lost and nothing counted wrong anywhere on Darwin: the counters are what they count,
\* what was closed has nothing left, and each descriptor is in one place, for any value of the constants.
THEOREM EverythingIsAccounted == ASSUME DarwinConstants PROVE DarwinSpec => []Accounted
<1>1. ASSUME DarwinInv PROVE Accounted
  <2> /\ UdpConstants /\ AccConstants /\ TtyConstants /\ KqConstants /\ ProcConstants
      /\ FseConstants /\ FspConstants /\ BarConstants /\ FsrConstants /\ IoConstants
      /\ LookConstants /\ LlConstants /\ QryConstants /\ SpawnConstants
    BY DEF DarwinConstants
  <2> /\ UdpInv /\ AccInv /\ TtyInv /\ DesInv /\ KqInv /\ ProcInv /\ FseInv /\ FspInv /\ BarInv
      /\ FsrInv /\ IoInv /\ LookInv /\ LlInv /\ QryInv
    BY <1>1 DEF DarwinInv
  <2>1. /\ Udp!CountsAreExact /\ Udp!ClosedIsClean
    BY UdpKeeps
  <2>2. /\ Accept!NoDescriptorLost /\ Accept!ClosedIsClean
    BY AccKeeps
  <2>3. Tty!ClosedIsClean
    BY TtyKeeps
  <2>4. /\ Descriptors!NoDescriptorLost /\ Descriptors!ClosedIsClean
    BY DesKeeps
  <2>5. Kqueue!CountsAreExact
    BY KqKeeps
  <2>6. /\ Process!CountsAreExact /\ Process!ClosedIsClean
    BY ProcKeeps
  <2>7. /\ FsEvents!CountsAreExact /\ FsEvents!ClosedIsClean
    BY FseKeeps
  <2>8. /\ FsPoll!CountsAreExact /\ FsPoll!ClosedIsClean
    BY FspKeeps
  <2>9. /\ Barrier!CountsAreExact /\ Barrier!ClosedIsClean
    BY BarKeeps
  <2>10. FsRequest!ClosedIsClean
    BY FsrKeeps
  <2>11. FsIo!ClosedIsClean
    BY IoKeeps
  <2>12. Lookups!ClosedIsClean
    BY LookKeeps
  <2>13. /\ LoopLife!CountsAreExact /\ LoopLife!ClosedIsClean
    BY LlKeeps
  <2>14. Queries!CountsAreExact
    BY QryKeeps
  <2> QED BY <2>1, <2>2, <2>3, <2>4, <2>5, <2>6, <2>7, <2>8, <2>9, <2>10, <2>11, <2>12, <2>13, <2>14,
             SpawnCorrect DEF Accounted
<1> QED BY <1>1, DarwinKeeps, PTL

\* No assertion of the Darwin back end that the parts model can fail, nothing is freed twice or used
\* after it was freed, and no field leaves its type (no counter goes below zero), in any part and for
\* any value of the constants.
THEOREM EveryAssertionHolds == ASSUME DarwinConstants PROVE DarwinSpec => []AssertionsHold
<1>1. ASSUME DarwinInv PROVE TypeOK => AssertionsHold
  <2> /\ UdpConstants /\ AccConstants /\ SelConstants /\ TtyConstants /\ KqConstants
      /\ ProcConstants /\ FseConstants /\ FspConstants /\ BarConstants /\ FsrConstants
      /\ IoConstants /\ LookConstants /\ LlConstants /\ QryConstants
    BY DEF DarwinConstants
  <2> /\ UdpInv /\ AccInv /\ SelInv /\ TtyInv /\ DesInv /\ KqInv /\ ProcInv /\ FseInv /\ FspInv
      /\ BarInv /\ FsrInv /\ IoInv /\ LookInv /\ LlInv /\ QryInv
    BY <1>1 DEF DarwinInv
  <2>1. /\ Udp!TypeOK /\ Udp!AssertsHold
    BY UdpKeeps
  <2>2. /\ Accept!TypeOK /\ Accept!AssertsHold
    BY AccKeeps
  <2>3. /\ Select!TypeOK /\ Select!AssertsHold
    BY SelKeeps
  <2>4. /\ Tty!TypeOK /\ Tty!AssertsHold
    BY TtyKeeps
  <2>5. Descriptors!TypeOK
    BY DesKeeps
  <2>6. /\ Kqueue!TypeOK /\ Kqueue!AssertsHold
    BY KqKeeps
  <2>7. Process!TypeOK
    BY ProcKeeps
  <2>8. FsEvents!TypeOK
    BY FseKeeps
  <2>9. FsPoll!TypeOK
    BY FspKeeps
  <2>10. Barrier!TypeOK
    BY BarKeeps
  <2>11. /\ FsRequest!TypeOK /\ FsRequest!AssertsHold
    BY FsrKeeps
  <2>12. FsIo!TypeOK
    BY IoKeeps
  <2>13. /\ Lookups!TypeOK /\ Lookups!AssertsHold
    BY LookKeeps
  <2>14. LoopLife!TypeOK
    BY LlKeeps
  <2>15. Queries!TypeOK
    BY QryKeeps
  <2> QED BY <2>1, <2>2, <2>3, <2>4, <2>5, <2>6, <2>7, <2>8, <2>9, <2>10, <2>11, <2>12, <2>13, <2>14,
             <2>15 DEF AssertionsHold, TypesOK
<1> QED BY <1>1, DarwinKeeps, RunsItsParts, TypeCorrect, PTL

\* No lost wakeup anywhere on Darwin: work that is due has somebody who will do it, for any
\* number of requests, watchers, children, threads and handles.
THEOREM NobodyIsStranded == ASSUME DarwinConstants PROVE DarwinSpec => []NothingStranded
<1>1. ASSUME DarwinInv PROVE NothingStranded
  <2> /\ UdpConstants /\ AccConstants /\ SelConstants /\ KqConstants /\ ProcConstants
      /\ FseConstants /\ FspConstants /\ BarConstants /\ LlConstants /\ QryConstants
    BY DEF DarwinConstants
  <2> /\ UdpInv /\ AccInv /\ SelInv /\ KqInv /\ ProcInv /\ FseInv /\ FspInv /\ BarInv /\ LlInv
      /\ QryInv
    BY <1>1 DEF DarwinInv
  <2>1. Udp!NothingStranded
    BY UdpKeeps
  <2>2. Accept!NothingStranded
    BY AccKeeps
  <2>3. Select!NothingStranded
    BY SelKeeps
  <2>4. /\ Kqueue!NoExitLost /\ Kqueue!NothingStranded
    BY KqKeeps
  <2>5. Process!NothingStranded
    BY ProcKeeps
  <2>6. FsEvents!NothingStranded
    BY FseKeeps
  <2>7. FsPoll!NothingStranded
    BY FspKeeps
  <2>8. Barrier!NothingStranded
    BY BarKeeps
  <2>9. LoopLife!NothingStranded
    BY LlKeeps
  <2>10. Queries!NothingStranded
    BY QryKeeps
  <2> QED BY <2>1, <2>2, <2>3, <2>4, <2>5, <2>6, <2>7, <2>8, <2>9, <2>10 DEF NothingStranded
<1> QED BY <1>1, DarwinKeeps, PTL

\* What the parts keep besides, of what they told the program.
DarwinTold ==
    /\ UdpTold /\ AccTold /\ KqFresh(kq) /\ ProcTold /\ FseTold /\ FspTold

LEMMA ToldBegins == ASSUME DarwinConstants, DarwinInit PROVE DarwinTold
<1> /\ UdpConstants /\ AccConstants /\ KqConstants /\ ProcConstants /\ FseConstants
    /\ FspConstants
  BY DEF DarwinConstants
<1> /\ Udp!Init /\ Accept!Init /\ Kqueue!Init /\ Process!Init /\ FsEvents!Init /\ FsPoll!Init
  BY DEF DarwinInit
<1>1. UdpTold
  BY UdpToldFirst
<1>2. AccTold
  BY AccToldFirst
<1>3. KqFresh(kq)
  BY KqFreshFirst
<1>4. ProcTold
  BY ProcToldFirst
<1>5. FseTold
  BY FseToldFirst
<1>6. FspTold
  BY FspToldFirst
<1> QED BY <1>1, <1>2, <1>3, <1>4, <1>5, <1>6 DEF DarwinTold

LEMMA ToldStep ==
    ASSUME DarwinConstants, DarwinInv, DarwinTold, [DarwinNext]_allVars PROVE DarwinTold'
<1> /\ UdpConstants /\ AccConstants /\ KqConstants /\ ProcConstants /\ FseConstants
    /\ FspConstants
  BY DEF DarwinConstants
<1> /\ UdpInv /\ AccInv /\ KqInv /\ ProcInv /\ FseInv /\ FspInv
  BY DEF DarwinInv
<1> /\ UdpTold /\ AccTold /\ KqFresh(kq) /\ ProcTold /\ FseTold /\ FspTold
  BY DEF DarwinTold
<1> /\ [Udp!Next]_udp /\ [Accept!Next]_acc /\ [Kqueue!Next]_kq /\ [Process!Next]_proc
    /\ [FsEvents!Next]_fse /\ [FsPoll!Next]_fsp
  BY OneAtATime
<1>1. UdpTold'
  BY UdpTellsStep
<1>2. AccTold'
  BY AccTells
<1>3. KqFresh(kq')
  BY KqTells
<1>4. ProcTold'
  BY ProcTells
<1>5. FseTold'
  BY FseTells
<1>6. FspTold'
  BY FspTells
<1> QED BY <1>1, <1>2, <1>3, <1>4, <1>5, <1>6 DEF DarwinTold

\* What the program is told by any part on Darwin is what happened, in its order and once, for
\* any value of the constants: requests are reported as they were made and as they went, events are
\* not stale, and a poll, a child's exit or a change of a file is not reported twice.
THEOREM TheProgramIsToldTruly ==
    ASSUME DarwinConstants PROVE DarwinSpec => [](part # "functions" => ToldTruly)
<1>1. ASSUME DarwinInit PROVE DarwinInv /\ DarwinTold
  BY <1>1, DarwinBegins, ToldBegins
<1>2. ASSUME DarwinInv, DarwinTold, [DarwinNext]_allVars PROVE (DarwinInv /\ DarwinTold)'
  BY <1>2, DarwinStep, ToldStep
<1>3. ASSUME DarwinInv, DarwinTold PROVE part # "functions" => ToldTruly
  <2> /\ UdpConstants /\ AccConstants /\ SelConstants /\ TtyConstants /\ KqConstants
      /\ ProcConstants /\ FseConstants /\ FspConstants /\ IoConstants /\ LookConstants
      /\ QryConstants
    BY DEF DarwinConstants
  <2> /\ UdpInv /\ AccInv /\ SelInv /\ TtyInv /\ DesInv /\ KqInv /\ ProcInv /\ FseInv /\ FspInv
      /\ IoInv /\ LookInv /\ QryInv
    BY <1>3 DEF DarwinInv
  <2> /\ UdpTold /\ AccTold /\ KqFresh(kq) /\ ProcTold /\ FseTold /\ FspTold
    BY <1>3 DEF DarwinTold
  <2>1. Udp!InOrder /\ Udp!ToldTheTruth
    BY UdpTellsTruth
  <2>2. Accept!InOrder
    BY AccTellsInOrder
  <2>3. Select!HandsOver
    BY SelKeeps
  <2>4. Tty!NoStaleEvent
    BY TtyKeeps
  <2>5. Descriptors!ToldTheTruth
    BY DesKeeps
  <2>6. Kqueue!NoStaleEvent
    BY KqNothingStale
  <2>7. Process!ToldOnce
    BY ProcTellsOnce
  <2>8. FsEvents!InOrder
    BY FseTellsInOrder
  <2>9. FsPoll!ToldOnce
    BY FspTellsOnce
  <2>10. FsIo!InOrder
    BY IoKeeps
  <2>11. Lookups!ToldTheTruth
    BY LookKeeps
  <2>12. Queries!ToldTheTruth
    BY QryTruth
  <2> QED BY <2>1, <2>2, <2>3, <2>4, <2>5, <2>6, <2>7, <2>8, <2>9, <2>10, <2>11, <2>12 DEF ToldTruly
<1> QED BY <1>1, <1>2, <1>3, PTL DEF DarwinSpec
===============================================================================
