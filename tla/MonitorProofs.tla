----------------------------- MODULE MonitorProofs -----------------------------
(***************************************************************************)
(* The monitor credits an interface with what it carried, and no more.     *)
(*                                                                         *)
(* That what is recorded stays below what was carried is not inductive: a  *)
(* sample adds the growth of the counter since the previous reading, and   *)
(* nothing says yet that this much was carried.  Ahead does, and it is     *)
(* what a reset, a wrap or a change of route must leave true.              *)
(***************************************************************************)
EXTENDS Monitor, TLAPS

\* What the next sample of the previous interface may add has been carried.
Ahead ==
  previous # None =>
    Recorded(previous.on) + (counter[previous.on] - previous.bytes)
      <= carried[previous.on]

\* A series of readings has a last one.
Marked == mark # None => previous # None

\* TypeOK, with no bound on what is recorded: that one is a consequence.
Shape ==
  /\ clock \in 0 .. Horizon
  /\ route \in Interface \cup {None} /\ asked \in Interface \cup {None}
  /\ present \in [Interface -> BOOLEAN]
  /\ counter \in [Interface -> 0 .. Width - 1]
  /\ pc \in {"off", "waiting", "asked"}
  /\ previous \in [on : Interface, bytes : 0 .. Width - 1, at : 0 .. Horizon] \cup {None}
  /\ open \in [on : Interface, bytes : Nat, seconds : 0 .. Summary - 1] \cup {None}
  /\ stored \in [Interface -> Nat] /\ carried \in [Interface -> 0 .. MaxBytes]
  /\ mark \in [bytes : 0 .. Width - 1, recorded : 0 .. MaxBytes] \cup {None}

IInv == Shape /\ OnlyCarried /\ Ahead /\ Marked /\ NothingLost

-----------------------------------------------------------------------------
(* Sums.                                                                   *)

LEMMA RecordedNat ==
  ASSUME IInv, NEW i \in Interface
  PROVE  /\ Bytes(open, i) \in Nat /\ Recorded(i) \in Nat
         /\ stored[i] \in Nat /\ carried[i] \in 0 .. MaxBytes
         /\ counter[i] \in 0 .. Width - 1
         /\ Recorded(i) <= carried[i]
<1>1. Bytes(open, i) \in Nat
  BY MonitorAssumption DEF IInv, Shape, Bytes
<1>2. stored[i] \in Nat /\ carried[i] \in 0 .. MaxBytes /\ counter[i] \in 0 .. Width - 1
  BY MonitorAssumption DEF IInv, Shape
<1> QED  BY <1>1, <1>2 DEF IInv, OnlyCarried, Recorded

\* What a sample does to the records: the growth of the counter is added to
\* the interface that was asked for, once, or is lost with a failed insert.
LEMMA SampleAdds ==
  ASSUME IInv, Sample
  PROVE  /\ asked \in Interface
         /\ Delta \in Nat
         /\ stored' \in [Interface -> Nat]
         /\ open' \in [on : Interface, bytes : Nat, seconds : 0 .. Summary - 1] \cup {None}
         /\ \A i \in Interface :
              /\ Recorded(i)' \in Nat
              /\ Recorded(i)' <= Recorded(i) + (IF i = asked THEN Delta ELSE 0)
         /\ mark' # None =>
              /\ mark' = mark
              /\ \A i \in Interface :
                   Recorded(i)' = Recorded(i) + (IF i = asked THEN Delta ELSE 0)
<1> DEFINE summary == IF Moved THEN Fresh(asked) ELSE open
           old == IF Moved THEN open ELSE None
           new == IF Full THEN Added ELSE None
<1>1. PICK one \in Written(old), other \in Written(new) :
        /\ stored' = With(one, other)
        /\ mark' = IF <<one, other>> = <<old, new>> THEN mark ELSE None
  BY DEF Sample
<1>2. asked \in Interface /\ asked # None
  BY DEF IInv, Shape, Sample, Sees, Visible
<1>3. previous \in [on : Interface, bytes : 0 .. Width - 1, at : 0 .. Horizon]
      /\ previous.on = asked /\ clock > previous.at /\ clock \in 0 .. Horizon
      /\ Delta \in Nat
  BY <1>2, RecordedNat, MonitorAssumption
  DEF IInv, Shape, Sample, Trusted, Delta
<1>4. open \in [on : Interface, bytes : Nat, seconds : Nat] \cup {None}
  BY MonitorAssumption DEF IInv, Shape
<1>5. summary \in [on : Interface, bytes : Nat, seconds : Nat] /\ summary.on = asked
  BY <1>2, <1>4 DEF Moved, Fresh
<1>6. /\ Added \in [on : Interface, bytes : Nat, seconds : Nat]
      /\ Added.on = asked /\ Added.bytes = summary.bytes + Delta
  <2>1. Added = [on |-> asked, bytes |-> summary.bytes + Delta,
                 seconds |-> summary.seconds + (clock - previous.at)]
    BY DEF Added
  <2>2. clock - previous.at \in Nat
    BY <1>3
  <2> HIDE DEF summary
  <2> QED  BY <1>2, <1>3, <1>5, <2>1, <2>2
<1>7. /\ old \in [on : Interface, bytes : Nat, seconds : Nat] \cup {None}
      /\ new \in [on : Interface, bytes : Nat, seconds : Nat] \cup {None}
  BY <1>4, <1>6
<1>8. /\ one \in [on : Interface, bytes : Nat, seconds : Nat] \cup {None}
      /\ other \in [on : Interface, bytes : Nat, seconds : Nat] \cup {None}
      /\ one = old \/ one = None
      /\ other = new \/ other = None
  BY <1>1, <1>7 DEF Written
<1>9. ASSUME NEW i \in Interface
      PROVE  /\ Bytes(one, i) \in Nat /\ Bytes(one, i) <= Bytes(old, i)
             /\ Bytes(other, i) \in Nat /\ Bytes(other, i) <= Bytes(new, i)
             /\ Bytes(old, i) \in Nat /\ Bytes(new, i) \in Nat
  BY <1>7, <1>8 DEF Bytes
<1>10. ASSUME NEW i \in Interface
       PROVE  stored'[i] \in Nat
              /\ stored'[i] = stored[i] + Bytes(one, i) + Bytes(other, i)
  BY <1>1, <1>9, RecordedNat DEF With
<1>11. open' = (IF Full THEN None ELSE Added)
  BY DEF Sample
<1>12. /\ stored' \in [Interface -> Nat]
       /\ open' \in [on : Interface, bytes : Nat, seconds : 0 .. Summary - 1] \cup {None}
  <2>1. stored' \in [Interface -> Nat]
    BY <1>1, <1>10 DEF With
  <2>2. ~Full => Added.seconds \in 0 .. Summary - 1
    BY <1>6, MonitorAssumption DEF Full
  <2> QED  BY <1>6, <1>11, <2>1, <2>2
<1>13. ASSUME NEW i \in Interface
       PROVE  /\ Bytes(new, i) + Bytes(open', i) = Bytes(Added, i)
              /\ Bytes(old, i) + Bytes(Added, i)
                   = Bytes(open, i) + (IF i = asked THEN Delta ELSE 0)
              /\ Bytes(open', i) \in Nat
  <2>1. Added # None /\ Bytes(Added, i) = IF i = asked THEN Added.bytes ELSE 0
    BY <1>2, <1>6, MonitorAssumption DEF Bytes
  <2>2. Bytes(new, i) + Bytes(open', i) = Bytes(Added, i) /\ Bytes(open', i) \in Nat
    BY <1>6, <1>11, <2>1 DEF Bytes
  <2>3. Bytes(old, i) + Bytes(Added, i)
          = Bytes(open, i) + (IF i = asked THEN Delta ELSE 0)
    <3>1. CASE Moved
      BY <1>3, <1>4, <1>6, <2>1, <3>1 DEF Moved, Bytes, Fresh
    <3>2. CASE ~Moved
      BY <1>3, <1>4, <1>6, <2>1, <3>2 DEF Moved, Bytes
    <3> QED  BY <3>1, <3>2
  <2> QED  BY <2>2, <2>3
<1>14. ASSUME NEW i \in Interface
       PROVE  /\ Recorded(i)' \in Nat
              /\ Recorded(i)' <= Recorded(i) + (IF i = asked THEN Delta ELSE 0)
              /\ <<one, other>> = <<old, new>> =>
                   Recorded(i)' = Recorded(i) + (IF i = asked THEN Delta ELSE 0)
  <2>1. Recorded(i)' = stored'[i] + Bytes(open', i)
    BY DEF Recorded, Bytes
  <2>2. Recorded(i) = stored[i] + Bytes(open, i) /\ Bytes(open, i) \in Nat
        /\ stored[i] \in Nat
    BY RecordedNat DEF Recorded
  <2> HIDE DEF old, new
  <2> QED  BY <1>3, <1>9, <1>10, <1>13, <2>1, <2>2
<1>15. ASSUME mark' # None
       PROVE  /\ mark' = mark
              /\ \A i \in Interface :
                   Recorded(i)' = Recorded(i) + (IF i = asked THEN Delta ELSE 0)
  <2> HIDE DEF old, new
  <2>1. <<one, other>> = <<old, new>> /\ mark' = mark
    BY <1>1, <1>15
  <2> QED  BY <1>14, <2>1
<1> HIDE DEF summary, old, new
<1> QED
  BY <1>2, <1>3, <1>12, <1>14, <1>15

-----------------------------------------------------------------------------
(* Steps.                                                                  *)

\* A step that credits nobody, and keeps the readings and their series or ends
\* them, keeps the invariant.
LEMMA NoCredit ==
  ASSUME IInv, Shape', carried' = carried, counter' = counter,
         \A i \in Interface : Recorded(i)' \in Nat /\ Recorded(i)' <= Recorded(i),
         previous' \in {previous, None},
         mark' # None => /\ mark' = mark /\ previous' = previous
                         /\ \A i \in Interface : Recorded(i)' = Recorded(i)
  PROVE  IInv'
<1>1. OnlyCarried'
  BY RecordedNat DEF IInv, OnlyCarried, Shape
<1>2. Ahead'
  <2> SUFFICES ASSUME previous' # None
               PROVE  \A i \in Interface : i = previous'.on =>
                        Recorded(i)' + (counter[i] - previous.bytes) <= carried[i]
    BY DEF Ahead, IInv, Shape, Recorded, Bytes
  <2> QED  BY RecordedNat DEF IInv, Ahead, Shape
<1>3. Marked'
  BY DEF IInv, Marked
<1>4. NothingLost'
  BY RecordedNat DEF IInv, Marked, NothingLost, Shape, Recorded, Bytes
<1> QED  BY <1>1, <1>2, <1>3, <1>4 DEF IInv

\* A reading that has been taken is one of the interface that was asked for,
\* and nothing has to have been carried beyond it.
LEMMA ReadingSound ==
  ASSUME IInv, Sees, previous' = Reading, UNCHANGED <<counter, carried>>, OnlyCarried',
         \A i \in Interface : Recorded(i)' \in Nat
  PROVE  /\ asked \in Interface
         /\ previous' \in [on : Interface, bytes : 0 .. Width - 1, at : 0 .. Horizon]
         /\ previous' # None
         /\ previous'.on = asked /\ previous'.bytes = counter[asked]
         /\ Ahead'
<1>1. asked \in Interface
  BY DEF IInv, Shape, Sees, Visible
<1>2. /\ previous' \in [on : Interface, bytes : 0 .. Width - 1, at : 0 .. Horizon]
      /\ previous'.on = asked /\ previous'.bytes = counter[asked]
  BY <1>1 DEF IInv, Shape, Reading
<1>3. previous' # None
  BY <1>2, MonitorAssumption
<1>4. Ahead'
  <2> SUFFICES ASSUME NEW i \in Interface, i = asked
               PROVE  Recorded(i)' + (counter[i] - counter[i]) <= carried[i]
    BY <1>1, <1>2 DEF Ahead, Recorded, Bytes
  <2>1. Recorded(i)' <= carried[i] /\ Recorded(i)' \in Nat
    BY DEF OnlyCarried, Recorded, Bytes
  <2>2. counter[i] - counter[i] = 0
    BY RecordedNat
  <2> QED  BY <2>1, <2>2, RecordedNat
<1> QED  BY <1>1, <1>2, <1>3, <1>4

\* A first reading, and one that cannot be compared to the previous one, begin
\* a new series.
LEMMA NewSeries ==
  ASSUME IInv, Baseline \/ Discard PROVE IInv'
<1>1. /\ Sees /\ previous' = Reading /\ asked' = asked /\ pc' = "waiting"
      /\ UNCHANGED <<clock, route, present, counter, carried, stored>>
      /\ mark' = [bytes |-> counter[asked], recorded |-> Recorded(asked)]
  BY DEF Baseline, Discard, world
<1>2. asked \in Interface
  BY <1>1 DEF IInv, Shape, Sees, Visible
<1>3. open' = open \/ (open = None /\ open' = Fresh(asked))
  BY DEF Baseline, Discard
<1>4. \A i \in Interface : Recorded(i)' = Recorded(i)
  <2> TAKE i \in Interface
  <2>1. Bytes(open', i) = Bytes(open, i)
    <3>1. CASE open' = open
      BY <3>1
    <3>2. CASE open = None /\ open' = Fresh(asked)
      BY <3>2 DEF Bytes, Fresh
    <3> QED  BY <1>3, <3>1, <3>2
  <2> QED  BY <1>1, <2>1 DEF Recorded, Bytes
<1>5. OnlyCarried'
  BY <1>1, <1>4 DEF IInv, OnlyCarried
<1>6. /\ previous' \in [on : Interface, bytes : 0 .. Width - 1, at : 0 .. Horizon]
      /\ previous' # None
      /\ previous'.on = asked /\ previous'.bytes = counter[asked]
      /\ Ahead'
  BY <1>1, <1>4, <1>5, RecordedNat, ReadingSound
<1>7. Shape'
  <2>1. open' \in [on : Interface, bytes : Nat, seconds : 0 .. Summary - 1] \cup {None}
    BY <1>2, <1>3, MonitorAssumption DEF IInv, Shape, Fresh
  <2>2. mark' \in [bytes : 0 .. Width - 1, recorded : 0 .. MaxBytes]
    <3>1. Recorded(asked) \in 0 .. MaxBytes /\ counter[asked] \in 0 .. Width - 1
      BY <1>2, RecordedNat, MonitorAssumption
    <3> QED  BY <1>1, <3>1
  <2> QED  BY <1>1, <1>6, <2>1, <2>2 DEF IInv, Shape
<1>8. NothingLost'
  <2> SUFFICES ASSUME NEW i \in Interface, i = asked
               PROVE  Recorded(i)' - Recorded(i) = counter[i] - counter[i]
    BY <1>1, <1>2, <1>6 DEF NothingLost, Recorded, Bytes
  <2> QED  BY <1>4, RecordedNat
<1> QED  BY <1>5, <1>6, <1>7, <1>8 DEF IInv, Marked

\* A sample adds what the counter has grown by, and that has been carried.
LEMMA SampleKeeps ==
  ASSUME IInv, Sample PROVE IInv'
<1>1. /\ Sees /\ previous' = Reading /\ asked' = asked /\ pc' = "waiting"
      /\ UNCHANGED <<clock, route, present, counter, carried>>
      /\ previous # None /\ previous.on = asked
  BY DEF Sample, Trusted, world
<1>2. /\ asked \in Interface /\ Delta \in Nat
      /\ Delta = counter[asked] - previous.bytes
      /\ previous.bytes \in 0 .. Width - 1 /\ counter[asked] \in 0 .. Width - 1
  BY <1>1, SampleAdds DEF Delta, IInv, Shape
<1>3. OnlyCarried'
  <2> SUFFICES ASSUME NEW i \in Interface PROVE Recorded(i)' <= carried[i]
    BY <1>1 DEF OnlyCarried, Recorded, Bytes
  <2>1. CASE i = asked
    <3>1. Recorded(i) + Delta <= carried[i]
      BY <1>1, <1>2, <2>1 DEF IInv, Ahead
    <3> QED  BY <1>2, <2>1, <3>1, SampleAdds, RecordedNat
  <2>2. CASE i # asked
    BY <2>2, SampleAdds, RecordedNat
  <2> QED  BY <2>1, <2>2
<1>4. /\ previous' \in [on : Interface, bytes : 0 .. Width - 1, at : 0 .. Horizon]
      /\ previous' # None
      /\ previous'.on = asked /\ previous'.bytes = counter[asked]
      /\ Ahead'
  BY <1>1, <1>3, SampleAdds, ReadingSound
<1>5. Shape'
  <2>1. mark' = None \/ mark' = mark
    BY DEF Sample
  <2> QED  BY <1>1, <1>4, <2>1, SampleAdds DEF IInv, Shape
<1>6. NothingLost'
  <2> SUFFICES ASSUME mark' # None, NEW i \in Interface, i = asked
               PROVE  Recorded(i)' - mark.recorded = counter[i] - mark.bytes
    <3>1. mark' # None => mark' = mark
      BY SampleAdds
    <3> QED  BY <1>1, <1>2, <1>4, <3>1 DEF NothingLost, Recorded, Bytes
  <2>1. Recorded(i)' = Recorded(i) + Delta /\ mark' = mark
    BY SampleAdds
  <2>2. Recorded(i) - mark.recorded = previous.bytes - mark.bytes
    BY <1>1, <2>1 DEF IInv, NothingLost
  <2>3. mark.recorded \in Nat /\ mark.bytes \in Nat
    BY <2>1, MonitorAssumption DEF IInv, Shape
  <2> QED  BY <1>2, <2>1, <2>2, <2>3, RecordedNat
<1> QED  BY <1>3, <1>4, <1>5, <1>6 DEF IInv, Marked

\* A clean stop writes the open summary, or loses it; a death loses it; none of
\* these credits anybody.
LEMMA LifeKeeps ==
  ASSUME IInv, Ask \/ Blind \/ StartUp \/ Stop \/ Die PROVE IInv'
<1>1. CASE Ask \/ Blind \/ StartUp
  <2>1. /\ UNCHANGED <<world, open, stored>>
        /\ <<previous', mark'>> \in {<<previous, mark>>, <<None, None>>}
        /\ asked' \in {asked, route} /\ pc' \in {"waiting", "asked"}
    <3>1. CASE Ask
      BY <3>1 DEF Ask
    <3>2. CASE Blind \/ StartUp
      BY <3>2 DEF Blind, StartUp
    <3> QED  BY <1>1, <3>1, <3>2
  <2>2. \A i \in Interface : Recorded(i)' = Recorded(i)
    BY <2>1 DEF Recorded, Bytes
  <2>3. Shape'
    BY <2>1 DEF IInv, Shape, world
  <2> QED  BY <2>1, <2>2, <2>3, NoCredit, RecordedNat DEF world
<1>2. CASE Stop \/ Die
  <2>1. /\ UNCHANGED <<world, asked, previous>> /\ pc' = "off" /\ open' = None
        /\ mark' \in {mark, None}
    BY <1>2 DEF Stop, Die
  <2>2. PICK one \in {open, None} :
          /\ stored' = [i \in Interface |-> stored[i] + Bytes(one, i)]
          /\ mark' # None => one = open
    <3>1. CASE Stop
      <4>1. PICK one \in {open, None} :
              stored' = With(one, None) /\ mark' = IF one = open THEN mark ELSE None
        BY <3>1 DEF Stop, Written
      <4>2. \A i \in Interface : Bytes(None, i) = 0 /\ Bytes(one, i) \in Nat
        BY <4>1, RecordedNat DEF Bytes
      <4>3. stored' = [i \in Interface |-> stored[i] + Bytes(one, i)]
        BY <4>1, <4>2, RecordedNat DEF With
      <4> QED  BY <4>1, <4>3
    <3>2. CASE Die
      <4>1. stored' = stored /\ mark' = None
        BY <3>2 DEF Die
      <4>2. ASSUME NEW i \in Interface PROVE stored[i] + Bytes(None, i) = stored[i]
        <5>1. stored[i] \in Nat /\ Bytes(None, i) = 0
          BY RecordedNat DEF Bytes
        <5> QED  BY <5>1
      <4>3. stored = [i \in Interface |-> stored[i]]
        BY DEF IInv, Shape
      <4> QED  BY <4>1, <4>2, <4>3
    <3> QED  BY <1>2, <3>1, <3>2
  <2>3. ASSUME NEW i \in Interface
        PROVE  /\ stored'[i] \in Nat /\ Recorded(i)' = stored'[i]
               /\ Recorded(i)' \in Nat /\ Recorded(i)' <= Recorded(i)
               /\ mark' # None => Recorded(i)' = Recorded(i)
    <3>1. stored'[i] = stored[i] + Bytes(one, i)
      BY <2>2
    <3>2. Bytes(one, i) \in {Bytes(open, i), 0}
      BY <2>2 DEF Bytes
    <3>3. Recorded(i)' = stored'[i] + Bytes(None, i) /\ Bytes(None, i) = 0
      BY <2>1 DEF Recorded, Bytes
    <3>4. mark' # None => Bytes(one, i) = Bytes(open, i)
      BY <2>2
    <3> QED  BY <3>1, <3>2, <3>3, <3>4, RecordedNat DEF Recorded
  <2>4. Shape'
    <3>1. stored' \in [Interface -> Nat]
      BY <2>2, <2>3
    <3> QED  BY <2>1, <3>1 DEF IInv, Shape, world
  <2> QED  BY <2>1, <2>3, <2>4, NoCredit DEF world
<1> QED  BY <1>1, <1>2

\* A counter that wraps grows by no more than what was carried.
LEMMA Wraps ==
  ASSUME NEW c \in Nat PROVE c % Width \in 0 .. Width - 1 /\ c % Width <= c
BY MonitorAssumption, Z3

\* Whatever happens to the interfaces, what the next sample may add has been
\* carried.
LEMMA WorldKeeps ==
  ASSUME IInv, World PROVE IInv'
<1>1. UNCHANGED <<process, stored, mark>>
  BY DEF World, Tick, Route, Remove, Reset, Carry
<1>2. \A i \in Interface : Recorded(i)' = Recorded(i)
  BY <1>1 DEF process, Recorded, Bytes
<1>3. ASSUME Shape', carried' \in [Interface -> Nat],
             \A i \in Interface : /\ carried'[i] >= carried[i]
                                 /\ counter'[i] - counter[i] <= carried'[i] - carried[i]
      PROVE  IInv'
  <2>1. OnlyCarried'
    <3> SUFFICES ASSUME NEW i \in Interface PROVE Recorded(i) <= carried'[i]
      BY <1>2 DEF OnlyCarried
    <3> QED  BY <1>3, RecordedNat
  <2>2. Ahead'
    <3> SUFFICES ASSUME previous # None, NEW i \in Interface, i = previous.on
                 PROVE  Recorded(i) + (counter'[i] - previous.bytes) <= carried'[i]
      BY <1>1, <1>2 DEF Ahead, process, Recorded, Bytes, IInv, Shape
    <3>1. /\ Recorded(i) + (counter[i] - previous.bytes) <= carried[i]
          /\ previous.bytes \in Nat /\ counter'[i] \in Nat
      BY <1>3, MonitorAssumption DEF IInv, Ahead, Shape
    <3> QED  BY <1>3, <3>1, RecordedNat
  <2> QED  BY <1>1, <1>2, <1>3, <2>1, <2>2
           DEF IInv, Marked, NothingLost, process, Recorded, Bytes
<1>4. CASE Tick \/ Route \/ \E i \in Interface : Remove(i)
  <2>1. counter' = counter /\ carried' = carried
    BY <1>4 DEF Tick, Route, Remove
  <2>2. /\ clock' \in 0 .. Horizon /\ route' \in Interface \cup {None}
        /\ present' \in [Interface -> BOOLEAN]
    <3>1. CASE Tick
      BY <3>1, MonitorAssumption DEF IInv, Shape, Tick
    <3>2. CASE Route
      BY <3>2 DEF IInv, Shape, Route
    <3>3. ASSUME NEW i \in Interface, Remove(i)
          PROVE  /\ clock' \in 0 .. Horizon /\ route' \in Interface \cup {None}
                 /\ present' \in [Interface -> BOOLEAN]
      BY <3>3 DEF IInv, Shape, Remove
    <3> QED  BY <1>4, <3>1, <3>2, <3>3
  <2>3. Shape'
    BY <1>1, <2>1, <2>2 DEF IInv, Shape, process
  <2> QED  BY <1>3, <2>1, <2>3, RecordedNat DEF IInv, Shape
<1>5. ASSUME NEW i \in Interface, Reset(i) PROVE IInv'
  <2>1. Shape'
    BY <1>1, <1>5, MonitorAssumption DEF IInv, Shape, process, Reset
  <2>2. carried' = carried /\ \A j \in Interface : counter'[j] \in {counter[j], 0}
    BY <1>5 DEF Reset, IInv, Shape
  <2> QED  BY <1>3, <2>1, <2>2, RecordedNat DEF IInv, Shape
<1>6. ASSUME NEW i \in Interface, NEW n \in 1 .. MaxBytes, Carry(i, n) PROVE IInv'
  <2>1. /\ (counter[i] + n) % Width \in 0 .. Width - 1
        /\ (counter[i] + n) % Width <= counter[i] + n
    BY Wraps, RecordedNat, MonitorAssumption
  <2>2. /\ counter' = [counter EXCEPT ![i] = (counter[i] + n) % Width]
        /\ carried' = [carried EXCEPT ![i] = carried[i] + n]
        /\ carried[i] + n \in 0 .. MaxBytes
        /\ UNCHANGED <<clock, route, present>>
    BY <1>6, RecordedNat, MonitorAssumption DEF Carry
  <2>3. Shape'
    BY <1>1, <2>1, <2>2 DEF IInv, Shape, process
  <2>4. ASSUME NEW j \in Interface
        PROVE  /\ carried'[j] >= carried[j]
               /\ counter'[j] - counter[j] <= carried'[j] - carried[j]
    BY <2>1, <2>2, RecordedNat, MonitorAssumption DEF IInv, Shape
  <2>5. carried' \in [Interface -> Nat]
    BY <2>3, MonitorAssumption DEF Shape
  <2> QED  BY <1>3, <2>3, <2>4, <2>5
<1> QED  BY <1>4, <1>5, <1>6 DEF World

-----------------------------------------------------------------------------
(* The theorems.                                                           *)

\* The monitor starts with nothing recorded and nothing read.
LEMMA InvInit == Init => IInv
<1> SUFFICES ASSUME Init PROVE IInv
  OBVIOUS
<1>1. present \in [Interface -> BOOLEAN]
  BY DEF Init
<1>2. ASSUME NEW i \in Interface PROVE Recorded(i) = 0 /\ carried[i] = 0
  <2>1. stored[i] = 0 /\ carried[i] = 0 /\ Bytes(open, i) = 0
    BY DEF Init, Bytes
  <2> QED  BY <2>1 DEF Recorded
<1> QED
  BY <1>1, <1>2, MonitorAssumption
  DEF Init, IInv, Shape, OnlyCarried, Ahead, Marked, NothingLost

LEMMA InvNext == IInv /\ [Next]_vars => IInv'
<1> SUFFICES ASSUME IInv, [Next]_vars PROVE IInv'
  OBVIOUS
<1>1. CASE UNCHANGED vars
  BY <1>1 DEF vars, world, process, IInv, Shape, OnlyCarried, Ahead, Marked, NothingLost,
              Recorded, Bytes
<1> QED
  BY <1>1, NewSeries, SampleKeeps, LifeKeeps, WorldKeeps DEF Next, Pass, Life

LEMMA Always == Spec => []IInv
BY InvInit, InvNext, PTL DEF Spec

\* Whatever resets, wraps, vanishes or moves, no interface is credited with a
\* byte it did not carry, or with one byte twice.
THEOREM CreditOnlyCarried == Spec => []OnlyCarried
BY Always, PTL DEF IInv

\* An unbroken series of readings is recorded to the byte.
THEOREM SeriesComplete == Spec => []NothingLost
BY Always, PTL DEF IInv

\* Every variable keeps to its values: what is recorded is bounded because it
\* has been carried.
THEOREM TypeCorrect == Spec => []TypeOK
<1>1. ASSUME IInv PROVE TypeOK
  <2>1. ASSUME NEW i \in Interface
        PROVE  Bytes(open, i) \in 0 .. MaxBytes /\ stored[i] \in 0 .. MaxBytes
    <3>1. /\ Bytes(open, i) \in Nat /\ stored[i] \in Nat /\ carried[i] \in 0 .. MaxBytes
          /\ stored[i] + Bytes(open, i) <= carried[i]
      BY <1>1, RecordedNat DEF Recorded
    <3> QED  BY <3>1, MonitorAssumption
  <2>2. open # None => open.on \in Interface /\ open.bytes = Bytes(open, open.on)
    BY <1>1 DEF IInv, Shape, Bytes
  <2> QED  BY <1>1, <2>1, <2>2 DEF IInv, Shape, TypeOK
<1> QED  BY <1>1, Always, PTL
=============================================================================
