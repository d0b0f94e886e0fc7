-------------------------- MODULE SupervisorProofs --------------------------
(***************************************************************************)
(* Theorems about the two that look after processes.  SessionMemory, what  *)
(* an InstanceSupervisor remembers: its types and sizes, what an index of  *)
(* the screenshot history finds when it is used later, and that no console *)
(* message is reported twice.  DevEnvironment, what vscreen dev starts:    *)
(* what runs on the display belongs to a process that runs or crashed, and *)
(* what a dead process left is swept before the display and the port are   *)
(* looked at.                                                              *)
(***************************************************************************)
EXTENDS SessionMemory, DevEnvironment, Recursion

MayBeNat == Nat \cup {Nothing}

-----------------------------------------------------------------------------
(* What is pushed                                                          *)

Apart(a, b) == Range(a) \cap Range(b) = {}

\* One after the other, two sequences that share nothing repeat nothing.
LEMMA Joined ==
    ASSUME NEW S, NEW a \in Seq(S), NEW b \in Seq(S)
    PROVE  /\ Range(a \o b) = Range(a) \cup Range(b)
           /\ IsInjective(a) /\ IsInjective(b) /\ Apart(a, b) => IsInjective(a \o b)
<1> DEFINE c == a \o b
           m == Len(a)
           n == Len(b)
<1>1. /\ m \in Nat /\ n \in Nat /\ DOMAIN a = 1 .. m /\ DOMAIN b = 1 .. n
      /\ DOMAIN c = 1 .. (m + n)
      /\ \A i \in 1 .. m : c[i] = a[i]
      /\ \A i \in (m + 1) .. (m + n) : c[i] = b[i - m]
  OBVIOUS
<1> HIDE DEF c, m, n
<1>2. ASSUME NEW i \in DOMAIN c
      PROVE  \/ i \in DOMAIN a /\ c[i] = a[i]
             \/ i > m /\ i - m \in DOMAIN b /\ c[i] = b[i - m]
  <2>1. CASE i <= m
    BY <1>1, <2>1
  <2>2. CASE ~(i <= m)
    BY <1>1, <2>2
  <2> QED BY <2>1, <2>2
<1>3. Range(c) = Range(a) \cup Range(b)
  <2>1. Range(c) \subseteq Range(a) \cup Range(b)
    BY <1>2 DEF Range
  <2>2. \A i \in DOMAIN a : i \in DOMAIN c /\ c[i] = a[i]
    BY <1>1
  <2>3. ASSUME NEW i \in DOMAIN b PROVE m + i \in DOMAIN c /\ c[m + i] = b[i]
    BY <1>1
  <2> QED BY <2>1, <2>2, <2>3 DEF Range
<1>4. ASSUME IsInjective(a), IsInjective(b), Apart(a, b), NEW i \in DOMAIN c, NEW j \in DOMAIN c,
             c[i] = c[j]
      PROVE  i = j
  <2>1. CASE i <= m /\ j <= m
    <3>1. i \in DOMAIN a /\ j \in DOMAIN a /\ c[i] = a[i] /\ c[j] = a[j]
      BY <1>1, <2>1
    <3> QED BY <1>4, <3>1 DEF IsInjective
  <2>2. CASE i > m /\ j > m
    <3>1. i - m \in DOMAIN b /\ j - m \in DOMAIN b /\ c[i] = b[i - m] /\ c[j] = b[j - m]
      BY <1>1, <2>2
    <3>2. i - m = j - m
      BY <1>4, <3>1 DEF IsInjective
    <3> QED BY <1>1, <3>2
  <2>3. CASE (i <= m) # (j <= m)
    <3>1. c[i] \in Range(a) /\ c[i] \in Range(b)
      BY <1>1, <1>2, <1>4, <2>3 DEF Range
    <3> QED BY <1>4, <3>1 DEF Apart
  <2> QED BY <1>1, <2>1, <2>2, <2>3
<1>5. IsInjective(a) /\ IsInjective(b) /\ Apart(a, b) => IsInjective(c)
  BY <1>4 DEF IsInjective
<1> QED BY <1>3, <1>5 DEF c

\* `next` is `ring` with one more entry, in room that it had or took from its
\* oldest one.
OneMore(S, ring, entry, next) ==
    /\ next \in Seq(S)
    /\ Len(next) > 0 /\ next[Len(next)] = entry
    /\ \/ /\ Len(next) = Len(ring) + 1
          /\ \A i \in 1 .. Len(ring) : next[i] = ring[i]
       \/ /\ Len(next) = Len(ring)
          /\ \A i \in 1 .. Len(ring) - 1 : next[i] = ring[i + 1]

\* That is what Push makes.
LEMMA PushShape ==
    ASSUME NEW S, NEW ring \in Seq(S), NEW entry \in S, NEW max \in Nat \ {0}
    PROVE  OneMore(S, ring, entry, Push(ring, entry, max))
<1> DEFINE next == Push(ring, entry, max)
<1>1. CASE Len(ring) >= max
  <2> DEFINE rest == Tail(ring)
  <2>1. ring # <<>> /\ Len(ring) > 0
    BY <1>1
  <2>2. rest \in Seq(S) /\ Len(rest) = Len(ring) - 1
    BY <2>1
  <2>3. \A i \in 1 .. Len(ring) - 1 : rest[i] = ring[i + 1]
    BY <2>1
  <2>4. next = Append(rest, entry)
    BY <1>1 DEF Push
  <2> HIDE DEF rest, next
  <2>5. next \in Seq(S) /\ Len(next) = Len(ring) /\ next[Len(ring)] = entry
    BY <2>1, <2>2, <2>4
  <2>6. \A i \in 1 .. Len(ring) - 1 : next[i] = rest[i]
    BY <2>1, <2>2, <2>4
  <2> QED
    <3>1. OneMore(S, ring, entry, next)
      BY <2>1, <2>3, <2>5, <2>6 DEF OneMore
    <3> QED BY <3>1 DEF next
<1>2. CASE ~(Len(ring) >= max)
  <2>1. next = Append(ring, entry)
    BY <1>2 DEF Push
  <2> HIDE DEF next
  <2>2. OneMore(S, ring, entry, next)
    BY <2>1 DEF OneMore
  <2> QED BY <2>2 DEF next
<1> QED BY <1>1, <1>2

\* What a ring buffer does with an entry that it does not have.
LEMMA PushKeeps ==
    ASSUME NEW S, NEW ring \in Seq(S), NEW entry \in S, NEW max \in Nat \ {0},
           Len(ring) <= max
    PROVE  /\ Push(ring, entry, max) \in Seq(S)
           /\ Len(Push(ring, entry, max)) <= max
           /\ Range(Push(ring, entry, max)) \subseteq Range(ring) \cup {entry}
           /\ IsInjective(ring) /\ entry \notin Range(ring) =>
                  IsInjective(Push(ring, entry, max))
<1> DEFINE next == Push(ring, entry, max)
           n == Len(ring)
<1>1. OneMore(S, ring, entry, next)
  BY PushShape
<1>2. Len(next) <= max
  BY DEF Push
<1>3. n \in Nat /\ DOMAIN ring = 1 .. n
  OBVIOUS
<1> HIDE DEF next, n
<1>4. /\ next \in Seq(S) /\ Len(next) \in Nat \ {0} /\ DOMAIN next = 1 .. Len(next)
      /\ next[Len(next)] = entry
  BY <1>1 DEF OneMore
<1>5. \/ Len(next) = n + 1 /\ \A i \in 1 .. n : next[i] = ring[i]
      \/ Len(next) = n /\ \A i \in 1 .. n - 1 : next[i] = ring[i + 1]
  BY <1>1 DEF OneMore, n
<1>6. PICK d \in {0, 1} : \A i \in 1 .. Len(next) - 1 :
          i + d \in DOMAIN ring /\ next[i] = ring[i + d]
  <2>1. CASE Len(next) = n + 1 /\ \A i \in 1 .. n : next[i] = ring[i]
    <3>1. \A i \in 1 .. Len(next) - 1 : i + 0 \in DOMAIN ring /\ next[i] = ring[i + 0]
      BY <1>3, <2>1
    <3> QED BY <3>1
  <2>2. CASE Len(next) = n /\ \A i \in 1 .. n - 1 : next[i] = ring[i + 1]
    <3>1. \A i \in 1 .. Len(next) - 1 : i + 1 \in DOMAIN ring /\ next[i] = ring[i + 1]
      BY <1>3, <2>2
    <3> QED BY <3>1
  <2> QED BY <1>5, <2>1, <2>2
<1>7. ASSUME NEW i \in DOMAIN next
      PROVE  \/ i = Len(next) /\ next[i] = entry
             \/ i \in 1 .. Len(next) - 1 /\ i + d \in DOMAIN ring /\ next[i] = ring[i + d]
  BY <1>4, <1>6
<1>8. Range(next) \subseteq Range(ring) \cup {entry}
  BY <1>7 DEF Range
<1>9. ASSUME IsInjective(ring), entry \notin Range(ring),
             NEW i \in DOMAIN next, NEW j \in DOMAIN next, next[i] = next[j]
      PROVE  i = j
  <2>1. ASSUME NEW k \in DOMAIN ring PROVE ring[k] # entry
    BY <1>9 DEF Range
  <2>2. CASE i = Len(next)
    BY <1>7, <1>9, <2>1, <2>2
  <2>3. CASE j = Len(next)
    BY <1>7, <1>9, <2>1, <2>3
  <2>4. CASE i # Len(next) /\ j # Len(next)
    <3>1. /\ i + d \in DOMAIN ring /\ next[i] = ring[i + d]
          /\ j + d \in DOMAIN ring /\ next[j] = ring[j + d]
      BY <1>7, <2>4
    <3>2. i + d = j + d
      BY <1>9, <3>1 DEF IsInjective
    <3> QED BY <1>4, <3>2
  <2> QED BY <2>2, <2>3, <2>4
<1>10. IsInjective(ring) /\ entry \notin Range(ring) => IsInjective(next)
  BY <1>9 DEF IsInjective
<1> QED BY <1>2, <1>4, <1>8, <1>10 DEF next

\* And with many of them, one after another.
LEMMA PushAllKeeps ==
    ASSUME NEW S, NEW ring \in Seq(S), NEW entries \in Seq(S), NEW max \in Nat \ {0},
           Len(ring) <= max, IsInjective(ring), IsInjective(entries), Apart(ring, entries)
    PROVE  /\ PushAll(ring, entries, max) \in Seq(S)
           /\ Len(PushAll(ring, entries, max)) <= max
           /\ Range(PushAll(ring, entries, max)) \subseteq Range(ring) \cup Range(entries)
           /\ IsInjective(PushAll(ring, entries, max))
<1> DEFINE n == Len(entries)
           Rings == {r \in Seq(S) : Len(r) <= max}
           step == [i \in 1 .. n |-> [r \in Rings |-> Push(r, entries[i], max)]]
           Defines(f) ==
               f = [i \in 0 .. n |-> IF i = 0 THEN ring ELSE Push(f[i - 1], entries[i], max)]
           f == CHOOSE f : Defines(f)
<1>1. n \in Nat /\ DOMAIN entries = 1 .. n /\ \A i \in 1 .. n : entries[i] \in S
  OBVIOUS
<1>2. PushAll(ring, entries, max) = f[n]
  BY DEF PushAll
<1>3. ASSUME NEW r \in Rings, NEW i \in 1 .. n
      PROVE  Push(r, entries[i], max) \in Rings
  <2>1. r \in Seq(S) /\ Len(r) <= max /\ entries[i] \in S
    BY <1>1
  <2>2. Push(r, entries[i], max) \in Seq(S) /\ Len(Push(r, entries[i], max)) <= max
    BY <2>1, PushKeeps
  <2> QED BY <2>2
<1>4. step \in [1 .. n -> [Rings -> Rings]] /\ ring \in Rings
  BY <1>3
<1> HIDE DEF n, Rings, step, f
<1>5. PICK h : Steps(h, n, Rings, ring, step)
  BY <1>1, <1>4, Stepwise
<1>6. /\ h \in [0 .. n -> Rings] /\ h[0] = ring
      /\ \A i \in 1 .. n : h[i] = step[i][h[i - 1]]
  BY <1>5 DEF Steps
<1>7. Defines(h)
  <2>1. ASSUME NEW i \in 0 .. n
        PROVE  h[i] = IF i = 0 THEN ring ELSE Push(h[i - 1], entries[i], max)
    <3>1. CASE i = 0
      BY <1>6, <3>1
    <3>2. CASE i # 0
      <4>1. i \in 1 .. n /\ i - 1 \in 0 .. n
        BY <1>1, <3>2
      <4>2. h[i] = step[i][h[i - 1]] /\ h[i - 1] \in Rings
        BY <1>6, <4>1
      <4> QED BY <3>2, <4>1, <4>2 DEF step
    <3> QED BY <3>1, <3>2
  <2> QED BY <1>6, <2>1
<1>8. Defines(f)
  BY <1>7 DEF f
<1>9. f[0] = ring /\ \A i \in 1 .. n : f[i] = Push(f[i - 1], entries[i], max)
  BY <1>1, <1>8
<1> HIDE DEF Defines
<1> DEFINE Given(i) == {entries[j] : j \in 1 .. i}
           Good(i) == /\ f[i] \in Rings /\ IsInjective(f[i])
                      /\ Range(f[i]) \subseteq Range(ring) \cup Given(i)
           T == {i \in 0 .. n : Good(i)}
<1>10. 0 \in T
  BY <1>1, <1>4, <1>9
<1>11. ASSUME NEW i \in T, i < n PROVE i + 1 \in T
  <2>1. i + 1 \in 1 .. n /\ (i + 1) - 1 = i /\ Good(i)
    BY <1>1, <1>11
  <2>2. f[i + 1] = Push(f[i], entries[i + 1], max)
    BY <1>9, <2>1
  <2>3. entries[i + 1] \in S /\ f[i] \in Seq(S) /\ Len(f[i]) <= max
    BY <1>1, <2>1 DEF Rings
  <2>4. entries[i + 1] \notin Range(f[i])
    <3>1. entries[i + 1] \notin Range(ring)
      BY <1>1, <2>1 DEF Apart, Range
    <3>2. ASSUME NEW j \in 1 .. i PROVE entries[j] # entries[i + 1]
      BY <1>1, <2>1 DEF IsInjective
    <3> QED BY <2>1, <3>1, <3>2
  <2>5. /\ f[i + 1] \in Rings /\ IsInjective(f[i + 1])
        /\ Range(f[i + 1]) \subseteq Range(f[i]) \cup {entries[i + 1]}
    BY <2>1, <2>2, <2>3, <2>4, PushKeeps DEF Rings
  <2>6. Given(i) \cup {entries[i + 1]} \subseteq Given(i + 1)
    <3>1. i + 1 \in 1 .. (i + 1) /\ 1 .. i \subseteq 1 .. (i + 1)
      BY <1>1, <2>1
    <3> QED BY <3>1
  <2>7. Good(i + 1)
    BY <2>1, <2>5, <2>6
  <2> QED BY <2>1, <2>7
<1>12. T = 0 .. n
  <2>1. T \in SUBSET (0 .. n)
    OBVIOUS
  <2> HIDE DEF T
  <2> QED BY <1>1, <1>10, <1>11, <2>1, Induction
<1>13. Good(n)
  BY <1>1, <1>12
<1>14. Given(n) \subseteq Range(entries)
  BY <1>1 DEF Range
<1> QED BY <1>2, <1>13, <1>14 DEF Rings

-----------------------------------------------------------------------------
(* What an index finds                                                     *)

\* `index`, taken when `shot` was stored there, finds nothing older in h, of which
\* n is the last.
Fits(h, n, index, shot) ==
    /\ index \in MayBeNat /\ shot \in MayBeNat
    /\ index # Nothing => /\ shot \in Nat /\ shot <= n
                          /\ index < Len(h) => h[index + 1] >= shot

Increasing ==
    /\ shots \in Nat /\ history \in Seq(Nat)
    /\ \A i \in 1 .. Len(history) : history[i] <= shots
    /\ \A i \in 1 .. Len(history) - 1 : history[i] < history[i + 1]

Remembers(t) == Does(t, "record") \/ Does(t, "get")

CallsFit ==
    /\ calls = [t \in Callers |-> calls[t]]
    /\ \A t \in Callers : Remembers(t) => Fits(history, shots, calls[t].index, calls[t].shot)

LogFits ==
    /\ log \in Seq([index : MayBeNat, shot : MayBeNat])
    /\ \A i \in 1 .. Len(log) : Fits(history, shots, log[i].index, log[i].shot)

IInv == Increasing /\ CallsFit /\ LogFits

-----------------------------------------------------------------------------
\* One more screenshot: the history stays in order, and every index that was
\* remembered finds what it found, something later, or the new one.
LEMMA OneMoreShot ==
    ASSUME Increasing, shots' = shots + 1, history' = Push(history, shots + 1, MaxShots)
    PROVE  /\ Increasing'
           /\ \A index, shot : Fits(history, shots, index, shot) => Fits(history', shots', index, shot)
           /\ Fits(history', shots', Len(history') - 1, shots')
<1>1. shots + 1 \in Nat /\ history \in Seq(Nat) /\ MaxShots \in Nat \ {0} /\ Nothing \notin Nat
  BY MemoryAssumption DEF Increasing
<1> DEFINE h == history
           next == history'
           n == Len(h)
           m == Len(next)
<1>2. /\ next \in Seq(Nat) /\ m > 0 /\ next[m] = shots + 1
      /\ \/ m = n + 1 /\ \A i \in 1 .. n : next[i] = h[i]
         \/ m = n /\ \A i \in 1 .. n - 1 : next[i] = h[i + 1]
  <2>1. OneMore(Nat, history, shots + 1, Push(history, shots + 1, MaxShots))
    BY <1>1, PushShape
  <2>2. OneMore(Nat, history, shots + 1, history')
    BY <2>1
  <2> QED BY <2>2 DEF OneMore
<1>3. /\ n \in Nat /\ m \in Nat \ {0} /\ \A i \in 1 .. n : h[i] \in Nat /\ h[i] <= shots
      /\ \A i \in 1 .. n - 1 : h[i] < h[i + 1]
  BY <1>1, <1>2 DEF Increasing
<1> HIDE DEF h, next, n, m
\* Those that were there have moved by d.
<1>4. PICK d \in {0, 1} : \A i \in 1 .. m - 1 : i + d \in 1 .. n /\ next[i] = h[i + d]
  <2>1. CASE m = n + 1 /\ \A i \in 1 .. n : next[i] = h[i]
    <3>1. \A i \in 1 .. m - 1 : i + 0 \in 1 .. n /\ next[i] = h[i + 0]
      BY <1>3, <2>1
    <3> QED BY <3>1
  <2>2. CASE m = n /\ \A i \in 1 .. n - 1 : next[i] = h[i + 1]
    <3>1. \A i \in 1 .. m - 1 : i + 1 \in 1 .. n /\ next[i] = h[i + 1]
      BY <1>3, <2>2
    <3> QED BY <3>1
  <2> QED BY <1>2, <2>1, <2>2
<1>5. ASSUME NEW i \in 1 .. m - 1
      PROVE  /\ i + d \in 1 .. n /\ next[i] = h[i + d] /\ h[i + d] \in Nat /\ h[i + d] <= shots
             /\ i + d > i => h[i] < h[i + d]
  <2>1. i + d \in 1 .. n /\ next[i] = h[i + d]
    BY <1>4
  <2>2. h[i + d] \in Nat /\ h[i + d] <= shots
    BY <1>3, <2>1
  <2>3. ASSUME d = 1 PROVE h[i] < h[i + 1]
    <3>1. i \in 1 .. n - 1
      BY <1>3, <2>1, <2>3
    <3> QED BY <1>3, <3>1
  <2>4. i + d > i => d = 1
    BY <1>4, <1>3
  <2> QED BY <2>1, <2>2, <2>3, <2>4
<1>6. Increasing'
  <2>0. shots \in Nat /\ next[m] = shots + 1
    BY <1>2 DEF Increasing
  <2>1. ASSUME NEW i \in 1 .. m PROVE next[i] <= shots + 1
    <3>1. CASE i = m
      BY <2>0, <3>1
    <3>2. CASE i \in 1 .. m - 1
      <4>1. next[i] \in Nat /\ next[i] <= shots
        BY <1>5, <3>2
      <4> QED BY <2>0, <4>1
    <3>3. m \in Nat
      BY <1>3
    <3> QED BY <3>1, <3>2, <3>3
  <2>2. ASSUME NEW i \in 1 .. m - 1 PROVE next[i] < next[i + 1]
    <3>1. next[i] = h[i + d] /\ h[i + d] \in Nat /\ h[i + d] <= shots /\ i + d \in 1 .. n
      BY <1>5
    <3>2. CASE i + 1 = m
      BY <2>0, <3>1, <3>2
    <3>3. CASE i + 1 \in 1 .. m - 1
      <4>1. (i + 1) + d \in 1 .. n /\ next[i + 1] = h[(i + 1) + d]
        BY <1>4, <3>3
      <4>2. i + d \in 1 .. n - 1 /\ (i + 1) + d = (i + d) + 1
        BY <1>3, <3>1, <4>1
      <4>3. h[i + d] < h[(i + d) + 1]
        BY <1>3, <4>2
      <4> QED BY <3>1, <4>1, <4>2, <4>3
    <3>4. m \in Nat
      BY <1>3
    <3> QED BY <3>2, <3>3, <3>4
  <2>3. shots + 1 \in Nat /\ history' \in Seq(Nat)
    BY <1>1, <1>2 DEF next
  <2>4. /\ \A i \in 1 .. Len(history') : history'[i] <= shots'
        /\ \A i \in 1 .. Len(history') - 1 : history'[i] < history'[i + 1]
    BY <2>1, <2>2 DEF next, m
  <2> QED BY <2>3, <2>4 DEF Increasing
<1>7. ASSUME NEW index, NEW shot, Fits(history, shots, index, shot)
      PROVE  Fits(history', shots', index, shot)
  <2>1. CASE index = Nothing
    BY <1>7, <2>1 DEF Fits
  <2>2. CASE index # Nothing
    <3>1. index \in Nat /\ shot \in Nat /\ shot <= shots
          /\ (index < n => h[index + 1] >= shot)
      BY <1>7, <2>2 DEF Fits, MayBeNat, h, n
    <3>2. ASSUME index < m
          PROVE  next[index + 1] >= shot
      <4>1. CASE index + 1 = m
        <5>1. next[index + 1] = shots + 1 /\ shots \in Nat
          BY <1>2, <4>1 DEF Increasing
        <5> QED BY <3>1, <5>1
      <4>2. CASE index + 1 \in 1 .. m - 1
        <5>1. index + 1 + d \in 1 .. n /\ next[index + 1] = h[index + 1 + d]
          BY <1>4, <4>2
        <5>2. /\ h[index + 1 + d] \in Nat
              /\ index + 1 + d > index + 1 => h[index + 1] < h[index + 1 + d]
          BY <1>5, <4>2
        <5>3. index + 1 \in 1 .. n /\ index < n
          BY <1>3, <3>1, <5>1
        <5>4. h[index + 1] \in Nat /\ h[index + 1] >= shot
          BY <1>3, <3>1, <5>3
        <5>5. d = 0 \/ index + 1 + d > index + 1
          BY <3>1
        <5> QED
          <6>1. CASE d = 0
            <7>1. index + 1 + d = index + 1
              BY <3>1, <6>1
            <7> QED BY <5>1, <5>4, <7>1
          <6>2. CASE index + 1 + d > index + 1
            BY <3>1, <5>1, <5>2, <5>4, <6>2
          <6> QED BY <5>5, <6>1, <6>2
      <4> QED BY <1>3, <3>1, <3>2, <4>1, <4>2
    <3>3. shot <= shots'
      BY <1>1, <3>1 DEF Increasing
    <3> QED BY <1>7, <2>2, <3>1, <3>2, <3>3 DEF Fits, next, m
  <2> QED BY <2>1, <2>2
<1>8. Fits(history', shots', Len(history') - 1, shots')
  <2>1. /\ m - 1 \in Nat /\ (m - 1) + 1 = m /\ shots' \in Nat /\ next[m] = shots'
        /\ m - 1 # Nothing
    BY <1>1, <1>2, <1>3
  <2>2. Fits(next, shots', m - 1, shots')
    BY <2>1 DEF Fits, MayBeNat, m
  <2> QED BY <2>2 DEF next, m
<1> QED BY <1>6, <1>7, <1>8

-----------------------------------------------------------------------------
\* A step that changes no screenshot and no log, and makes no call remember an
\* index that it did not remember.
LEMMA CallsMove ==
    ASSUME IInv, UNCHANGED <<history, shots, log>>, calls' = [t \in Callers |-> calls'[t]],
           \A t \in Callers : Remembers(t)' => Remembers(t) /\ calls'[t] = calls[t]
    PROVE  IInv'
<1>1. Increasing' /\ LogFits'
  BY DEF IInv, Increasing, LogFits
<1>2. CallsFit'
  BY DEF IInv, CallsFit
<1> QED BY <1>1, <1>2 DEF IInv

\* What a step of one call leaves to show: that its own index fits.
LEMMA OneCall ==
    ASSUME CallsFit, NEW t \in Callers, NEW next, Goes(t, next),
           \A index, shot : Fits(history, shots, index, shot) => Fits(history', shots', index, shot),
           Remembers(t)' => Fits(history', shots', next.index, next.shot)
    PROVE  CallsFit'
<1>1. calls' = [calls EXCEPT ![t] = next] /\ DOMAIN calls = Callers
  BY DEF Goes, CallsFit
<1>2. calls' = [u \in Callers |-> calls'[u]]
  BY <1>1
<1>3. ASSUME NEW u \in Callers, Remembers(u)'
      PROVE  Fits(history', shots', calls'[u].index, calls'[u].shot)
  <2>1. CASE u = t
    <3>1. calls'[u] = next
      BY <1>1, <2>1
    <3> QED BY <1>3, <2>1, <3>1
  <2>2. CASE u # t
    <3>1. calls'[u] = calls[u]
      BY <1>1, <2>2
    <3>2. Remembers(u)
      BY <1>3, <3>1 DEF Remembers, Does
    <3>3. Fits(history, shots, calls[u].index, calls[u].shot)
      BY <3>2 DEF CallsFit
    <3>4. Fits(history', shots', calls[u].index, calls[u].shot)
      BY <3>3
    <3> QED BY <3>1, <3>4
  <2> QED BY <2>1, <2>2
<1> QED BY <1>2, <1>3 DEF CallsFit

\* An action is taken: its screenshot is the newest one, or there is none.
LEMMA ShootStep ==
    ASSUME IInv, NEW t \in Callers, Shoot(t)
    PROVE  IInv'
<1>1. log' = log
  BY DEF Shoot
<1>2. CASE shots' = shots + 1 /\ history' = Push(history, shots', MaxShots)
           /\ Goes(t, [at |-> "record", shot |-> shots', index |-> Len(history') - 1])
  <2>1. history' = Push(history, shots + 1, MaxShots)
    BY <1>2
  <2>2. /\ Increasing'
        /\ \A index, shot : Fits(history, shots, index, shot) => Fits(history', shots', index, shot)
        /\ Fits(history', shots', Len(history') - 1, shots')
    BY <1>2, <2>1, OneMoreShot DEF IInv
  <2>3. CallsFit'
    BY <1>2, <2>2, OneCall DEF IInv
  <2>4. LogFits'
    BY <1>1, <2>2 DEF IInv, LogFits
  <2> QED BY <2>2, <2>3, <2>4 DEF IInv
<1>3. CASE history' = history /\ shots' = shots
           /\ Goes(t, [at |-> "record", shot |-> Nothing, index |-> Nothing])
  <2>1. Fits(history', shots', Nothing, Nothing)
    BY DEF Fits, MayBeNat
  <2>2. CallsFit'
    BY <1>3, <2>1, OneCall DEF IInv
  <2>3. Increasing' /\ LogFits'
    BY <1>1, <1>3 DEF IInv, Increasing, LogFits
  <2> QED BY <2>2, <2>3 DEF IInv
<1> QED BY <1>2, <1>3 DEF Shoot

\* An index goes from the call to the log.
LEMMA WriteLogStep ==
    ASSUME IInv, NEW t \in Callers, WriteLog(t)
    PROVE  IInv'
<1> DEFINE Entry == [index : MayBeNat, shot : MayBeNat]
           entry == [index |-> calls[t].index, shot |-> calls[t].shot]
<1>1. /\ UNCHANGED <<history, shots>> /\ Goes(t, Nothing)
      /\ log' = Push(log, entry, MaxEntries)
  BY DEF WriteLog
<1>2. Fits(history, shots, entry.index, entry.shot)
  BY DEF WriteLog, IInv, CallsFit, Remembers
<1>3. Increasing'
  BY <1>1 DEF IInv, Increasing
<1>4. ~Remembers(t)'
  BY <1>1 DEF Goes, Remembers, Does, IInv, CallsFit
<1>5. CallsFit'
  BY <1>1, <1>4, OneCall DEF IInv
<1>6. entry \in Entry /\ log \in Seq(Entry) /\ MaxEntries \in Nat \ {0}
  BY <1>2, MemoryAssumption DEF Fits, IInv, LogFits
<1> HIDE DEF Entry, entry
<1>7. OneMore(Entry, log, entry, Push(log, entry, MaxEntries))
  BY <1>6, PushShape
<1>8. OneMore(Entry, log, entry, log')
  BY <1>1, <1>7
<1>9. ASSUME NEW i \in 1 .. Len(log')
      PROVE  log'[i] = entry \/ \E j \in 1 .. Len(log) : log'[i] = log[j]
  BY <1>6, <1>8 DEF OneMore
<1>10. ASSUME NEW i \in 1 .. Len(log')
       PROVE  Fits(history, shots, log'[i].index, log'[i].shot)
  BY <1>2, <1>9 DEF IInv, LogFits
<1>11. LogFits'
  BY <1>1, <1>8, <1>10 DEF LogFits, OneMore, Entry
<1> QED BY <1>3, <1>5, <1>11 DEF IInv

\* A client reads an index in the list.
LEMMA ListStep ==
    ASSUME IInv, NEW t \in Callers, List(t)
    PROVE  IInv'
<1>1. PICK i \in DOMAIN history : Goes(t, [at |-> "get", shot |-> history[i], index |-> i - 1])
  BY DEF List
<1>2. UNCHANGED <<history, shots, log>>
  BY DEF List
<1>3. Fits(history, shots, i - 1, history[i])
  BY DEF IInv, Increasing, Fits, MayBeNat
<1>4. CallsFit'
  <2> DEFINE next == [at |-> "get", shot |-> history[i], index |-> i - 1]
  <2>1. Fits(history', shots', next.index, next.shot)
    BY <1>2, <1>3
  <2> QED BY <1>1, <1>2, <2>1, OneCall DEF IInv
<1>5. Increasing' /\ LogFits'
  BY <1>2 DEF IInv, Increasing, LogFits
<1> QED BY <1>4, <1>5 DEF IInv

\* An empty history: every index finds nothing.
LEMMA ClearStep ==
    ASSUME IInv, ClearHistory
    PROVE  IInv'
<1>1. history' = <<>> /\ UNCHANGED <<shots, log, calls>>
  BY DEF ClearHistory
<1>2. ASSUME NEW index, NEW shot, Fits(history, shots, index, shot)
      PROVE  Fits(history', shots', index, shot)
  BY <1>1, <1>2, MemoryAssumption DEF Fits, MayBeNat
<1>3. Increasing'
  BY <1>1 DEF IInv, Increasing
<1>4. CallsFit' /\ LogFits'
  BY <1>1, <1>2 DEF IInv, CallsFit, LogFits, Remembers, Does
<1> QED BY <1>3, <1>4 DEF IInv

\* The steps of calls that remember no index afterwards.
LEMMA ConsoleStep ==
    ASSUME IInv, NEW t \in Callers, Answer(t) \/ Enable(t) \/ Drain(t) \/ Store(t)
    PROVE  IInv'
<1>1. UNCHANGED <<history, shots, log>>
  BY DEF Answer, Enable, Drain, Store
<1>2. PICK next : Goes(t, next) /\ (next = Nothing \/ next.at \in {"drain", "push"})
  <2>1. CASE Answer(t) \/ Store(t)
    BY <2>1 DEF Answer, Store
  <2>2. CASE Enable(t)
    BY <2>2 DEF Enable
  <2>3. CASE Drain(t)
    <3>1. PICK ok \in BOOLEAN :
              Goes(t, [at |-> "push", msgs |-> IF ok THEN page.msgs ELSE <<>>])
      BY <2>3 DEF Drain
    <3> QED BY <3>1
  <2> QED BY <2>1, <2>2, <2>3
<1>3. DOMAIN calls = Callers
  BY DEF IInv, CallsFit
<1>4. ~Remembers(t)'
  BY <1>2, <1>3 DEF Remembers, Does, Goes
<1>5. CallsFit'
  BY <1>1, <1>2, <1>4, OneCall DEF IInv
<1>6. Increasing' /\ LogFits'
  BY <1>1 DEF IInv, Increasing, LogFits
<1> QED BY <1>5, <1>6 DEF IInv

\* A new document: what its calls remember is no index.
LEMMA DocumentStep ==
    ASSUME IInv, NewDocument
    PROVE  IInv'
<1>1. calls' = [t \in Callers |-> IF Does(t, "drain") THEN [calls[t] EXCEPT !.installed = FALSE]
                                                    ELSE calls[t]]
  BY DEF NewDocument
<1>2. ASSUME NEW t \in Callers, Remembers(t)'
      PROVE  Remembers(t) /\ calls'[t] = calls[t]
  <2>1. CASE Does(t, "drain")
    <3>1. calls'[t] = [calls[t] EXCEPT !.installed = FALSE] /\ calls[t].at = "drain"
      BY <1>1, <2>1 DEF Does
    <3> QED BY <1>2, <3>1 DEF Remembers, Does
  <2>2. CASE ~Does(t, "drain")
    <3>1. calls'[t] = calls[t]
      BY <1>1, <2>2
    <3> QED BY <1>2, <3>1 DEF Remembers, Does
  <2> QED BY <2>1, <2>2
<1>3. calls' = [t \in Callers |-> calls'[t]]
  BY <1>1
<1> QED BY <1>2, <1>3, CallsMove DEF NewDocument

\* The invariant is inductive: one step for each action.
LEMMA NextIInv == IInv /\ [MemoryNext]_memoryVars => IInv'
<1> SUFFICES ASSUME IInv, [MemoryNext]_memoryVars PROVE IInv'
  OBVIOUS
<1>1. ASSUME NEW t \in Callers, Shoot(t) PROVE IInv'
  BY <1>1, ShootStep
<1>2. ASSUME NEW t \in Callers, WriteLog(t) PROVE IInv'
  BY <1>2, WriteLogStep
<1>3. ASSUME NEW t \in Callers, List(t) PROVE IInv'
  BY <1>3, ListStep
<1>4. ASSUME NEW t \in Callers, Answer(t) \/ Enable(t) \/ Drain(t) \/ Store(t) PROVE IInv'
  BY <1>4, ConsoleStep
<1>5. CASE ClearHistory
  BY <1>5, ClearStep
<1>6. CASE NewDocument
  BY <1>6, DocumentStep
<1>7. CASE Log \/ ClearConsole \/ UNCHANGED memoryVars
  <2>1. UNCHANGED <<history, shots, log, calls>>
    BY <1>7 DEF Log, ClearConsole, memoryVars
  <2> QED BY <2>1, CallsMove DEF IInv, CallsFit, Remembers, Does
<1> QED BY <1>1, <1>2, <1>3, <1>4, <1>5, <1>6, <1>7 DEF MemoryNext

\* Nothing is remembered at first.
LEMMA InitIInv == MemoryInit => IInv
<1> SUFFICES ASSUME MemoryInit PROVE IInv
  OBVIOUS
<1>1. Increasing /\ LogFits
  BY DEF MemoryInit, Increasing, LogFits
<1>2. CallsFit
  BY DEF MemoryInit, CallsFit, Remembers, Does
<1> QED BY <1>1, <1>2 DEF IInv

\* The property speaks of the indices that fit.
LEMMA FitsAll == IInv => IndexNeverOlder
<1> SUFFICES ASSUME IInv, NEW e \in Remembered, Get(e.index) # Nothing
             PROVE  Get(e.index) >= e.shot
  BY DEF IndexNeverOlder
<1>1. Fits(history, shots, e.index, e.shot) /\ e.index # Nothing
  <2>1. CASE e \in Range(log)
    <3>1. PICK i \in 1 .. Len(log) : e = log[i]
      BY <2>1 DEF Range, IInv, LogFits
    <3> QED BY <3>1 DEF IInv, LogFits, Remembered
  <2>2. CASE \E t \in Callers : Remembers(t) /\ e = [index |-> calls[t].index, shot |-> calls[t].shot]
    <3>1. PICK t \in Callers : Remembers(t) /\ e = [index |-> calls[t].index, shot |-> calls[t].shot]
      BY <2>2
    <3>2. e.index = calls[t].index /\ e.shot = calls[t].shot
      BY <3>1
    <3> QED BY <3>1, <3>2 DEF IInv, CallsFit, Remembered
  <2> QED BY <2>1, <2>2 DEF Remembered, Remembers
<1> QED BY <1>1 DEF Fits, Get

-----------------------------------------------------------------------------
(* The console                                                             *)

\* Messages that were logged, none of them twice.
Batch(s, n) == s \in Seq(Nat) /\ Range(s) \subseteq 1 .. n /\ IsInjective(s)

Stores(t) == Does(t, "push")

\* The page, the buffer and the calls that store have no message in common.
Console ==
    /\ messages \in Nat
    /\ page \in [marked : BOOLEAN, hooked : BOOLEAN, msgs : Seq(Nat)]
    /\ Batch(page.msgs, messages) /\ Len(page.msgs) <= MaxPage
    /\ Batch(buffer, messages) /\ Len(buffer) <= MaxMessages
    /\ Apart(page.msgs, buffer)
    /\ calls = [t \in Callers |-> calls[t]]
    /\ \A t \in Callers : Stores(t) =>
          /\ Batch(calls[t].msgs, messages)
          /\ Apart(calls[t].msgs, page.msgs) /\ Apart(calls[t].msgs, buffer)
    /\ \A t, u \in Callers : Stores(t) /\ Stores(u) /\ t # u =>
          Apart(calls[t].msgs, calls[u].msgs)

\* No messages.
LEMMA Empty ==
    /\ \A n : Batch(<<>>, n) /\ Len(<<>>) = 0
    /\ \A s : Apart(<<>>, s) /\ Apart(s, <<>>)
  BY DEF Batch, Apart, Range, IsInjective

\* Two batches are apart from each other.
LEMMA ApartSymmetric == \A a, b : Apart(a, b) <=> Apart(b, a)
  BY DEF Apart

\* The page and the buffer are emptied or kept, and no call gets messages.
LEMMA ConsoleKept ==
    ASSUME Console, messages' = messages,
           page' \in [marked : BOOLEAN, hooked : BOOLEAN, msgs : Seq(Nat)],
           page'.msgs \in {page.msgs, <<>>}, buffer' \in {buffer, <<>>},
           calls' = [t \in Callers |-> calls'[t]],
           \A t \in Callers : Stores(t)' => Stores(t) /\ calls'[t].msgs = calls[t].msgs
    PROVE  Console'
<1>1. Batch(page'.msgs, messages) /\ Len(page'.msgs) <= MaxPage
  BY Empty, MemoryAssumption DEF Console
<1>2. Batch(buffer', messages) /\ Len(buffer') <= MaxMessages
  BY Empty, MemoryAssumption DEF Console
<1>3. Apart(page'.msgs, buffer')
  BY Empty DEF Console
<1>4. ASSUME NEW t \in Callers, Stores(t)'
      PROVE  /\ Batch(calls'[t].msgs, messages)
             /\ Apart(calls'[t].msgs, page'.msgs) /\ Apart(calls'[t].msgs, buffer')
  <2>1. Stores(t) /\ calls'[t].msgs = calls[t].msgs
    BY <1>4
  <2>2. /\ Batch(calls[t].msgs, messages)
        /\ Apart(calls[t].msgs, page.msgs) /\ Apart(calls[t].msgs, buffer)
    BY <2>1 DEF Console
  <2> QED BY <2>1, <2>2, Empty
<1>5. ASSUME NEW t \in Callers, NEW u \in Callers, Stores(t)', Stores(u)', t # u
      PROVE  Apart(calls'[t].msgs, calls'[u].msgs)
  BY <1>5 DEF Console
<1> QED BY <1>1, <1>2, <1>3, <1>4, <1>5 DEF Console

\* One call goes on to something that stores nothing.
LEMMA NothingToStore ==
    ASSUME Console, NEW t \in Callers, NEW next, Goes(t, next),
           next = Nothing \/ next.at # "push"
    PROVE  /\ calls' = [u \in Callers |-> calls'[u]]
           /\ ~Stores(t)'
           /\ \A u \in Callers : Stores(u)' => Stores(u) /\ calls'[u] = calls[u]
<1>1. calls' = [calls EXCEPT ![t] = next] /\ DOMAIN calls = Callers
  BY DEF Goes, Console
<1>2. calls'[t] = next /\ \A u \in Callers \ {t} : calls'[u] = calls[u]
  BY <1>1
<1>3. ~Stores(t)'
  BY <1>2 DEF Stores, Does
<1>4. ASSUME NEW u \in Callers, Stores(u)'
      PROVE  Stores(u) /\ calls'[u] = calls[u]
  <2>1. u # t
    BY <1>3, <1>4
  <2>2. calls'[u] = calls[u]
    BY <1>2, <2>1
  <2> QED BY <1>4, <2>2 DEF Stores, Does
<1> QED BY <1>1, <1>3, <1>4

\* The calls that take no console messages.
LEMMA ConsoleCalls ==
    ASSUME Console, NEW t \in Callers,
           Shoot(t) \/ WriteLog(t) \/ List(t) \/ Answer(t) \/ Enable(t)
    PROVE  Console'
<1>1. messages' = messages /\ buffer' = buffer
  BY DEF Shoot, WriteLog, List, Answer, Enable
<1>2. /\ page' \in [marked : BOOLEAN, hooked : BOOLEAN, msgs : Seq(Nat)]
      /\ page'.msgs \in {page.msgs, <<>>}
  <2>1. CASE page' = page
    BY <2>1 DEF Console
  <2>2. CASE page' = [marked |-> TRUE, hooked |-> TRUE, msgs |-> <<>>]
    BY <2>2
  <2>3. page' = page \/ page' = [marked |-> TRUE, hooked |-> TRUE, msgs |-> <<>>]
    <3>1. CASE Enable(t)
      BY <3>1 DEF Enable
    <3>2. CASE ~Enable(t)
      BY <3>2 DEF Shoot, WriteLog, List, Answer
    <3> QED BY <3>1, <3>2
  <2> QED BY <2>1, <2>2, <2>3
<1>3. PICK next : Goes(t, next) /\ (next = Nothing \/ next.at \in {"record", "get", "drain"})
  <2>1. CASE WriteLog(t) \/ Answer(t)
    BY <2>1 DEF WriteLog, Answer
  <2>2. CASE Shoot(t)
    <3>1. CASE Goes(t, [at |-> "record", shot |-> shots', index |-> Len(history') - 1])
      BY <3>1
    <3>2. CASE Goes(t, [at |-> "record", shot |-> Nothing, index |-> Nothing])
      BY <3>2
    <3> QED BY <2>2, <3>1, <3>2 DEF Shoot
  <2>3. CASE List(t)
    <3>1. PICK i \in DOMAIN history :
              Goes(t, [at |-> "get", shot |-> history[i], index |-> i - 1])
      BY <2>3 DEF List
    <3> QED BY <3>1
  <2>4. CASE Enable(t)
    <3>1. PICK ok \in BOOLEAN : Goes(t, [at |-> "drain", installed |-> ok])
      BY <2>4 DEF Enable
    <3> QED BY <3>1
  <2> QED BY <2>1, <2>2, <2>3, <2>4
<1>4. next = Nothing \/ next.at # "push"
  BY <1>3
<1> QED BY <1>1, <1>2, <1>3, <1>4, NothingToStore, ConsoleKept

\* What clears a buffer.
LEMMA ConsoleCleared ==
    ASSUME Console, ClearHistory \/ NewDocument \/ ClearConsole
    PROVE  Console'
<1>1. CASE ClearHistory \/ ClearConsole
  <2>1. messages' = messages /\ page' = page /\ calls' = calls /\ buffer' \in {buffer, <<>>}
    BY <1>1 DEF ClearHistory, ClearConsole
  <2>2. \A t \in Callers : Stores(t)' => Stores(t) /\ calls'[t].msgs = calls[t].msgs
    BY <2>1 DEF Stores, Does
  <2>3. page' \in [marked : BOOLEAN, hooked : BOOLEAN, msgs : Seq(Nat)]
        /\ page'.msgs \in {page.msgs, <<>>}
        /\ calls' = [t \in Callers |-> calls'[t]]
    BY <2>1 DEF Console
  <2> QED BY <2>1, <2>2, <2>3, ConsoleKept
<1>2. CASE NewDocument
  <2>1. messages' = messages /\ buffer' = buffer /\ page' = NewPage
        /\ calls' = [t \in Callers |-> IF Does(t, "drain") THEN [calls[t] EXCEPT !.installed = FALSE]
                                                        ELSE calls[t]]
    BY <1>2 DEF NewDocument
  <2>2. /\ page' \in [marked : BOOLEAN, hooked : BOOLEAN, msgs : Seq(Nat)]
        /\ page'.msgs \in {page.msgs, <<>>}
    BY <2>1 DEF NewPage
  <2>3. ASSUME NEW t \in Callers, Stores(t)'
        PROVE  Stores(t) /\ calls'[t].msgs = calls[t].msgs
    <3>1. CASE Does(t, "drain")
      <4>1. calls'[t] = [calls[t] EXCEPT !.installed = FALSE] /\ calls[t].at = "drain"
        BY <2>1, <3>1 DEF Does
      <4> QED BY <2>3, <4>1 DEF Stores, Does
    <3>2. CASE ~Does(t, "drain")
      <4>1. calls'[t] = calls[t]
        BY <2>1, <3>2
      <4> QED BY <2>3, <4>1 DEF Stores, Does
    <3> QED BY <3>1, <3>2
  <2>4. calls' = [t \in Callers |-> calls'[t]]
    BY <2>1
  <2> QED BY <2>1, <2>2, <2>3, <2>4, ConsoleKept
<1> QED BY <1>1, <1>2

\* A message that is logged is a new one.
LEMMA ConsoleLogged ==
    ASSUME Console, Log
    PROVE  Console'
<1> DEFINE new == messages + 1
<1>1. /\ messages' = new /\ new \in Nat /\ messages \in Nat
      /\ page' = (IF page.hooked THEN [page EXCEPT !.msgs = Push(@, new, MaxPage)] ELSE page)
      /\ UNCHANGED <<buffer, calls>>
  BY DEF Log, Console
<1>2. \A n \in 1 .. messages : n \in 1 .. new /\ n # new
  BY <1>1
<1> HIDE DEF new
<1>3. ASSUME NEW m, Batch(m, messages)
      PROVE  Batch(m, new) /\ new \notin Range(m)
  BY <1>2, <1>3 DEF Batch
<1>4. Batch(buffer, new) /\ new \notin Range(buffer)
  BY <1>3 DEF Console
<1>5. /\ page' \in [marked : BOOLEAN, hooked : BOOLEAN, msgs : Seq(Nat)]
      /\ Batch(page'.msgs, new) /\ Len(page'.msgs) <= MaxPage
      /\ Range(page'.msgs) \subseteq Range(page.msgs) \cup {new}
  <2>1. Batch(page.msgs, messages) /\ Len(page.msgs) <= MaxPage
    BY DEF Console
  <2>2. Batch(page.msgs, new) /\ new \notin Range(page.msgs)
    BY <1>3, <2>1
  <2>3. CASE ~page.hooked
    BY <1>1, <2>1, <2>2, <2>3 DEF Console
  <2>4. CASE page.hooked
    <3> DEFINE next == Push(page.msgs, new, MaxPage)
    <3>1. /\ next \in Seq(Nat) /\ Len(next) <= MaxPage
          /\ Range(next) \subseteq Range(page.msgs) \cup {new} /\ IsInjective(next)
      BY <1>1, <2>1, <2>2, PushKeeps, MemoryAssumption DEF Batch
    <3>2. Range(next) \subseteq 1 .. new
      BY <1>1, <2>2, <3>1 DEF Batch, new
    <3> HIDE DEF next
    <3>3. page' = [page EXCEPT !.msgs = next]
      BY <1>1, <2>4 DEF next
    <3>4. page' \in [marked : BOOLEAN, hooked : BOOLEAN, msgs : Seq(Nat)] /\ page'.msgs = next
      BY <3>1, <3>3 DEF Console
    <3> QED BY <3>1, <3>2, <3>4 DEF Batch
  <2> QED BY <2>3, <2>4
<1>6. Apart(page'.msgs, buffer)
  <2>1. Apart(page.msgs, buffer)
    BY DEF Console
  <2> QED BY <1>4, <1>5, <2>1 DEF Apart
<1>7. ASSUME NEW t \in Callers, Stores(t)'
      PROVE  /\ Batch(calls[t].msgs, new)
             /\ Apart(calls[t].msgs, page'.msgs) /\ Apart(calls[t].msgs, buffer)
  <2>1. Stores(t)
    BY <1>1, <1>7 DEF Stores, Does
  <2>2. /\ Batch(calls[t].msgs, messages)
        /\ Apart(calls[t].msgs, page.msgs) /\ Apart(calls[t].msgs, buffer)
    BY <2>1 DEF Console
  <2>3. Batch(calls[t].msgs, new) /\ new \notin Range(calls[t].msgs)
    BY <1>3, <2>2
  <2>4. Apart(calls[t].msgs, page'.msgs)
    BY <1>5, <2>2, <2>3 DEF Apart
  <2> QED BY <2>2, <2>3, <2>4
<1>8. ASSUME NEW t \in Callers, NEW u \in Callers, Stores(t)', Stores(u)', t # u
      PROVE  Apart(calls[t].msgs, calls[u].msgs)
  BY <1>1, <1>8 DEF Console, Stores, Does
<1>9. Batch(buffer', messages') /\ Len(buffer') <= MaxMessages
      /\ calls' = [t \in Callers |-> calls'[t]]
  BY <1>1, <1>4 DEF Console
<1> QED BY <1>1, <1>5, <1>6, <1>7, <1>8, <1>9 DEF Console

\* A call takes the messages out of the page, or loses them.
LEMMA ConsoleDrained ==
    ASSUME Console, NEW t \in Callers, Drain(t)
    PROVE  Console'
<1>1. PICK ok \in BOOLEAN, executed \in BOOLEAN :
          /\ ok => executed
          /\ page' = IF executed
                     THEN [marked |-> TRUE, hooked |-> page.hooked, msgs |-> <<>>] ELSE page
          /\ Goes(t, [at |-> "push", msgs |-> IF ok THEN page.msgs ELSE <<>>])
  BY DEF Drain
<1>2. messages' = messages /\ buffer' = buffer
  BY DEF Drain
<1> DEFINE taken == IF ok THEN page.msgs ELSE <<>>
<1>3. /\ page' \in [marked : BOOLEAN, hooked : BOOLEAN, msgs : Seq(Nat)]
      /\ page'.msgs = IF executed THEN <<>> ELSE page.msgs
  <2>1. page \in [marked : BOOLEAN, hooked : BOOLEAN, msgs : Seq(Nat)]
    BY DEF Console
  <2>2. CASE executed
    <3>1. page' = [marked |-> TRUE, hooked |-> page.hooked, msgs |-> <<>>]
      BY <1>1, <2>2
    <3> QED BY <2>1, <2>2, <3>1
  <2>3. CASE ~executed
    BY <1>1, <2>1, <2>3
  <2> QED BY <2>2, <2>3
<1>4. Apart(taken, page'.msgs)
  BY <1>1, <1>3, Empty
<1>5. Batch(taken, messages) /\ Apart(taken, buffer)
  BY Empty DEF Console
<1>6. /\ Batch(page'.msgs, messages) /\ Len(page'.msgs) <= MaxPage
      /\ Apart(page'.msgs, buffer)
  BY <1>3, Empty, MemoryAssumption DEF Console
<1>7. /\ calls' = [calls EXCEPT ![t] = [at |-> "push", msgs |-> taken]]
      /\ DOMAIN calls = Callers
  BY <1>1 DEF Goes, Console
<1>8. calls'[t].msgs = taken /\ \A u \in Callers \ {t} : calls'[u] = calls[u]
  BY <1>7
<1>9. calls' = [u \in Callers |-> calls'[u]]
  BY <1>7
<1> HIDE DEF taken
<1>10. ASSUME NEW u \in Callers, Stores(u)', u # t
       PROVE  /\ Stores(u) /\ calls'[u].msgs = calls[u].msgs
              /\ Batch(calls[u].msgs, messages)
              /\ Apart(calls[u].msgs, page'.msgs) /\ Apart(calls[u].msgs, buffer)
              /\ Apart(calls[u].msgs, taken)
  <2>1. calls'[u] = calls[u] /\ Stores(u)
    BY <1>8, <1>10 DEF Stores, Does
  <2>2. /\ Batch(calls[u].msgs, messages)
        /\ Apart(calls[u].msgs, page.msgs) /\ Apart(calls[u].msgs, buffer)
    BY <2>1 DEF Console
  <2> QED BY <1>3, <2>1, <2>2, Empty DEF taken
<1>11. ASSUME NEW u \in Callers, Stores(u)'
       PROVE  /\ Batch(calls'[u].msgs, messages)
              /\ Apart(calls'[u].msgs, page'.msgs) /\ Apart(calls'[u].msgs, buffer)
  <2>1. CASE u = t
    BY <1>4, <1>5, <1>8, <2>1
  <2>2. CASE u # t
    BY <1>10, <1>11, <2>2
  <2> QED BY <2>1, <2>2
<1>12. ASSUME NEW u \in Callers, NEW v \in Callers, Stores(u)', Stores(v)', u # v
       PROVE  Apart(calls'[u].msgs, calls'[v].msgs)
  <2>1. CASE u = t
    <3>1. calls'[u].msgs = taken /\ calls'[v].msgs = calls[v].msgs /\ Apart(calls[v].msgs, taken)
      BY <1>8, <1>10, <1>12, <2>1
    <3> QED BY <3>1, ApartSymmetric
  <2>2. CASE v = t
    BY <1>8, <1>10, <1>12, <2>2
  <2>3. CASE u # t /\ v # t
    BY <1>10, <1>12, <2>3 DEF Console
  <2> QED BY <2>1, <2>2, <2>3
<1> QED BY <1>2, <1>3, <1>6, <1>9, <1>11, <1>12 DEF Console

\* A call stores what it took.
LEMMA ConsoleStored ==
    ASSUME Console, NEW t \in Callers, Store(t)
    PROVE  Console'
<1> DEFINE taken == calls[t].msgs
           next == PushAll(buffer, taken, MaxMessages)
<1>1. /\ Stores(t) /\ buffer' = next /\ Goes(t, Nothing)
      /\ UNCHANGED <<page, messages>>
  BY DEF Store, Stores
<1>2. /\ Batch(taken, messages) /\ Apart(taken, page.msgs) /\ Apart(taken, buffer)
      /\ Batch(buffer, messages) /\ Len(buffer) <= MaxMessages
  BY <1>1 DEF Console
<1>3. /\ next \in Seq(Nat) /\ Len(next) <= MaxMessages
      /\ Range(next) \subseteq Range(buffer) \cup Range(taken) /\ IsInjective(next)
  <2>1. Apart(buffer, taken) /\ MaxMessages \in Nat \ {0}
    BY <1>2, ApartSymmetric, MemoryAssumption
  <2> HIDE DEF taken
  <2> QED BY <1>2, <2>1, PushAllKeeps DEF Batch
<1>4. /\ calls' = [u \in Callers |-> calls'[u]] /\ ~Stores(t)'
      /\ \A u \in Callers : Stores(u)' => Stores(u) /\ calls'[u] = calls[u]
  BY <1>1, NothingToStore
<1> HIDE DEF next
<1>5. Batch(next, messages)
  BY <1>2, <1>3 DEF Batch
<1>6. Apart(page.msgs, next)
  <2>1. Apart(page.msgs, buffer)
    BY DEF Console
  <2> QED BY <1>2, <1>3, <2>1 DEF Apart
<1>7. ASSUME NEW u \in Callers, Stores(u)'
      PROVE  /\ Batch(calls'[u].msgs, messages)
             /\ Apart(calls'[u].msgs, page.msgs) /\ Apart(calls'[u].msgs, next)
  <2>1. Stores(u) /\ calls'[u] = calls[u] /\ u # t
    BY <1>4, <1>7
  <2>2. /\ Batch(calls[u].msgs, messages)
        /\ Apart(calls[u].msgs, page.msgs) /\ Apart(calls[u].msgs, buffer)
        /\ Apart(calls[u].msgs, taken)
    BY <1>1, <2>1 DEF Console
  <2>3. Apart(calls[u].msgs, next)
    BY <1>3, <2>2 DEF Apart
  <2> QED BY <2>1, <2>2, <2>3
<1>8. ASSUME NEW u \in Callers, NEW v \in Callers, Stores(u)', Stores(v)', u # v
      PROVE  Apart(calls'[u].msgs, calls'[v].msgs)
  BY <1>4, <1>8 DEF Console
<1>9. Console'
  <2>1. /\ messages' \in Nat /\ page' \in [marked : BOOLEAN, hooked : BOOLEAN, msgs : Seq(Nat)]
        /\ Batch(page'.msgs, messages') /\ Len(page'.msgs) <= MaxPage
    BY <1>1 DEF Console
  <2> QED BY <1>1, <1>3, <1>4, <1>5, <1>6, <1>7, <1>8, <2>1 DEF Console
<1> QED BY <1>9

\* Every step keeps the messages apart.
LEMMA NextConsole == Console /\ [MemoryNext]_memoryVars => Console'
<1> SUFFICES ASSUME Console, [MemoryNext]_memoryVars PROVE Console'
  OBVIOUS
<1>1. ASSUME NEW t \in Callers, Shoot(t) \/ WriteLog(t) \/ List(t) \/ Answer(t) \/ Enable(t)
      PROVE  Console'
  BY <1>1, ConsoleCalls
<1>2. ASSUME NEW t \in Callers, Drain(t) PROVE Console'
  BY <1>2, ConsoleDrained
<1>3. ASSUME NEW t \in Callers, Store(t) PROVE Console'
  BY <1>3, ConsoleStored
<1>4. CASE ClearHistory \/ NewDocument \/ ClearConsole
  BY <1>4, ConsoleCleared
<1>5. CASE Log
  BY <1>5, ConsoleLogged
<1>6. CASE UNCHANGED memoryVars
  BY <1>6 DEF memoryVars, Console, Stores, Does
<1> QED BY <1>1, <1>2, <1>3, <1>4, <1>5, <1>6 DEF MemoryNext

\* No messages at first.
LEMMA InitConsole == MemoryInit => Console
<1> SUFFICES ASSUME MemoryInit PROVE Console
  OBVIOUS
<1>1. /\ page = NewPage /\ NewPage \in [marked : BOOLEAN, hooked : BOOLEAN, msgs : Seq(Nat)]
      /\ page.msgs = <<>> /\ buffer = <<>>
  BY DEF MemoryInit, NewPage
<1>2. messages = 0 /\ calls = [t \in Callers |-> calls[t]]
      /\ \A t \in Callers : ~Stores(t)
  BY DEF MemoryInit, Stores, Does
<1> QED BY <1>1, <1>2, Empty, MemoryAssumption DEF Console

\* The property in these terms.
LEMMA ConsoleSuffices == Console => ReportedOnce
<1> SUFFICES ASSUME Console PROVE ReportedOnce
  OBVIOUS
<1>1. /\ page.msgs \in Seq(Nat) /\ buffer \in Seq(Nat)
      /\ IsInjective(page.msgs) /\ IsInjective(buffer) /\ Apart(page.msgs, buffer)
  BY DEF Console, Batch
<1>2. IsInjective(page.msgs \o buffer)
  BY <1>1, Joined
<1>3. ASSUME NEW t \in Callers, Stores(t)
      PROVE  IsInjective(page.msgs \o calls[t].msgs \o buffer)
  <2> DEFINE first == page.msgs \o calls[t].msgs
  <2>1. /\ calls[t].msgs \in Seq(Nat) /\ IsInjective(calls[t].msgs)
        /\ Apart(calls[t].msgs, page.msgs) /\ Apart(calls[t].msgs, buffer)
    BY <1>3 DEF Console, Batch
  <2>2. Apart(page.msgs, calls[t].msgs)
    BY <2>1, ApartSymmetric
  <2>3. first \in Seq(Nat)
    BY <1>1, <2>1
  <2>4. Range(first) = Range(page.msgs) \cup Range(calls[t].msgs) /\ IsInjective(first)
    BY <1>1, <2>1, <2>2, Joined
  <2> HIDE DEF first
  <2>5. Apart(first, buffer)
    BY <1>1, <2>1, <2>4 DEF Apart
  <2>6. IsInjective(first \o buffer)
    BY <1>1, <2>3, <2>4, <2>5, Joined
  <2> QED BY <2>6 DEF first
<1>4. ASSUME NEW t \in Callers, NEW u \in Callers, Stores(t), Stores(u),
             Range(calls[t].msgs) \cap Range(calls[u].msgs) # {}
      PROVE  t = u
  BY <1>4 DEF Console, Apart
<1> QED BY <1>2, <1>3, <1>4 DEF ReportedOnce, Stores

-----------------------------------------------------------------------------
(* Types and sizes                                                         *)

IsIndex(index) == index \in 0 .. MaxShots - 1 \/ index = Nothing

\* What a call may be doing.
IsCall(call) ==
    call # Nothing => /\ call.at \in {"record", "get", "drain", "push"}
                      /\ call.at = "record" => IsIndex(call.index)

Sizes ==
    /\ Len(history) <= MaxShots /\ Range(history) \subseteq 1 .. shots
    /\ Len(log) <= MaxEntries /\ \A i \in DOMAIN log : IsIndex(log[i].index)
    /\ \A t \in Callers : IsCall(calls[t])

\* A step of one call: what it does next decides.
LEMMA OneCallSized ==
    ASSUME CallsFit, Sizes, NEW t \in Callers, NEW next, Goes(t, next), IsCall(next)
    PROVE  \A u \in Callers : IsCall(calls'[u])
<1>1. ASSUME NEW u \in Callers PROVE calls'[u] = IF u = t THEN next ELSE calls[u]
  BY DEF Goes, CallsFit
<1> QED BY <1>1 DEF Sizes

\* An action is taken: the index of its screenshot is the last one of a history
\* that has room for MaxShots.
LEMMA ShootSized ==
    ASSUME IInv, Sizes, NEW t \in Callers, Shoot(t)
    PROVE  Sizes'
<1>1. log' = log
  BY DEF Shoot
<1>2. CASE shots' = shots + 1 /\ history' = Push(history, shots', MaxShots)
           /\ Goes(t, [at |-> "record", shot |-> shots', index |-> Len(history') - 1])
  <2> DEFINE next == [at |-> "record", shot |-> shots', index |-> Len(history') - 1]
  <2>1. /\ history \in Seq(Nat) /\ shots \in Nat /\ shots + 1 \in Nat
        /\ MaxShots \in Nat \ {0} /\ Len(history) <= MaxShots
    BY MemoryAssumption DEF IInv, Increasing, Sizes
  <2>2. history' = Push(history, shots + 1, MaxShots)
    BY <1>2
  <2>3. /\ history' \in Seq(Nat) /\ Len(history') <= MaxShots
        /\ Range(history') \subseteq Range(history) \cup {shots + 1}
    BY <2>1, <2>2, PushKeeps
  <2>4. Len(history') > 0
    BY <2>1, <2>2, PushShape DEF OneMore
  <2>5. Range(history') \subseteq 1 .. shots'
    <3>1. Range(history) \subseteq 1 .. shots
      BY DEF Sizes
    <3> QED BY <1>2, <2>1, <2>3, <3>1
  <2>6. IsIndex(Len(history') - 1)
    BY <2>1, <2>3, <2>4 DEF IsIndex
  <2>7. IsCall(next)
    BY <2>6 DEF IsCall
  <2>8. \A u \in Callers : IsCall(calls'[u])
    <3>1. Goes(t, next)
      BY <1>2
    <3> HIDE DEF next
    <3> QED BY <2>7, <3>1, OneCallSized DEF IInv
  <2> QED BY <1>1, <2>3, <2>5, <2>8 DEF Sizes
<1>3. CASE history' = history /\ shots' = shots
           /\ Goes(t, [at |-> "record", shot |-> Nothing, index |-> Nothing])
  <2> DEFINE next == [at |-> "record", shot |-> Nothing, index |-> Nothing]
  <2>1. IsCall(next)
    BY DEF IsCall, IsIndex
  <2>2. \A u \in Callers : IsCall(calls'[u])
    <3>1. Goes(t, next)
      BY <1>3
    <3> HIDE DEF next
    <3> QED BY <2>1, <3>1, OneCallSized DEF IInv
  <2> QED BY <1>1, <1>3, <2>2 DEF Sizes
<1> QED BY <1>2, <1>3 DEF Shoot

\* An index goes from the call to a log that has room for MaxEntries.
LEMMA WriteLogSized ==
    ASSUME IInv, Sizes, NEW t \in Callers, WriteLog(t)
    PROVE  Sizes'
<1> DEFINE Entry == [index : MayBeNat, shot : MayBeNat]
           entry == [index |-> calls[t].index, shot |-> calls[t].shot]
<1>1. /\ UNCHANGED <<history, shots>> /\ Goes(t, Nothing) /\ Does(t, "record")
      /\ log' = Push(log, entry, MaxEntries)
  BY DEF WriteLog
<1>2. Fits(history, shots, calls[t].index, calls[t].shot)
  BY <1>1 DEF IInv, CallsFit, Remembers
<1>3. entry \in Entry /\ log \in Seq(Entry) /\ MaxEntries \in Nat \ {0} /\ Len(log) <= MaxEntries
  BY <1>2, MemoryAssumption DEF Fits, IInv, LogFits, Sizes
<1>4. IsIndex(entry.index)
  BY <1>1 DEF Sizes, IsCall, Does
<1> HIDE DEF Entry, entry
<1>5. /\ log' \in Seq(Entry) /\ Len(log') <= MaxEntries
      /\ Range(log') \subseteq Range(log) \cup {entry}
  BY <1>1, <1>3, PushKeeps
<1>6. ASSUME NEW i \in DOMAIN log'
      PROVE  IsIndex(log'[i].index)
  <2>1. log'[i] = entry \/ \E j \in DOMAIN log : log'[i] = log[j]
    BY <1>5 DEF Range
  <2> QED BY <1>4, <2>1 DEF Sizes
<1>7. \A u \in Callers : IsCall(calls'[u])
  <2>1. IsCall(Nothing)
    BY DEF IsCall
  <2> QED BY <1>1, <2>1, OneCallSized DEF IInv
<1> QED BY <1>1, <1>5, <1>6, <1>7 DEF Sizes

\* The steps of calls that change neither the history nor the log.
LEMMA CallSized ==
    ASSUME IInv, Sizes, NEW t \in Callers,
           List(t) \/ Answer(t) \/ Enable(t) \/ Drain(t) \/ Store(t)
    PROVE  Sizes'
<1>1. UNCHANGED <<history, shots, log>>
  BY DEF List, Answer, Enable, Drain, Store
<1>2. PICK next : Goes(t, next) /\ (next = Nothing \/ next.at \in {"get", "drain", "push"})
  <2>1. CASE Answer(t) \/ Store(t)
    BY <2>1 DEF Answer, Store
  <2>2. CASE Enable(t)
    BY <2>2 DEF Enable
  <2>3. CASE Drain(t)
    <3>1. PICK ok \in BOOLEAN :
              Goes(t, [at |-> "push", msgs |-> IF ok THEN page.msgs ELSE <<>>])
      BY <2>3 DEF Drain
    <3> QED BY <3>1
  <2>4. CASE List(t)
    <3>1. PICK i \in DOMAIN history :
              Goes(t, [at |-> "get", shot |-> history[i], index |-> i - 1])
      BY <2>4 DEF List
    <3> QED BY <3>1
  <2> QED BY <2>1, <2>2, <2>3, <2>4
<1>3. IsCall(next)
  BY <1>2 DEF IsCall
<1>4. \A u \in Callers : IsCall(calls'[u])
  BY <1>2, <1>3, OneCallSized DEF IInv
<1> QED BY <1>1, <1>4 DEF Sizes

\* What other parts do to calls and history keeps the sizes.
LEMMA OthersSized ==
    ASSUME IInv, Sizes, ClearHistory \/ Log \/ NewDocument \/ ClearConsole \/ UNCHANGED memoryVars
    PROVE  Sizes'
<1>1. CASE ClearHistory
  <2>1. history' = <<>> /\ UNCHANGED <<shots, log, calls>> /\ MaxShots \in Nat
    BY <1>1, MemoryAssumption DEF ClearHistory
  <2>2. Len(history') <= MaxShots /\ Range(history') \subseteq 1 .. shots'
    BY <2>1 DEF Range
  <2> QED BY <2>1, <2>2 DEF Sizes
<1>2. CASE NewDocument
  <2>1. /\ calls' = [t \in Callers |-> IF Does(t, "drain") THEN [calls[t] EXCEPT !.installed = FALSE]
                                                       ELSE calls[t]]
        /\ UNCHANGED <<history, shots, log>>
    BY <1>2 DEF NewDocument
  <2>2. ASSUME NEW t \in Callers PROVE IsCall(calls'[t])
    <3>1. CASE Does(t, "drain")
      <4>1. calls'[t] = [calls[t] EXCEPT !.installed = FALSE] /\ calls[t].at = "drain"
        BY <2>1, <3>1 DEF Does
      <4>2. calls'[t].at = "drain"
        BY <2>2, <4>1 DEF Sizes, IsCall
      <4> QED BY <4>2 DEF IsCall
    <3>2. CASE ~Does(t, "drain")
      BY <2>1, <3>2 DEF Sizes
    <3> QED BY <3>1, <3>2
  <2> QED BY <2>1, <2>2 DEF Sizes
<1>3. CASE Log \/ ClearConsole \/ UNCHANGED memoryVars
  <2>1. UNCHANGED <<history, shots, log, calls>>
    BY <1>3 DEF Log, ClearConsole, memoryVars
  <2> QED BY <2>1 DEF Sizes
<1> QED BY <1>1, <1>2, <1>3

\* One step for each group of actions.
LEMMA NextSizes == IInv /\ Sizes /\ [MemoryNext]_memoryVars => Sizes'
<1> SUFFICES ASSUME IInv, Sizes, [MemoryNext]_memoryVars PROVE Sizes'
  OBVIOUS
<1>1. ASSUME NEW t \in Callers, Shoot(t) PROVE Sizes'
  BY <1>1, ShootSized
<1>2. ASSUME NEW t \in Callers, WriteLog(t) PROVE Sizes'
  BY <1>2, WriteLogSized
<1>3. ASSUME NEW t \in Callers, List(t) \/ Answer(t) \/ Enable(t) \/ Drain(t) \/ Store(t)
      PROVE  Sizes'
  BY <1>3, CallSized
<1>4. CASE ClearHistory \/ Log \/ NewDocument \/ ClearConsole \/ UNCHANGED memoryVars
  BY <1>4, OthersSized
<1> QED BY <1>1, <1>2, <1>3, <1>4 DEF MemoryNext

\* Everything is empty at first.
LEMMA InitSizes == MemoryInit => Sizes
<1> SUFFICES ASSUME MemoryInit PROVE Sizes
  OBVIOUS
<1>1. /\ history = <<>> /\ log = <<>> /\ shots = 0
      /\ \A t \in Callers : calls[t] = Nothing
  BY DEF MemoryInit
<1>2. Len(history) <= MaxShots /\ Range(history) \subseteq 1 .. shots
  BY <1>1, MemoryAssumption DEF Range
<1>3. Len(log) <= MaxEntries /\ \A i \in DOMAIN log : IsIndex(log[i].index)
  BY <1>1, MemoryAssumption
<1> QED BY <1>1, <1>2, <1>3 DEF Sizes, IsCall

\* The types are these sizes and those of the console.
LEMMA SizesSuffice == Sizes /\ Console => MemoryTypeOK
<1> SUFFICES ASSUME Sizes, Console PROVE MemoryTypeOK
  OBVIOUS
<1>1. /\ Len(page.msgs) <= MaxPage /\ Range(page.msgs) \subseteq 1 .. messages
      /\ Len(buffer) <= MaxMessages /\ Range(buffer) \subseteq 1 .. messages
  BY DEF Console, Batch
<1> QED BY <1>1 DEF Sizes, IsIndex, IsCall, MemoryTypeOK

-----------------------------------------------------------------------------
(* Theorems                                                                *)

\* The screenshots, the log of actions, the page's own buffer and the
\* ConsoleBuffer never hold more than their caps, every index that is logged is one
\* of a full history or none, and everything stored was taken or logged before
\* (ScreenshotHistory::push, ActionLog::record, ConsoleBuffer::push).
THEOREM MemoryTypeCorrect == MemorySpec => []MemoryTypeOK
<1>1. IInv /\ Sizes /\ [MemoryNext]_memoryVars => (IInv /\ Sizes)'
  BY NextIInv, NextSizes
<1> QED BY <1>1, InitIInv, InitSizes, InitConsole, NextConsole, SizesSuffice, PTL DEF MemorySpec

\* However calls take screenshots, list and clear the history, an index that was
\* remembered never finds a screenshot from before it (record_action,
\* ScreenshotHistory::get).
THEOREM IndexIsNeverOlder == MemorySpec => []IndexNeverOlder
<1> QED BY InitIInv, NextIInv, FitsAll, PTL DEF MemorySpec

\* However calls drain the page and store at the same time, no console message is
\* reported twice (sync_console_messages, ConsoleBuffer::push).
THEOREM AlwaysReportedOnce == MemorySpec => []ReportedOnce
<1> QED BY InitConsole, NextConsole, ConsoleSuffices, PTL DEF MemorySpec

-----------------------------------------------------------------------------
(* DevEnvironment: what starts, fails, sweeps and stops                    *)

Stages == {"none", "display", "port", "xvfb", "sink", "chromium", "write", "runs",
           "stop", "stop sink", "stop xvfb", "stop pid",
           "sweep, display", "sweep, port", "sweep, down",
           "unlock, display", "unlock, port", "unlock, down",
           "refused", "down", "crashed"}

DevTypeOK ==
    /\ at \in [Procs -> Stages]
    /\ xvfb \in Procs \cup {NoProc} /\ lock \in Procs \cup {NoProc}
    /\ chromium \in Procs \cup {NoProc} /\ pid_file \in Procs \cup {NoProc}
    /\ sinks \subseteq Procs /\ wrote \subseteq Procs
    /\ found \in [Procs -> Procs \cup {NoProc}]

\* Where a process can be while something of it is on the display.
HasXvfb == {"sink", "chromium", "write", "runs", "stop", "stop sink", "stop xvfb", "crashed"}
HasLock == HasXvfb \cup {"stop pid", "sweep, down", "unlock, down"}
HasSink == {"chromium", "write", "runs", "stop", "stop sink", "crashed"}
HasChromium == {"write", "runs", "stop", "crashed"}
HasFile == {"runs", "stop", "stop sink", "stop xvfb", "stop pid", "crashed"}

Owns(p) ==
    /\ xvfb = p => at[p] \in HasXvfb
    /\ lock = p => at[p] \in HasLock
    /\ chromium = p => at[p] \in HasChromium
    /\ p \in sinks => at[p] \in HasSink
    /\ pid_file = p => at[p] \in HasFile /\ p \in wrote

Owned == \A p \in Procs : Owns(p)

\* After the sweep, before the display and the port have been looked at.
Looks == {"unlock, display", "display", "sweep, port", "unlock, port", "port"}

\* The dead process that p found stays dead, and nothing of it runs while p looks.
SweptFor(p) ==
    found[p] # NoProc =>
        /\ at[p] # "none"
        /\ at[found[p]] \in Ended
        /\ at[p] \in Looks => xvfb # found[p] /\ chromium # found[p]

Swept == \A p \in Procs : SweptFor(p)

-----------------------------------------------------------------------------
(* One step of one process                                                 *)

\* Only p moves.
LEMMA Moved ==
    ASSUME DevTypeOK, NEW p \in Procs, NEW to \in Stages, at' = [at EXCEPT ![p] = to]
    PROVE  /\ at' \in [Procs -> Stages]
           /\ at'[p] = to
           /\ \A q \in Procs \ {p} : at'[q] = at[q]
  BY DEF DevTypeOK

\* What p does not take stays with the process that had it.
LEMMA OwnedStep ==
    ASSUME DevTypeOK, Owned, NEW p \in Procs, NEW to \in Stages,
           at' = [at EXCEPT ![p] = to],
           xvfb' \in {xvfb, NoProc, p}, lock' \in {lock, NoProc, p},
           chromium' \in {chromium, NoProc, p}, pid_file' \in {pid_file, NoProc, p},
           sinks' \subseteq sinks \cup {p},
           wrote \subseteq wrote', wrote' \subseteq Procs,
           xvfb' = p => to \in HasXvfb,
           lock' = p => to \in HasLock,
           chromium' = p => to \in HasChromium,
           p \in sinks' => to \in HasSink,
           pid_file' = p => to \in HasFile /\ p \in wrote'
    PROVE  Owned'
<1>1. at'[p] = to /\ \A q \in Procs \ {p} : at'[q] = at[q]
  BY Moved
<1>2. ASSUME NEW q \in Procs PROVE Owns(q)'
  <2>1. CASE q = p
    BY <1>1, <2>1 DEF Owns
  <2>2. CASE q # p
    <3>1. at'[q] = at[q] /\ q # NoProc /\ Owns(q)
      BY <1>1, <2>2, DevAssumption DEF Owned
    <3> QED BY <2>2, <3>1 DEF Owns
  <2> QED BY <2>1, <2>2
<1> QED BY <1>2 DEF Owned

\* A process that has not ended takes a step, and what a dead one left on the
\* display is not there again.
LEMMA SweptStep ==
    ASSUME DevTypeOK, Swept, NEW p \in Procs, NEW to \in Stages \ {"none"},
           at' = [at EXCEPT ![p] = to], at[p] \notin Ended,
           xvfb' \in {xvfb, NoProc, p}, chromium' \in {chromium, NoProc, p},
           found' = found,
           to \in Looks =>
               \/ at[p] \in Looks
               \/ found[p] # NoProc => xvfb' = NoProc /\ chromium' = NoProc
    PROVE  Swept'
<1>1. at'[p] = to /\ \A q \in Procs \ {p} : at'[q] = at[q]
  BY Moved
<1>2. ASSUME NEW q \in Procs, found[q] # NoProc PROVE SweptFor(q)'
  <2> DEFINE d == found[q]
  <2>1. d \in Procs /\ at[d] \in Ended /\ d # p /\ at[q] # "none" /\ SweptFor(q)
    BY <1>2 DEF Swept, SweptFor, DevTypeOK
  <2>2. at'[d] \in Ended /\ found'[q] = d
    BY <1>1, <2>1
  <2>3. at'[q] # "none"
    BY <1>1, <2>1
  <2>4. ASSUME at'[q] \in Looks PROVE xvfb' # d /\ chromium' # d
    <3>1. at[q] \in Looks \/ (xvfb' = NoProc /\ chromium' = NoProc)
      BY <1>1, <1>2, <2>4
    <3>2. at[q] \in Looks => xvfb # d /\ chromium # d
      BY <1>2, <2>1 DEF SweptFor
    <3> HIDE DEF d
    <3> QED BY <2>1, <3>1, <3>2, DevAssumption
  <2> QED BY <2>2, <2>3, <2>4 DEF SweptFor
<1>3. \A q \in Procs : found[q] = NoProc => SweptFor(q)'
  BY DEF SweptFor
<1> QED BY <1>2, <1>3 DEF Swept

DevInv == DevTypeOK /\ Owned /\ Swept

\* A step of p that takes nothing new on the display and does not start to look.
LEMMA ReleaseStep ==
    ASSUME DevInv, NEW p \in Procs, NEW to \in Stages \ {"none"},
           at' = [at EXCEPT ![p] = to], at[p] \notin Ended, found' = found,
           xvfb' \in {xvfb, NoProc}, lock' \in {lock, NoProc},
           chromium' \in {chromium, NoProc}, pid_file' \in {pid_file, NoProc},
           sinks' \subseteq sinks, wrote' = wrote,
           at[p] \in HasXvfb => to \in HasXvfb \/ xvfb' # p,
           at[p] \in HasLock => to \in HasLock \/ lock' = NoProc,
           at[p] \in HasSink => to \in HasSink \/ p \notin sinks',
           at[p] \in HasChromium => to \in HasChromium \/ chromium' # p,
           at[p] \in HasFile => to \in HasFile \/ (p \in wrote => pid_file' = NoProc),
           to \in Looks =>
               \/ at[p] \in Looks
               \/ found[p] # NoProc => xvfb' = NoProc /\ chromium' = NoProc
    PROVE  DevInv'
<1>1. DevTypeOK /\ Owned /\ Swept /\ Owns(p) /\ p # NoProc
  BY DevAssumption DEF DevInv, Owned
<1>2. DevTypeOK'
  BY <1>1, Moved DEF DevTypeOK
<1>3. /\ xvfb' = p => to \in HasXvfb
      /\ lock' = p => to \in HasLock
      /\ chromium' = p => to \in HasChromium
      /\ p \in sinks' => to \in HasSink
      /\ pid_file' = p => to \in HasFile /\ p \in wrote'
  BY <1>1 DEF Owns
<1>4. wrote \subseteq wrote' /\ wrote' \subseteq Procs /\ sinks' \subseteq sinks \cup {p}
  BY <1>1 DEF DevTypeOK
<1>5. Owned'
  BY <1>1, <1>3, <1>4, OwnedStep
<1>6. Swept'
  BY <1>1, SweptStep
<1> QED BY <1>2, <1>5, <1>6 DEF DevInv

-----------------------------------------------------------------------------
(* The steps                                                               *)

\* The PID file names a process that got as far as writing it.
LEMMA PidFileChecked ==
    ASSUME DevInv, NEW p \in Procs, check_pid_file(p)
    PROVE  DevInv'
<1>1. DevTypeOK /\ Owned /\ Swept /\ at[p] = "none"
      /\ UNCHANGED <<xvfb, lock, sinks, chromium, pid_file, wrote>>
  BY DEF DevInv, check_pid_file, Go
<1>2. Owns(p) /\ p # NoProc
  BY <1>1, DevAssumption DEF Owned
<1>3. xvfb # p /\ lock # p /\ chromium # p /\ p \notin sinks /\ pid_file # p
  BY <1>1, <1>2 DEF Owns, HasXvfb, HasLock, HasSink, HasChromium, HasFile
<1>4. ASSUME NEW to \in {"display", "refused"}, Go(p, "none", to), UNCHANGED found,
             to = "display" => pid_file = NoProc
      PROVE  DevInv'
  <2>1. to \in Stages \ {"none"} /\ at' = [at EXCEPT ![p] = to]
    BY <1>4 DEF Go, Stages
  <2>2. found[p] = NoProc
    BY <1>1 DEF Swept, SweptFor
  <2>3. at[p] \notin Ended /\ at[p] \notin HasXvfb /\ at[p] \notin HasLock
        /\ at[p] \notin HasSink /\ at[p] \notin HasChromium /\ at[p] \notin HasFile
    BY <1>1 DEF Ended, HasXvfb, HasLock, HasSink, HasChromium, HasFile
  <2> QED BY <1>1, <1>4, <2>1, <2>2, <2>3, ReleaseStep
<1>5. CASE /\ pid_file # NoProc /\ ~is_process_alive(pid_file)
           /\ Go(p, "none", "sweep, display") /\ found' = [found EXCEPT ![p] = pid_file]
  <2>1. at' = [at EXCEPT ![p] = "sweep, display"] /\ "sweep, display" \in Stages
    BY <1>5 DEF Go, Stages
  <2>2. at' \in [Procs -> Stages] /\ at'[p] = "sweep, display"
        /\ \A q \in Procs \ {p} : at'[q] = at[q]
    BY <1>1, <2>1, Moved
  <2>3. pid_file \in Procs /\ at[pid_file] \in Ended /\ pid_file # p
    <3>1. pid_file \in Procs
      BY <1>1, <1>5 DEF DevTypeOK
    <3>2. at[pid_file] # "none"
      BY <1>1, <3>1 DEF Owned, Owns, HasFile
    <3> QED BY <1>3, <1>5, <3>1, <3>2 DEF is_process_alive
  <2>4. found' \in [Procs -> Procs \cup {NoProc}] /\ found'[p] = pid_file
        /\ \A q \in Procs \ {p} : found'[q] = found[q]
    BY <1>1, <1>5, <2>3 DEF DevTypeOK
  <2>5. DevTypeOK'
    BY <1>1, <2>2, <2>4 DEF DevTypeOK
  <2>6. Owned'
    <3>1. wrote \subseteq wrote' /\ wrote' \subseteq Procs /\ sinks' \subseteq sinks \cup {p}
      BY <1>1 DEF DevTypeOK
    <3> QED BY <1>1, <1>3, <2>1, <3>1, OwnedStep
  <2>7. ASSUME NEW q \in Procs PROVE SweptFor(q)'
    <3>1. CASE q = p
      <4>1. at'[pid_file] \in Ended
        BY <2>2, <2>3
      <4> QED BY <2>2, <2>4, <3>1, <4>1 DEF SweptFor, Looks
    <3>2. CASE q # p
      <4>1. at'[q] = at[q] /\ found'[q] = found[q] /\ SweptFor(q)
        BY <1>1, <2>2, <2>4, <3>2 DEF Swept
      <4>2. found[q] # NoProc => at'[found[q]] = at[found[q]]
        <5>1. found[q] # NoProc => found[q] \in Procs
          BY <1>1 DEF DevTypeOK
        <5>2. found[q] # NoProc => found[q] # p
          BY <1>1, <4>1 DEF SweptFor, Ended
        <5> QED BY <2>2, <5>1, <5>2
      <4> QED BY <1>1, <4>1, <4>2 DEF SweptFor
    <3> QED BY <3>1, <3>2
  <2> QED BY <2>5, <2>6, <2>7 DEF DevInv, Swept
<1> QED BY <1>1, <1>4, <1>5 DEF check_pid_file

\* A step between two stages that leaves the display as it is.
LEMMA StageStep ==
    ASSUME DevInv, NEW p \in Procs, NEW from, NEW to \in Stages \ {"none"},
           Go(p, from, to), from \notin Ended,
           UNCHANGED <<xvfb, lock, sinks, chromium, pid_file, wrote, found>>,
           from \in HasXvfb => to \in HasXvfb, from \in HasLock => to \in HasLock,
           from \in HasSink => to \in HasSink, from \in HasChromium => to \in HasChromium,
           from \in HasFile => to \in HasFile,
           to \in Looks => from \in Looks
    PROVE  DevInv'
<1>1. at[p] = from /\ at' = [at EXCEPT ![p] = to]
  BY DEF Go
<1> QED BY <1>1, ReleaseStep

\* The display and the port are looked at, a start fails, a stop begins.
LEMMA StartLooks ==
    ASSUME DevInv, NEW p \in Procs,
           check_display_available(p) \/ check_port_available(p) \/ Fails(p) \/ Begin_stop(p)
    PROVE  DevInv'
<1> USE DEF Ended, Stages, HasXvfb, HasLock, HasSink, HasChromium, HasFile, Looks
<1>1. CASE check_display_available(p)
  <2>1. PICK to \in {"port", "refused", "sweep, port"} : Go(p, "display", to)
    BY <1>1 DEF check_display_available
  <2> QED BY <1>1, <2>1, StageStep DEF check_display_available
<1>2. CASE check_port_available(p)
  <2>1. PICK to \in {"xvfb", "refused"} : Go(p, "port", to)
    BY <1>2 DEF check_port_available
  <2> QED BY <1>2, <2>1, StageStep DEF check_port_available
<1>3. CASE Fails(p)
  <2>1. PICK from \in {"xvfb", "sink", "chromium"} : Go(p, from, "stop")
    BY <1>3 DEF Fails
  <2> QED BY <1>3, <2>1, StageStep DEF Fails
<1>4. CASE Begin_stop(p)
  BY <1>4, StageStep DEF Begin_stop
<1> QED BY <1>1, <1>2, <1>3, <1>4

\* A step by which p may take something on the display.
LEMMA TakeStep ==
    ASSUME DevInv, NEW p \in Procs, NEW to \in Stages \ ({"none"} \cup Looks),
           at' = [at EXCEPT ![p] = to], at[p] \notin Ended, found' = found,
           xvfb' \in {xvfb, p}, lock' \in {lock, p},
           chromium' \in {chromium, p}, pid_file' \in {pid_file, p},
           sinks' \subseteq sinks \cup {p},
           wrote \subseteq wrote', wrote' \subseteq Procs,
           xvfb' = p => to \in HasXvfb,
           lock' = p => to \in HasLock,
           chromium' = p => to \in HasChromium,
           p \in sinks' => to \in HasSink,
           pid_file' = p => to \in HasFile /\ p \in wrote'
    PROVE  DevInv'
<1>1. DevTypeOK /\ Owned /\ Swept
  BY DEF DevInv
<1>2. DevTypeOK'
  BY <1>1, Moved DEF DevTypeOK
<1>3. Owned'
  BY <1>1, OwnedStep
<1>4. Swept'
  BY <1>1, SweptStep
<1> QED BY <1>2, <1>3, <1>4 DEF DevInv

\* What a start takes it has.
LEMMA StartTakes ==
    ASSUME DevInv, NEW p \in Procs,
           start_xvfb(p) \/ create_pulse_sink(p) \/ launch_chromium(p) \/ write_pid_file(p)
    PROVE  DevInv'
<1> USE DEF Ended, Stages, HasXvfb, HasLock, HasSink, HasChromium, HasFile, Looks
<1>1. Owns(p) /\ wrote \subseteq Procs
  BY DEF DevInv, Owned, DevTypeOK
<1>2. CASE start_xvfb(p)
  <2>1. at[p] = "xvfb" /\ at' = [at EXCEPT ![p] = "sink"]
        /\ UNCHANGED <<sinks, chromium, pid_file, wrote, found>>
        /\ xvfb' \in {xvfb, p} /\ lock' \in {lock, p}
    BY <1>2 DEF start_xvfb, Go
  <2>2. chromium # p /\ p \notin sinks /\ pid_file # p
    BY <1>1, <2>1 DEF Owns
  <2> QED BY <1>1, <2>1, <2>2, TakeStep
<1>3. CASE create_pulse_sink(p)
  <2>1. at[p] = "sink" /\ at' = [at EXCEPT ![p] = "chromium"]
        /\ UNCHANGED <<xvfb, lock, chromium, pid_file, wrote, found>>
        /\ sinks' \subseteq sinks \cup {p}
    BY <1>3 DEF create_pulse_sink, Go
  <2>2. chromium # p /\ pid_file # p
    BY <1>1, <2>1 DEF Owns
  <2> QED BY <1>1, <2>1, <2>2, TakeStep
<1>4. CASE launch_chromium(p)
  <2>1. at[p] = "chromium" /\ at' = [at EXCEPT ![p] = "write"]
        /\ UNCHANGED <<xvfb, lock, sinks, pid_file, wrote, found>>
        /\ chromium' \in {chromium, p}
    BY <1>4 DEF launch_chromium, Go
  <2>2. pid_file # p
    BY <1>1, <2>1 DEF Owns
  <2> QED BY <1>1, <2>1, <2>2, TakeStep
<1>5. CASE write_pid_file(p)
  <2>1. at[p] = "write" /\ at' = [at EXCEPT ![p] = "runs"]
        /\ UNCHANGED <<xvfb, lock, sinks, chromium, found>>
        /\ \/ pid_file' = p /\ wrote' = wrote \cup {p}
           \/ pid_file' = pid_file /\ wrote' = wrote
    BY <1>5 DEF write_pid_file, Go
  <2>2. pid_file # p
    BY <1>1, <2>1 DEF Owns
  <2>3. wrote \subseteq wrote' /\ wrote' \subseteq Procs
        /\ (pid_file' = p => p \in wrote') /\ pid_file' \in {pid_file, p}
    BY <1>1, <2>1, <2>2
  <2> QED BY <1>1, <2>1, <2>3, TakeStep
<1> QED BY <1>2, <1>3, <1>4, <1>5

\* A stop releases one thing after another.
LEMMA StopReleases ==
    ASSUME DevInv, NEW p \in Procs,
           stop_chromium(p) \/ unload_sink(p) \/ stop_xvfb(p) \/ remove_pid_file(p)
    PROVE  DevInv'
<1> USE DEF Ended, Stages, HasXvfb, HasLock, HasSink, HasChromium, HasFile, Looks
<1>1. p # NoProc
  BY DevAssumption
<1>2. CASE stop_chromium(p)
  <2>1. at[p] = "stop" /\ at' = [at EXCEPT ![p] = "stop sink"]
        /\ UNCHANGED <<xvfb, lock, sinks, pid_file, wrote, found>>
        /\ chromium' \in {chromium, NoProc} /\ chromium' # p
    BY <1>1, <1>2 DEF stop_chromium, Go
  <2> QED BY <2>1, ReleaseStep
<1>3. CASE unload_sink(p)
  <2>1. at[p] = "stop sink" /\ at' = [at EXCEPT ![p] = "stop xvfb"]
        /\ UNCHANGED <<xvfb, lock, chromium, pid_file, wrote, found>>
        /\ sinks' \subseteq sinks /\ p \notin sinks'
    BY <1>3 DEF unload_sink, Go
  <2> QED BY <2>1, ReleaseStep
<1>4. CASE stop_xvfb(p)
  <2>1. at[p] = "stop xvfb" /\ at' = [at EXCEPT ![p] = "stop pid"]
        /\ UNCHANGED <<sinks, chromium, pid_file, wrote, found>>
        /\ xvfb' \in {xvfb, NoProc} /\ xvfb' # p /\ lock' \in {lock, NoProc}
    BY <1>1, <1>4 DEF stop_xvfb, Go
  <2> QED BY <2>1, ReleaseStep
<1>5. CASE remove_pid_file(p)
  <2>1. at[p] = "stop pid" /\ at' = [at EXCEPT ![p] = "sweep, down"]
        /\ UNCHANGED <<xvfb, lock, sinks, chromium, wrote, found>>
        /\ pid_file' \in {pid_file, NoProc} /\ (p \in wrote => pid_file' = NoProc)
    BY <1>5 DEF remove_pid_file, Go
  <2> QED BY <2>1, ReleaseStep
<1> QED BY <1>2, <1>3, <1>4, <1>5

\* A sweep releases what others have, and a crash nothing.
LEMMA SweepReleases ==
    ASSUME DevInv, NEW p \in Procs, Sweep(p) \/ Unlock(p) \/ Crash(p)
    PROVE  DevInv'
<1> USE DEF Ended, Stages, HasXvfb, HasLock, HasSink, HasChromium, HasFile, Looks
<1>1. CASE Sweep(p)
  <2>1. PICK from \in {"sweep, display", "sweep, port", "sweep, down"},
             to \in {"unlock, display", "unlock, port", "unlock, down"} :
            Go(p, from, to) /\ (from = "sweep, down" <=> to = "unlock, down")
    BY <1>1 DEF Sweep, Killing
  <2>2. at[p] = from /\ at' = [at EXCEPT ![p] = to]
        /\ xvfb' = NoProc /\ chromium' = NoProc /\ sinks' = {}
        /\ UNCHANGED <<lock, pid_file, wrote, found>>
    BY <1>1, <2>1 DEF Sweep, Go
  <2> QED BY <2>1, <2>2, ReleaseStep
<1>2. CASE Unlock(p)
  <2>1. PICK from \in {"unlock, display", "unlock, port", "unlock, down"},
             to \in {"display", "port", "down"} :
            Go(p, from, to) /\ (from = "unlock, down" => to = "down")
              /\ (to # "down" => from # "unlock, down")
    BY <1>2 DEF Unlock
  <2>2. at[p] = from /\ at' = [at EXCEPT ![p] = to]
        /\ lock' = NoProc /\ pid_file' \in {pid_file, NoProc}
        /\ UNCHANGED <<xvfb, sinks, chromium, wrote, found>>
    BY <1>2, <2>1 DEF Unlock, Go
  <2> QED BY <2>1, <2>2, ReleaseStep
<1>3. CASE Crash(p)
  <2>1. at' = [at EXCEPT ![p] = "crashed"] /\ at[p] \notin Ended
        /\ UNCHANGED <<xvfb, lock, sinks, chromium, pid_file, wrote, found>>
    BY <1>3 DEF Crash, is_process_alive
  <2> QED BY <2>1, ReleaseStep
<1> QED BY <1>1, <1>2, <1>3

\* The inductive invariant holds in every state.
LEMMA DevInvariance == DevSpec => []DevInv
<1>1. DevInit => DevInv
  BY DevAssumption
     DEF DevInit, DevInv, DevTypeOK, Stages, Owned, Owns, Swept, SweptFor
<1>2. DevInv /\ [DevNext]_devVars => DevInv'
  <2> SUFFICES ASSUME DevInv, [DevNext]_devVars PROVE DevInv'
    OBVIOUS
  <2>1. CASE UNCHANGED devVars
    BY <2>1 DEF devVars, DevInv, DevTypeOK, Owned, Owns, Swept, SweptFor
  <2>2. ASSUME NEW p \in Procs,
               start(p) \/ stop(p) \/ Sweep(p) \/ Unlock(p) \/ Crash(p)
        PROVE  DevInv'
    BY <2>2, PidFileChecked, StartLooks, StartTakes, StopReleases, SweepReleases
       DEF start, stop
  <2> QED BY <2>1, <2>2 DEF DevNext
<1> QED BY <1>1, <1>2, PTL DEF DevSpec

-----------------------------------------------------------------------------

\* What is left on the display belongs to a process that runs or that crashed
\* (DevEnvironment::stop, Drop, cleanup_stale_processes_for_display), for any
\* number of processes.
THEOREM NothingIsLeftBehind == DevSpec => []NothingLeftBehind
<1>1. DevInv => NothingLeftBehind
  <2> SUFFICES ASSUME DevInv, NEW p \in {xvfb, lock, chromium, pid_file} \cup sinks,
                      p # NoProc
               PROVE  is_process_alive(p) \/ at[p] = "crashed"
    BY DEF NothingLeftBehind
  <2>1. p \in Procs /\ Owns(p)
    BY DEF DevInv, DevTypeOK, Owned
  <2> QED BY <2>1 DEF Owns, is_process_alive, Ended, HasXvfb, HasLock, HasSink,
                      HasChromium, HasFile
<1> QED BY <1>1, DevInvariance, PTL

\* A start that found the PID file of a dead process is not refused because of
\* what that process left (check_pid_file before check_display_available and
\* check_port_available in DevEnvironment::start).
THEOREM RecordedIsAlwaysSwept == DevSpec => RecordedIsSwept
<1>1. ASSUME DevInv, [DevNext]_devVars, NEW p \in Procs, Refused(p), found[p] # NoProc
      PROVE  \E q \in Procs \ {p, found[p]} : is_process_alive(q) \/ at[q] = "crashed"
  <2>1. at'[p] # at[p] /\ at'[p] = "refused"
    BY <1>1 DEF Refused
  <2>2. DevTypeOK /\ Owned /\ SweptFor(p) /\ p # NoProc
    BY <1>1, DevAssumption DEF DevInv, Swept
  <2>3. PICK r \in Procs : start(r) \/ stop(r) \/ Sweep(r) \/ Unlock(r) \/ Crash(r)
    BY <1>1, <2>1 DEF DevNext, devVars
  <2>4. r = p /\ (check_display_available(p) \/ check_port_available(p))
    BY <2>1, <2>2, <1>1, <2>3
       DEF start, stop, check_pid_file, check_display_available, check_port_available,
           start_xvfb, create_pulse_sink, launch_chromium, write_pid_file, Fails,
           Begin_stop, stop_chromium, unload_sink, stop_xvfb, remove_pid_file,
           Sweep, Killing, Unlock, Crash, Go, DevTypeOK, SweptFor
  <2>5. \/ at[p] = "display" /\ xvfb # NoProc
        \/ at[p] = "port" /\ chromium # NoProc
    BY <2>1, <2>2, <2>4 DEF check_display_available, check_port_available, Go, DevTypeOK
  <2>6. at[p] \in Looks /\ xvfb # found[p] /\ chromium # found[p]
    BY <1>1, <2>2, <2>5 DEF SweptFor, Looks
  <2>7. PICK q \in Procs \ {p, found[p]} : xvfb = q \/ chromium = q
    <3>1. CASE at[p] = "display" /\ xvfb # NoProc
      <4>1. xvfb \in Procs /\ xvfb # p
        BY <2>2, <3>1 DEF DevTypeOK, Owned, Owns, HasXvfb
      <4> QED BY <2>6, <4>1
    <3>2. CASE at[p] = "port" /\ chromium # NoProc
      <4>1. chromium \in Procs /\ chromium # p
        BY <2>2, <3>2 DEF DevTypeOK, Owned, Owns, HasChromium
      <4> QED BY <2>6, <4>1
    <3> QED BY <2>5, <3>1, <3>2
  <2>8. at[q] \in HasXvfb
    BY <2>2, <2>7 DEF Owned, Owns, HasXvfb, HasChromium
  <2> QED BY <2>7, <2>8 DEF is_process_alive, Ended, HasXvfb
<1>2. DevInv /\ [DevNext]_devVars =>
          [\A p \in Procs : Refused(p) /\ found[p] # NoProc =>
              \E q \in Procs \ {p, found[p]} :
                  is_process_alive(q) \/ at[q] = "crashed"]_devVars
  BY <1>1
<1> QED BY <1>2, DevInvariance, PTL DEF DevSpec, RecordedIsSwept
=============================================================================
