---------------------------- MODULE Backends_proofs ---------------------------
(***************************************************************************)
(* Proofs about the backends and the in-process cables, whichever backend  *)
(* default_backend makes, for any queue sizes and bounds.  TypeInv         *)
(* holds of every reachable state; on it rest what an open end gets, what  *)
(* becomes of a lost frame, of a closed cable and of the buffer of a long  *)
(* send, and that a dump is torn for a named cause only.                   *)
(***************************************************************************)
EXTENDS Backends, FiniteSetTheorems, SequenceTheorems, WellFoundedInduction, TLAPS

-----------------------------------------------------------------------------
(* Induction over the numbers, from the least element of a well-founded    *)
(* order: a set of them with zero and every successor has them all.        *)

\* A set of numbers with zero and every successor is all of them.
LEMMA EveryNatural ==
  ASSUME NEW T \in SUBSET Nat, 0 \in T, \A n \in T : n + 1 \in T
  PROVE  T = Nat
<1> DEFINE U == Nat \ T
           V == {1..u : u \in U}
           R == StrictSubsetOrdering(Nat)
           S == FiniteSubsetsOf(Nat)
<1> SUFFICES ASSUME U # {} PROVE FALSE
  OBVIOUS
<1>1. IsWellFoundedOn(R, S)
  BY FS_StrictSubsetOrderingWellFounded
<1>2. V \subseteq S /\ V # {}
  <2>1. ASSUME NEW u \in Nat PROVE 1..u \in S
    <3>1. 1..u \subseteq Nat /\ IsFiniteSet(1..u)
      BY FS_Interval
    <3> QED BY <3>1 DEF FiniteSubsetsOf
  <2> QED BY <2>1
<1>3. PICK v \in V : \A y \in V : ~ (<<y, v>> \in R)
  <2> HIDE DEF V, R, S
  <2> QED BY <1>1, <1>2, WFMin
<1>4. PICK x \in U : v = 1..x
  OBVIOUS
<1>5. x \in Nat /\ x # 0
  OBVIOUS
<1>6. x - 1 \in Nat /\ x - 1 \in T
  <2> SUFFICES ASSUME x - 1 \in U PROVE FALSE
    BY <1>5
  <2>1. 1..(x - 1) \in V
    OBVIOUS
  <2>2. 1..(x - 1) \subseteq 1..x /\ x \in 1..x /\ x \notin 1..(x - 1) /\ 1..x \subseteq Nat
    BY <1>5
  <2>3. <<1..(x - 1), v>> \in R
    BY <1>4, <2>2 DEF StrictSubsetOrdering
  <2> QED BY <1>3, <2>1, <2>3
<1> QED BY <1>5, <1>6

\* A function that starts at a and takes a step after the other.
Takes(f, N, V, a, Step) ==
  f \in [0..N -> V] /\ f[0] = a /\ \A n \in 1..N : f[n] = Step[<<n, f[n - 1]>>]

\* There is one.
LEMMA Recursion ==
  ASSUME NEW N \in Nat, NEW V, NEW a \in V, NEW Step \in [(1..N) \X V -> V]
  PROVE  \E f : Takes(f, N, V, a, Step)
<1> DEFINE Steps(f, m) == f \in [0..m -> V] /\ f[0] = a /\ \A n \in 1..m : f[n] = Step[<<n, f[n - 1]>>]
           T == {m \in Nat : m <= N => \E f : Steps(f, m)}
<1>1. 0 \in T
  <2> DEFINE f == [n \in 0..0 |-> a]
  <2>1. Steps(f, 0)
    OBVIOUS
  <2> QED BY <2>1
<1>2. ASSUME NEW m \in T PROVE m + 1 \in T
  <2> SUFFICES ASSUME m + 1 <= N PROVE \E f : Steps(f, m + 1)
    OBVIOUS
  <2>1. PICK f : Steps(f, m)
    OBVIOUS
  <2> DEFINE v == Step[<<m + 1, f[m]>>]
             g == [n \in 0..(m + 1) |-> IF n = m + 1 THEN v ELSE f[n]]
  <2>2. m \in Nat /\ m + 1 \in 1..N /\ f[m] \in V
    BY <2>1
  <2>3. v \in V
    BY <2>2
  <2>4. \A n \in 0..(m + 1) : g[n] = IF n = m + 1 THEN v ELSE f[n]
    OBVIOUS
  <2>5. g \in [0..(m + 1) -> V]
    <3>1. \A n \in 0..(m + 1) : n # m + 1 => n \in 0..m
      BY <2>2
    <3> HIDE DEF v
    <3> QED BY <2>1, <2>3, <3>1
  <2> HIDE DEF g
  <2>6. g[0] = a
    BY <2>1, <2>2, <2>4
  <2>7. ASSUME NEW n \in 1..(m + 1) PROVE g[n] = Step[<<n, g[n - 1]>>]
    <3>5. \A i \in 1..m : f[i] = Step[<<i, f[i - 1]>>]
      BY <2>1
    <3>1. n - 1 \in 0..m /\ n - 1 # m + 1 /\ n - 1 \in 0..(m + 1)
      BY <2>2
    <3>2. g[n - 1] = f[n - 1]
      BY <2>4, <3>1
    <3>3. CASE n = m + 1
      <4>1. g[n] = v /\ n - 1 = m
        BY <2>2, <2>4, <3>3
      <4> QED BY <3>2, <3>3, <4>1
    <3>4. CASE n # m + 1
      <4>1. n \in 1..m /\ n \in 0..(m + 1)
        BY <2>2, <3>4
      <4>2. g[n] = f[n]
        BY <2>4, <3>4, <4>1
      <4>3. f[n] = Step[<<n, f[n - 1]>>]
        BY <3>5, <4>1
      <4> QED BY <3>2, <4>2, <4>3
    <3> QED BY <3>3, <3>4
  <2> QED BY <2>5, <2>6, <2>7
<1>3. T = Nat
  <2> HIDE DEF T
  <2>1. T \subseteq Nat
    BY DEF T
  <2> QED BY <1>1, <1>2, <2>1, EveryNatural
<1>4. PICK f : Steps(f, N)
  <2> HIDE DEF Steps
  <2>1. N \in T
    <3> HIDE DEF T
    <3> QED BY <1>3
  <2> QED BY <2>1
<1> QED BY <1>4 DEF Takes

\* The smaller of two numbers.
LEMMA MinOfTwo ==
  ASSUME NEW a \in Int, NEW b \in Int
  PROVE  Min({a, b}) \in {a, b} /\ Min({a, b}) <= a /\ Min({a, b}) <= b
<1>1. \E x \in {a, b} : \A y \in {a, b} : x =< y
  <2>1. CASE a <= b
    BY <2>1
  <2>2. CASE b < a
    BY <2>2
  <2> QED BY <2>1, <2>2
<1>2. \A y \in {a, b} : Min({a, b}) =< y
  BY <1>1 DEF Min
<1>3. Min({a, b}) \in {a, b}
  BY <1>1 DEF Min
<1> QED BY <1>2, <1>3

\* What a bounded queue takes of what is put after it.
LEMMA Fitting ==
  ASSUME NEW S, NEW all \in Seq(S), NEW fit, fit = Min({QueueCap, Len(all)})
  PROVE  /\ SubSeq(all, 1, fit) \in Seq(S) /\ Len(SubSeq(all, 1, fit)) = fit
         /\ fit \in 0..Len(all) /\ fit <= QueueCap /\ fit \in {QueueCap, Len(all)}
         /\ \A i \in 1..fit : SubSeq(all, 1, fit)[i] = all[i]
<1>1. PICK n \in Nat : n = Len(all)
  OBVIOUS
<1>2. QueueCap \in Int /\ n \in Int
  BY CaptureAssumption
<1>3. fit \in {QueueCap, n} /\ fit <= QueueCap /\ fit <= n
  BY <1>1, <1>2, MinOfTwo, Zenon
<1>4. fit \in 0..n
  BY <1>3, CaptureAssumption
<1>5. PICK k \in 0..n : k = fit
  BY <1>4
<1>6. \A i \in 1..k : all[i] \in S
  BY <1>1
<1>7. /\ SubSeq(all, 1, k) \in Seq(S)
      /\ Len(SubSeq(all, 1, k)) = IF 1 <= k THEN k - 1 + 1 ELSE 0
      /\ \A i \in 1..(k - 1 + 1) : SubSeq(all, 1, k)[i] = all[1 + i - 1]
  <2>1. 1 \in Int /\ k \in Int
    OBVIOUS
  <2> QED BY <1>6, <2>1, SubSeqProperties
<1>8. Len(SubSeq(all, 1, k)) = k /\ \A i \in 1..k : SubSeq(all, 1, k)[i] = all[i]
  BY <1>7
<1> QED BY <1>1, <1>3, <1>4, <1>5, <1>7, <1>8

\* A frame is added to the channel, or counted.
LEMMA PushedOne ==
  ASSUME NEW S, channel \in Seq(S), Len(channel) <= QueueCap, dropped \in Nat, lost \in Nat,
         NEW f \in S, TryPush(<<f>>)
  PROVE  /\ channel' \in Seq(S) /\ Len(channel') <= QueueCap
         /\ \/ channel' = Append(channel, f) /\ dropped' = dropped /\ lost' = lost
            \/ channel' = channel /\ dropped' = dropped + 1 /\ lost' = lost + 1
<1> DEFINE all == channel \o <<f>>
           fit == Min({QueueCap, Len(all)})
<1>1. /\ all \in Seq(S) /\ Len(all) = Len(channel) + 1 /\ Len(channel) \in Nat
      /\ all = Append(channel, f) /\ \A i \in 1..Len(channel) : all[i] = channel[i]
  BY ConcatProperties, AppendProperties
<1>2. Len(<<f>>) = 1
  OBVIOUS
<1>3. /\ channel' = SubSeq(all, 1, fit)
      /\ dropped' = dropped + Len(channel) + 1 - Len(channel')
      /\ lost' = lost + Len(channel) + 1 - Len(channel')
  BY <1>1, <1>2 DEF TryPush
<1>4. /\ channel' \in Seq(S) /\ Len(channel') = fit
      /\ fit \in 0..Len(all) /\ fit <= QueueCap /\ fit \in {QueueCap, Len(all)}
      /\ \A i \in 1..fit : channel'[i] = all[i]
  <2> HIDE DEF all, fit
  <2>1. PICK q \in Seq(S) : q = all
    BY <1>1
  <2>2. PICK k : k = fit
    OBVIOUS
  <2> QED BY <1>3, <2>1, <2>2, Fitting DEF fit
<1> HIDE DEF all, fit
<1>5. CASE fit = Len(all)
  <2>1. channel' = all
    BY <1>1, <1>4, <1>5, SeqEqual
  <2>2. Len(channel') = Len(channel) + 1
    BY <1>1, <1>4, <1>5
  <2>3. dropped' = dropped /\ lost' = lost
    <3>1. PICK n \in Nat : n = Len(channel)
      BY <1>1
    <3>2. dropped' = dropped + n + 1 - (n + 1) /\ lost' = lost + n + 1 - (n + 1)
      BY <1>3, <2>2, <3>1
    <3> QED BY <3>2
  <2> QED BY <1>1, <1>4, <2>1, <2>3
<1>6. CASE fit # Len(all)
  <2>1. fit = Len(channel)
    BY <1>1, <1>4, <1>6, CaptureAssumption
  <2>2. channel' = channel
    BY <1>1, <1>4, <2>1, SeqEqual
  <2>3. dropped' = dropped + 1 /\ lost' = lost + 1
    <3>1. PICK n \in Nat : n = Len(channel)
      BY <1>1
    <3>2. dropped' = dropped + n + 1 - n /\ lost' = lost + n + 1 - n
      BY <1>3, <2>2, <3>1
    <3> QED BY <3>2
  <2> QED BY <1>4, <2>2, <2>3
<1> QED BY <1>5, <1>6

\* And what holds of its first value and is kept by each step holds of all.
LEMMA Typed ==
  ASSUME NEW N \in Nat, NEW V, NEW e, e[0] \in V, DOMAIN e = 0..N, e = [n \in DOMAIN e |-> e[n]],
         \A n \in 1..N : e[n - 1] \in V => e[n] \in V
  PROVE  e \in [0..N -> V]
<1> DEFINE T == {n \in Nat : n <= N => e[n] \in V}
<1>1. 0 \in T
  OBVIOUS
<1>2. ASSUME NEW m \in T PROVE m + 1 \in T
  <2> SUFFICES ASSUME m + 1 <= N PROVE e[m + 1] \in V
    OBVIOUS
  <2>1. m + 1 \in 1..N /\ (m + 1) - 1 = m /\ e[m] \in V
    OBVIOUS
  <2> QED BY <2>1
<1>3. T = Nat
  <2> HIDE DEF T
  <2>1. T \subseteq Nat
    BY DEF T
  <2> QED BY <1>1, <1>2, <2>1, EveryNatural
<1>4. ASSUME NEW n \in 0..N PROVE e[n] \in V
  <2>1. n \in T
    <3> HIDE DEF T
    <3> QED BY <1>3
  <2> QED BY <2>1
<1> QED BY <1>4

-----------------------------------------------------------------------------
(* What the variables hold                                                 *)

Frames(ports) == [port : ports, n : Nat, part : Parts]
AllFrames == Frames({"in", "cin"} \X Nat)
DeviceFrames == Frames(InputIds)

Cable(c) == [in_port : BOOLEAN, out_open : BOOLEAN, queue : Seq(Frames({<<"cin", c>>})), dropped : Nat]

\* A cable whose input is closed has nothing queued, and CoreMIDI's virtual
\* ports queue and count nothing.
Sound(r) == (~ r.in_port => r.queue = <<>>) /\ (backend = "coremidi" => r.queue = <<>> /\ r.dropped = 0)

CableTypes ==
  /\ backend \in {"winmm", "wms", "coremidi", "null"}
  /\ next_index \in 1..(MaxCables + 1)
  /\ DOMAIN cables \subseteq 1..(next_index - 1)
  /\ cables = [c \in DOMAIN cables |-> cables[c]]
  /\ \A c \in DOMAIN cables : cables[c] \in Cable(c) /\ Sound(cables[c])

ChannelTypes ==
  /\ channel \in Seq(AllFrames) /\ (backend # "coremidi" => channel \in Seq(DeviceFrames))
  /\ Len(channel) <= QueueCap
  /\ dropped \in Nat /\ lost \in Nat /\ made \in Nat

DeviceTypes ==
  /\ inputs = [id \in DOMAIN inputs |-> inputs[id]] /\ DOMAIN inputs \subseteq InputIds
  /\ \A id \in DOMAIN inputs : inputs[id] \in BOOLEAN /\ (~ inputs[id] => busy = "close")
  /\ outputs \subseteq OutputIds
  /\ calls \in [InputIds -> Seq(DeviceFrames)] /\ sending \in [n : Nat, pos : 0..2]
  /\ conns = [d \in DOMAIN conns |-> conns[d]] /\ DOMAIN conns \subseteq WmsDevices
  /\ \A d \in DOMAIN conns : conns[d] \in [in_port : BOOLEAN, out_open : BOOLEAN]
  /\ sinks \in [WmsDevices -> Seq(DeviceFrames)]
  /\ sources \subseteq InputIds /\ passed \subseteq Nat
  /\ null_open \subseteq InputIds \cup OutputIds /\ pending \in Seq(DeviceFrames)

TypeInv == CableTypes /\ ChannelTypes /\ DeviceTypes

\* One cable is written over.
LEMMA CableWritten ==
  ASSUME CableTypes, backend' = backend, next_index' = next_index,
         NEW c \in DOMAIN cables, NEW r \in Cable(c), Sound(r), cables' = [cables EXCEPT ![c] = r]
  PROVE  CableTypes'
<1>1. DOMAIN cables' = DOMAIN cables /\ cables' = [k \in DOMAIN cables' |-> cables'[k]]
  BY DEF CableTypes
<1>2. \A k \in DOMAIN cables : cables'[k] = IF k = c THEN r ELSE cables[k]
  BY DEF CableTypes
<1>3. ASSUME NEW k \in DOMAIN cables PROVE cables'[k] \in Cable(k) /\ Sound(cables[k])'
  <2>1. CASE k = c
    BY <1>2, <2>1 DEF Sound
  <2>2. CASE k # c
    BY <1>2, <2>2 DEF CableTypes, Sound
  <2> QED BY <2>1, <2>2
<1> QED BY <1>1, <1>3 DEF CableTypes

\* A cable is added.
LEMMA CableAdded ==
  ASSUME CableTypes, backend' = backend, next_index <= MaxCables, next_index' = next_index + 1,
         NEW r \in Cable(next_index), Sound(r), cables' = Put(cables, next_index, r)
  PROVE  CableTypes'
<1>1. DOMAIN cables' = DOMAIN cables \cup {next_index} /\ cables' = [k \in DOMAIN cables' |-> cables'[k]]
  BY DEF Put
<1>2. \A k \in DOMAIN cables' : cables'[k] = IF k = next_index THEN r ELSE cables[k]
  BY DEF Put
<1>3. ASSUME NEW k \in DOMAIN cables' PROVE cables'[k] \in Cable(k) /\ Sound(cables[k])'
  <2>1. CASE k = next_index
    BY <1>2, <2>1 DEF Sound
  <2>2. CASE k # next_index
    BY <1>1, <1>2, <2>2 DEF CableTypes, Sound
  <2> QED BY <2>1, <2>2
<1>4. next_index' \in 1..(MaxCables + 1) /\ DOMAIN cables' \subseteq 1..(next_index' - 1)
  BY <1>1, CaptureAssumption DEF CableTypes
<1> QED BY <1>1, <1>3, <1>4 DEF CableTypes

\* A cable is removed.
LEMMA CableRemoved ==
  ASSUME CableTypes, backend' = backend, next_index' = next_index, NEW c, cables' = Without(cables, {c})
  PROVE  CableTypes'
<1>1. DOMAIN cables' = DOMAIN cables \ {c} /\ cables' = [k \in DOMAIN cables' |-> cables'[k]]
  BY DEF Without
<1>2. \A k \in DOMAIN cables' : cables'[k] = cables[k]
  BY DEF Without
<1> QED BY <1>1, <1>2 DEF CableTypes, Sound

\* Every cable is drained.
LEMMA CablesDrained ==
  ASSUME CableTypes, backend' = backend, next_index' = next_index, cables' = Drained
  PROVE  CableTypes'
<1>1. DOMAIN cables' = DOMAIN cables /\ cables' = [k \in DOMAIN cables' |-> cables'[k]]
  BY DEF Drained
<1>2. ASSUME NEW c \in DOMAIN cables PROVE cables'[c] \in Cable(c) /\ Sound(cables[c])'
  <2>1. cables'[c] = [cables[c] EXCEPT !.queue = <<>>]
    BY DEF Drained
  <2>2. <<>> \in Seq(Frames({<<"cin", c>>}))
    OBVIOUS
  <2> QED BY <2>1, <2>2 DEF CableTypes, Cable, Sound
<1> QED BY <1>1, <1>2 DEF CableTypes

\* A packet or a dump that is sent into a cable.
LEMMA CableSends ==
  ASSUME TypeInv, backend # "coremidi", NEW c, NEW parts \in {<<"short">>, <<"first", "last">>}, SendCable(c, parts)
  PROVE  /\ made' \in Nat
         /\ \/ cables' = cables /\ lost' = lost
            \/ \E r \in Cable(c), more \in Nat :
                 /\ cables' = [cables EXCEPT ![c] = r] /\ Sound(r) /\ Len(r.queue) <= QueueCap
                 /\ r.in_port = cables[c].in_port /\ r.out_open = cables[c].out_open
                 /\ r.dropped = cables[c].dropped + more /\ lost' = lost + more
<1>1. c \in DOMAIN cables /\ cables[c] \in Cable(c) /\ lost \in Nat /\ made \in Nat
  BY DEF SendCable, TypeInv, CableTypes, ChannelTypes
<1>2. parts \in Seq(Parts) /\ Len(parts) \in Nat
  <2>1. CASE parts = <<"short">>
    BY <2>1 DEF Parts
  <2>2. CASE parts = <<"first", "last">>
    BY <2>2 DEF Parts
  <2> QED BY <2>1, <2>2
<1>3. made' \in Nat
  BY <1>1, <1>2 DEF SendCable
<1>4. CASE ~ cables[c].in_port
  BY <1>3, <1>4 DEF SendCable
<1>5. CASE cables[c].in_port
  <2> DEFINE F == Frames({<<"cin", c>>})
             sent == [i \in DOMAIN parts |-> Frame(<<"cin", c>>, made + i, parts[i])]
             all == cables[c].queue \o sent
             fit == Min({QueueCap, Len(all)})
  <2>1. sent \in Seq(F)
    <3>1. sent = [i \in 1..Len(parts) |-> Frame(<<"cin", c>>, made + i, parts[i])]
      BY <1>2
    <3>2. \A i \in 1..Len(parts) : Frame(<<"cin", c>>, made + i, parts[i]) \in F
      <4>1. ASSUME NEW i \in 1..Len(parts) PROVE Frame(<<"cin", c>>, made + i, parts[i]) \in F
        <5>1. made + i \in Nat /\ parts[i] \in Parts
          BY <1>1, <1>2
        <5> QED BY <5>1 DEF Frame, Frames
      <4> QED BY <4>1
    <3> HIDE DEF sent, F
    <3> QED BY <1>2, <3>1, <3>2
  <2>2. cables[c].queue \in Seq(F)
    BY <1>1 DEF Cable
  <2> HIDE DEF F, sent
  <2>3. PICK a \in Seq(F) : a = all
    BY <2>1, <2>2, ConcatProperties
  <2>4. PICK k : k = Min({QueueCap, Len(a)})
    OBVIOUS
  <2>5. /\ SubSeq(a, 1, k) \in Seq(F) /\ Len(SubSeq(a, 1, k)) = k
        /\ k \in 0..Len(a) /\ k <= QueueCap
    BY <2>4, Fitting
  <2>6. PICK more \in Nat : more = Len(a) - k
    <3>1. Len(a) \in Nat
      OBVIOUS
    <3> QED BY <2>5, <3>1
  <2>7. /\ cables' = [cables EXCEPT ![c].queue = SubSeq(a, 1, k), ![c].dropped = @ + Len(a) - k]
        /\ lost' = lost + Len(a) - k
    BY <1>5, <2>3, <2>4 DEF SendCable, sent
  <2>8. cables[c].dropped + Len(a) - k = cables[c].dropped + more /\ lost' = lost + more
    <3>1. PICK n \in Nat : n = Len(a)
      OBVIOUS
    <3>2. k \in Nat /\ cables[c].dropped \in Nat
      BY <1>1, <2>5 DEF Cable
    <3> QED BY <1>1, <2>6, <2>7, <3>1, <3>2
  <2>9. PICK q \in Seq(F) : q = SubSeq(a, 1, k) /\ Len(q) <= QueueCap
    BY <2>5
  <2>10. PICK dr \in Nat : dr = cables[c].dropped + more
    BY <1>1 DEF Cable
  <2>11. PICK r : r = [cables[c] EXCEPT !.queue = q, !.dropped = dr]
    OBVIOUS
  <2>12. r \in Cable(c) /\ r.in_port = cables[c].in_port /\ r.out_open = cables[c].out_open /\ r.queue = q /\ r.dropped = dr
    BY <1>1, <2>11 DEF Cable, F
  <2>13. Sound(r)
    BY <1>5, <2>12 DEF Sound
  <2>14. cables' = [cables EXCEPT ![c] = r]
    BY <2>7, <2>8, <2>9, <2>10, <2>11
  <2> QED BY <1>3, <2>8, <2>9, <2>10, <2>12, <2>13, <2>14
<1> QED BY <1>4, <1>5

-----------------------------------------------------------------------------
(* Every step keeps the types                                              *)

\* The inductive types hold at the start.
LEMMA TypesBegin == Init => TypeInv
<1> SUFFICES ASSUME Init PROVE TypeInv
  OBVIOUS
<1>1. backend \in {"winmm", "wms", "coremidi", "null"}
  BY DEF Init, default_backend, Machines
<1>2. CableTypes
  <2>1. cables = <<>> /\ next_index = 1
    BY DEF Init, CaptureInit
  <2>2. DOMAIN <<>> = {} /\ <<>> = [c \in {} |-> <<>>[c]]
    OBVIOUS
  <2> QED BY <1>1, <2>1, <2>2, CaptureAssumption DEF CableTypes
<1>3. ChannelTypes
  BY CaptureAssumption DEF Init, CaptureInit, ChannelTypes
<1>4. DeviceTypes
  <2>1. DOMAIN inputs = {} /\ inputs = [id \in DOMAIN inputs |-> inputs[id]] /\ outputs = {}
    BY DEF Init, WinMmInit
  <2>2. DOMAIN conns = {} /\ conns = [d \in DOMAIN conns |-> conns[d]]
    BY DEF Init, WmsInit
  <2>3. calls \in [InputIds -> Seq(DeviceFrames)] /\ sinks \in [WmsDevices -> Seq(DeviceFrames)]
        /\ sending \in [n : Nat, pos : 0..2]
    BY DEF Init, WinMmInit, WmsInit
  <2>4. sources = {} /\ passed = {} /\ null_open = {} /\ pending = <<>>
    BY DEF Init, CoreMidiInit, NullInit
  <2> QED BY <2>1, <2>2, <2>3, <2>4 DEF DeviceTypes
<1> QED BY <1>2, <1>3, <1>4 DEF TypeInv

\* A frame of a device that is pushed.
LEMMA DevicePushed ==
  ASSUME ChannelTypes, backend' = backend, NEW f \in DeviceFrames, TryPush(<<f>>), made' \in Nat
  PROVE  /\ ChannelTypes'
         /\ \/ channel' = Append(channel, f) /\ dropped' = dropped /\ lost' = lost
            \/ channel' = channel /\ dropped' = dropped + 1 /\ lost' = lost + 1
<1>1. f \in AllFrames /\ DeviceFrames \subseteq AllFrames
  BY DEF DeviceFrames, AllFrames, Frames, InputIds
<1>2. /\ channel' \in Seq(AllFrames) /\ Len(channel') <= QueueCap
      /\ \/ channel' = Append(channel, f) /\ dropped' = dropped /\ lost' = lost
         \/ channel' = channel /\ dropped' = dropped + 1 /\ lost' = lost + 1
  BY <1>1, PushedOne DEF ChannelTypes
<1>3. backend' # "coremidi" => channel' \in Seq(DeviceFrames)
  BY PushedOne DEF ChannelTypes
<1> QED BY <1>2, <1>3 DEF ChannelTypes

\* What is handed over leaves the channel empty.
LEMMA ChannelPolled ==
  ASSUME ChannelTypes, backend' = backend, NEW events, NEW count, Polled(events, count), dropped' \in Nat
  PROVE  ChannelTypes'
BY CaptureAssumption DEF ChannelTypes, Polled

\* The driver calls with a short message or with a buffer of a dump.
DriverCalls(id) == ShortCallback(id) \/ \E size \in 1..(Len(Whole) - sending.pos) : LongCallback(id, size)

\* What the driver's thread was given are frames of its device.
LEMMA CalledTyped ==
  ASSUME ChannelTypes, DeviceTypes, NEW id \in InputIds, DriverCalls(id)
  PROVE  (\E q \in Seq(DeviceFrames) : Called(id, q)) /\ sending' \in [n : Nat, pos : 0..2]
<1>1. made \in Nat
  BY DEF ChannelTypes
<1>2. PICK n \in Nat, pos \in 0..2 : sending = [n |-> n, pos |-> pos] /\ sending.n = n /\ sending.pos = pos
  BY DEF DeviceTypes
<1>3. CASE ShortCallback(id)
  <2>1. Frame(id, made + 1, "short") \in DeviceFrames
    BY <1>1 DEF Frame, DeviceFrames, Frames, Parts
  <2>2. PICK f \in DeviceFrames : f = Frame(id, made + 1, "short")
    BY <2>1
  <2>3. <<f>> \in Seq(DeviceFrames) /\ Called(id, <<f>>)
    BY <1>3, <2>2 DEF ShortCallback
  <2> QED BY <1>2, <1>3, <2>3 DEF ShortCallback
<1>4. ASSUME NEW size \in 1..(Len(Whole) - sending.pos), LongCallback(id, size)
      PROVE  (\E q \in Seq(DeviceFrames) : Called(id, q)) /\ sending' \in [n : Nat, pos : 0..2]
  <2>1. Len(Whole) = 3 /\ Whole[1] \in Parts /\ Whole[2] \in Parts /\ Whole[3] \in Parts
    BY DEF Whole, Parts
  <2>2. size \in Nat /\ pos + size \in 1..3
    BY <1>2, <1>4, <2>1
  <2>3. PICK k \in Nat : k = IF pos = 0 THEN made + 1 ELSE n
    BY <1>1
  <2>4. PICK q : q = [i \in 1..size |-> Frame(id, k, Whole[pos + i])]
    OBVIOUS
  <2>5. ASSUME NEW i \in 1..size PROVE Frame(id, k, Whole[pos + i]) \in DeviceFrames
    <3>1. pos + i \in 1..3
      BY <2>2
    <3>2. Whole[pos + i] \in Parts
      BY <2>1, <3>1
    <3> QED BY <3>2 DEF Frame, DeviceFrames, Frames
  <2>6. q \in Seq(DeviceFrames)
    BY <2>2, <2>4, <2>5
  <2>7. Called(id, q) /\ sending' = Sent(k, pos + size)
    BY <1>2, <1>4, <2>3, <2>4 DEF LongCallback
  <2>8. Sent(k, pos + size) \in [n : Nat, pos : 0..2]
    BY <2>1, <2>2 DEF Sent
  <2> QED BY <2>6, <2>7, <2>8
<1> QED BY <1>3, <1>4 DEF DriverCalls

\* WinMM keeps the types.
LEMMA WinMmTypes ==
  ASSUME TypeInv, backend' = backend, WinMmStep, UNCHANGED <<wmsVars, coreVars, nullVars>>
  PROVE  TypeInv'
<1> USE DEF TypeInv, captureVars, frameVars, cableVars, winVars, dumpVars, sendVars, wmsVars, coreVars, nullVars
<1>1. ASSUME NEW id \in InputIds, OpenInput(id) PROVE TypeInv'
  <2>1. CableTypes' /\ ChannelTypes'
    BY <1>1 DEF OpenInput, CableTypes, Sound, ChannelTypes
  <2>2. inputs' = inputs \/ inputs' = Put(inputs, id, TRUE)
    BY <1>1 DEF OpenInput
  <2>3. /\ inputs' = [k \in DOMAIN inputs' |-> inputs'[k]] /\ DOMAIN inputs' \subseteq InputIds
        /\ \A k \in DOMAIN inputs' : inputs'[k] \in BOOLEAN /\ (~ inputs'[k] => busy = "close")
    BY <1>1, <2>2 DEF Put, DeviceTypes
  <2>4. DeviceTypes'
    BY <1>1, <2>3 DEF OpenInput, DeviceTypes
  <2> QED BY <2>1, <2>4
<1>2. ASSUME NEW id \in InputIds, BeginClose(id) PROVE TypeInv'
  <2>1. CableTypes' /\ ChannelTypes'
    BY <1>2 DEF BeginClose, CableTypes, Sound, ChannelTypes
  <2>2. inputs' = [inputs EXCEPT ![id] = FALSE] /\ busy' = "close" /\ id \in DOMAIN inputs
    BY <1>2 DEF BeginClose
  <2>3. /\ inputs' = [k \in DOMAIN inputs' |-> inputs'[k]] /\ DOMAIN inputs' \subseteq InputIds
        /\ \A k \in DOMAIN inputs' : inputs'[k] \in BOOLEAN /\ (~ inputs'[k] => busy' = "close")
    BY <2>2 DEF DeviceTypes
  <2>4. DeviceTypes'
    BY ZenonT(40), <1>2, <2>3 DEF BeginClose, DeviceTypes
  <2> QED BY <2>1, <2>4
<1>3. ASSUME NEW id \in InputIds, FinishClose(id) PROVE TypeInv'
  <2>1. CableTypes' /\ ChannelTypes'
    BY <1>3 DEF FinishClose, CableTypes, Sound, ChannelTypes
  <2>2. inputs' = Without(inputs, {id})
    BY <1>3 DEF FinishClose
  <2>3. inputs' = [k \in DOMAIN inputs' |-> inputs'[k]] /\ DOMAIN inputs' = {}
    BY <2>2 DEF Without, DeviceTypes, InputIds
  <2>4. DeviceTypes'
    BY <1>3, <2>3 DEF FinishClose, DeviceTypes
  <2> QED BY <2>1, <2>4
<1>4. ASSUME NEW id \in InputIds, DriverCalls(id) PROVE TypeInv'
  <2>1. PICK q \in Seq(DeviceFrames) : Called(id, q)
    BY <1>4, CalledTyped
  <2>2. CableTypes' /\ ChannelTypes'
    BY <2>1 DEF Called, CableTypes, Sound, ChannelTypes
  <2>3. calls' \in [InputIds -> Seq(DeviceFrames)]
    BY <2>1 DEF Called, DeviceTypes
  <2>4. sending' \in [n : Nat, pos : 0..2]
    BY <1>4, CalledTyped
  <2>5. DeviceTypes'
    BY <2>1, <2>3, <2>4 DEF Called, DeviceTypes
  <2> QED BY <2>2, <2>5
<1>13. ASSUME NEW id \in InputIds, Unheard(id) PROVE TypeInv'
  <2>1. CableTypes' /\ ChannelTypes'
    BY <1>13 DEF Unheard, CableTypes, Sound, ChannelTypes
  <2>2. PICK n \in Nat, pos \in 0..2 : sending = [n |-> n, pos |-> pos] /\ sending.n = n /\ sending.pos = pos
    BY DEF DeviceTypes
  <2>3. PICK k \in Nat : k = IF pos = 0 THEN 0 ELSE n
    OBVIOUS
  <2>4. Len(Whole) = 3
    BY DEF Whole
  <2>5. Sent(k, pos + 1) \in [n : Nat, pos : 0..2]
    BY <2>4 DEF Sent
  <2>6. sending' \in [n : Nat, pos : 0..2]
    BY <1>13, <2>2, <2>3, <2>5 DEF Unheard
  <2>7. DeviceTypes'
    BY <1>13, <2>6 DEF Unheard, DeviceTypes
  <2> QED BY <2>1, <2>7
<1>5. ASSUME NEW id \in InputIds, PushFrame(id) PROVE TypeInv'
  <2>1. PICK f \in DeviceFrames : f = Head(calls[id])
    BY <1>5, HeadTailProperties DEF PushFrame, DeviceTypes
  <2>2. ChannelTypes'
    BY <1>5, <2>1, DevicePushed DEF PushFrame, ChannelTypes
  <2>3. calls' \in [InputIds -> Seq(DeviceFrames)]
    <3>1. PICK t \in Seq(DeviceFrames) : t = Tail(calls[id])
      BY <1>5, HeadTailProperties DEF PushFrame, DeviceTypes
    <3> QED BY <1>5, <3>1 DEF PushFrame, DeviceTypes
  <2>4. CableTypes' /\ DeviceTypes'
    BY <1>5, <2>3 DEF PushFrame, DeviceTypes, CableTypes, Sound
  <2> QED BY <2>2, <2>4
<1>6. ASSUME NEW id \in OutputIds, OpenOutput(id) \/ CloseOutput(id) PROVE TypeInv'
  <2>1. outputs' \subseteq OutputIds
    BY <1>6 DEF OpenOutput, CloseOutput, DeviceTypes
  <2>2. CableTypes' /\ ChannelTypes'
    BY <1>6 DEF OpenOutput, CloseOutput, CableTypes, Sound, ChannelTypes
  <2>3. DeviceTypes'
    BY <1>6, <2>1 DEF OpenOutput, CloseOutput, DeviceTypes
  <2> QED BY <2>2, <2>3
<1>7. ASSUME PollWinMm PROVE TypeInv'
  <2>1. CableTypes'
    BY <1>7, CablesDrained DEF PollWinMm, Polled
  <2>2. ChannelTypes'
    BY <1>7, ChannelPolled DEF PollWinMm, ChannelTypes
  <2>3. DeviceTypes'
    BY <1>7 DEF PollWinMm, Polled, DeviceTypes
  <2> QED BY <2>1, <2>2, <2>3
<1>8. ASSUME DriverDone \/ LongDone \/ LongTimeout \/ GiveUp \/ \E id \in OutputIds : BeginLong(id) PROVE TypeInv'
  <2>1. /\ UNCHANGED <<cables, next_index, channel, dropped, lost, made, inputs, outputs, calls, sending>>
        /\ busy' = busy \/ busy \in {"no", "long", "reset"}
    BY <1>8 DEF DriverDone, LongDone, LongTimeout, GiveUp, BeginLong
  <2>2. CableTypes' /\ ChannelTypes'
    BY <2>1 DEF CableTypes, Sound, ChannelTypes
  <2>3. DeviceTypes'
    BY <2>1 DEF DeviceTypes
  <2> QED BY <2>2, <2>3
<1> QED BY <1>1, <1>2, <1>3, <1>4, <1>5, <1>6, <1>7, <1>8, <1>13 DEF WinMmStep, DriverCalls

\* The packets of a batch up to the first bad word.
LEMMA BatchSplit ==
  ASSUME NEW batch \in {<<"short", "short">>, <<"short", "bad", "short">>}
  PROVE  /\ Split(batch) \in Seq(Parts) /\ Len(Split(batch)) \in Nat
         /\ \A i \in 1..Len(Split(batch)) : batch[i] \in Parts
<1> DEFINE good == {i \in 0..Len(batch) : \A j \in 1..i : batch[j] # "bad"}
<1>1. PICK k \in good : \A i \in good : k >= i
  <2>1. CASE batch = <<"short", "short">>
    <3>1. 2 \in good /\ \A i \in good : 2 >= i
      BY <2>1
    <3> QED BY <3>1
  <2>2. CASE batch = <<"short", "bad", "short">>
    <3>1. 1 \in good /\ \A i \in good : 1 >= i
      <4>1. ASSUME NEW i \in good PROVE i <= 1
        <5>1. ~ (2 \in 1..i)
          BY <2>2
        <5>2. i \in 0..3
          BY <2>2
        <5> QED BY <5>1, <5>2
      <4>2. \A j \in 1..1 : batch[j] # "bad"
        BY <2>2
      <4>3. 1 \in 0..Len(batch)
        BY <2>2
      <4> QED BY <4>1, <4>2, <4>3
    <3> QED BY <3>1
  <2> QED BY <2>1, <2>2
<1>2. PICK m \in good : m = Max(good)
  <2>1. Max(good) \in good
    <3> HIDE DEF good
    <3> QED BY <1>1 DEF Max
  <2> QED BY <2>1
<1>3. m \in Nat /\ m <= Len(batch) /\ \A i \in 1..m : batch[i] \in Parts
  <2>1. \A i \in 1..m : batch[i] # "bad"
    BY <1>2
  <2>2. Len(batch) \in Nat /\ \A i \in 1..Len(batch) : batch[i] \in {"short", "bad"}
    OBVIOUS
  <2>3. m \in 0..Len(batch)
    BY <1>2
  <2> HIDE DEF good
  <2> QED BY <2>1, <2>2, <2>3 DEF Parts
<1>4. Split(batch) = SubSeq(batch, 1, m)
  BY <1>2 DEF Split
<1>5. 1 \in Int /\ m \in Int
  BY <1>3
<1>6. SubSeq(batch, 1, m) \in Seq(Parts) /\ Len(SubSeq(batch, 1, m)) = IF 1 <= m THEN m - 1 + 1 ELSE 0
  BY <1>3, <1>5, SubSeqProperties
<1>7. Len(SubSeq(batch, 1, m)) = m
  BY <1>3, <1>6
<1> HIDE DEF good
<1> QED BY <1>3, <1>4, <1>6, <1>7

\* Windows MIDI Services keeps the types.
LEMMA WmsTypes ==
  ASSUME TypeInv, backend' = backend, WmsStep, UNCHANGED <<winVars, sendVars, coreVars, nullVars>>
  PROVE  TypeInv'
<1> USE DEF TypeInv, captureVars, frameVars, cableVars, winVars, dumpVars, sendVars, wmsVars, coreVars, nullVars
<1> DEFINE Conn == [in_port : BOOLEAN, out_open : BOOLEAN]
           Conns(f) == f = [d \in DOMAIN f |-> f[d]] /\ DOMAIN f \subseteq WmsDevices /\ \A d \in DOMAIN f : f[d] \in Conn
<1>1. ASSUME NEW d \in WmsDevices PROVE Conns(WithConn(d)) /\ d \in DOMAIN WithConn(d)
  BY DEF WithConn, Put, NewConn, DeviceTypes
<1>2. ASSUME NEW d \in WmsDevices, OpenWmsInput(d) \/ OpenWmsOutput(d) PROVE TypeInv'
  <2>1. PICK w : w = WithConn(d)
    OBVIOUS
  <2>2. \/ conns' = conns
        \/ \E b \in BOOLEAN : conns' = [w EXCEPT ![d].in_port = b]
        \/ conns' = [w EXCEPT ![d].out_open = TRUE]
    BY <1>2, <2>1 DEF OpenWmsInput, OpenWmsOutput, Consents
  <2>3. Conns(w) /\ d \in DOMAIN w
    BY <1>1, <2>1
  <2>4. Conns(conns)
    BY DEF DeviceTypes
  <2>5. Conns(conns)'
    BY ZenonT(40), <2>2, <2>3, <2>4
  <2>6. CableTypes' /\ ChannelTypes'
    BY <1>2 DEF OpenWmsInput, OpenWmsOutput, CableTypes, Sound, ChannelTypes
  <2>7. UNCHANGED <<busy, sinks>>
    BY <1>2 DEF OpenWmsInput, OpenWmsOutput
  <2>8. DeviceTypes'
    BY <2>5, <2>7 DEF DeviceTypes
  <2> QED BY <2>6, <2>8
<1>3. ASSUME NEW d \in WmsDevices, CloseWmsInput(d) \/ CloseWmsOutput(d) PROVE TypeInv'
  <2>1. PICK c \in Conn : conns' = Closing(d, c) /\ d \in DOMAIN conns
    <3>1. d \in DOMAIN conns /\ conns[d] \in Conn
      BY <1>3 DEF CloseWmsInput, CloseWmsOutput, DeviceTypes
    <3>2. [conns[d] EXCEPT !.in_port = FALSE] \in Conn /\ [conns[d] EXCEPT !.out_open = FALSE] \in Conn
      BY <3>1
    <3> QED BY <1>3, <3>1, <3>2 DEF CloseWmsInput, CloseWmsOutput
  <2>2. Conns(conns)'
    BY <2>1 DEF Closing, Without, Put, DeviceTypes
  <2>3. CableTypes' /\ ChannelTypes'
    BY <1>3 DEF CloseWmsInput, CloseWmsOutput, CableTypes, Sound, ChannelTypes
  <2>4. UNCHANGED <<busy, sinks>>
    BY <1>3 DEF CloseWmsInput, CloseWmsOutput
  <2>5. DeviceTypes'
    BY <2>2, <2>4 DEF DeviceTypes
  <2> QED BY <2>3, <2>5
<1>4. ASSUME NEW d \in WmsDevices, NEW batch \in {<<"short", "short">>, <<"short", "bad", "short">>}, Received(d, batch)
      PROVE  TypeInv'
  <2>8. PICK n \in Nat : n = Len(Split(batch)) /\ DOMAIN Split(batch) = 1..n
    BY BatchSplit, LenProperties
  <2> DEFINE q == [i \in DOMAIN Split(batch) |-> Frame(<<"in", d>>, made + i, batch[i])]
  <2>1. \A i \in 1..n : batch[i] \in Parts
    BY <2>8, BatchSplit
  <2>2. CableTypes' /\ ChannelTypes'
    BY <1>4, <2>8 DEF Received, CableTypes, Sound, ChannelTypes
  <2>3. q \in Seq(DeviceFrames)
    <3> DEFINE F(i) == Frame(<<"in", d>>, made + i, batch[i])
    <3>1. \A i \in 1..n : F(i) \in DeviceFrames
      BY <2>1 DEF Frame, DeviceFrames, Frames, ChannelTypes, InputIds, WmsDevices
    <3>2. q = [i \in 1..n |-> F(i)]
      BY <2>8
    <3> HIDE DEF q, F
    <3> QED BY <3>1, <3>2
  <2>4. sinks' = [sinks EXCEPT ![d] = q]
    BY <1>4 DEF Received
  <2> HIDE DEF q
  <2>5. sinks' \in [WmsDevices -> Seq(DeviceFrames)]
    BY <2>3, <2>4 DEF DeviceTypes
  <2>6. UNCHANGED <<busy, conns>>
    BY <1>4 DEF Received
  <2>7. DeviceTypes'
    BY <2>5, <2>6 DEF DeviceTypes
  <2> QED BY <2>2, <2>7
<1>5. ASSUME NEW d \in WmsDevices, PushPacket(d) PROVE TypeInv'
  <2>1. PICK f \in DeviceFrames : f = Head(sinks[d])
    BY <1>5, HeadTailProperties DEF PushPacket, DeviceTypes
  <2>2. ChannelTypes'
    BY <1>5, <2>1, DevicePushed DEF PushPacket, ChannelTypes
  <2>3. sinks' \in [WmsDevices -> Seq(DeviceFrames)]
    <3>1. PICK t \in Seq(DeviceFrames) : t = Tail(sinks[d])
      BY <1>5, HeadTailProperties DEF PushPacket, DeviceTypes
    <3> QED BY <1>5, <3>1 DEF PushPacket, DeviceTypes
  <2>4. CableTypes' /\ DeviceTypes'
    BY <1>5, <2>3 DEF PushPacket, DeviceTypes, CableTypes, Sound
  <2> QED BY <2>2, <2>4
<1>6. ASSUME PollWms PROVE TypeInv'
  <2>1. CableTypes'
    BY <1>6, CablesDrained DEF PollWms, Polled
  <2>2. ChannelTypes'
    BY <1>6, ChannelPolled DEF PollWms, ChannelTypes
  <2>3. DeviceTypes'
    BY <1>6 DEF PollWms, Polled, DeviceTypes
  <2> QED BY <2>1, <2>2, <2>3
<1> QED BY <1>2, <1>3, <1>4, <1>5, <1>6 DEF WmsStep

\* The null backend keeps the types.
LEMMA NullTypes ==
  ASSUME TypeInv, backend' = backend, NullStep, UNCHANGED <<winVars, sendVars, wmsVars, coreVars>>
  PROVE  TypeInv'
<1> USE DEF TypeInv, captureVars, frameVars, cableVars, winVars, dumpVars, sendVars, wmsVars, coreVars, nullVars
<1>1. ASSUME NEW id \in {<<"in", 1>>, <<"out", 1>>}, OpenNull(id) \/ CloseNull(id) PROVE TypeInv'
  <2>1. CableTypes' /\ ChannelTypes'
    BY <1>1 DEF OpenNull, CloseNull, CableTypes, Sound, ChannelTypes
  <2>2. null_open' \subseteq InputIds \cup OutputIds
    BY <1>1 DEF OpenNull, CloseNull, DeviceTypes, InputIds, OutputIds
  <2>3. DeviceTypes'
    BY <1>1, <2>2 DEF OpenNull, CloseNull, DeviceTypes
  <2> QED BY <2>1, <2>3
<1>2. ASSUME Inject PROVE TypeInv'
  <2>1. made' \in Nat /\ CableTypes' /\ ChannelTypes'
    BY <1>2 DEF Inject, CableTypes, Sound, ChannelTypes
  <2>2. PICK f \in DeviceFrames : f = Frame(<<"in", 1>>, made', "short")
    BY <2>1 DEF Frame, DeviceFrames, Frames, InputIds, Parts
  <2>3. pending' \in Seq(DeviceFrames)
    BY <1>2, <2>2, AppendProperties DEF Inject, DeviceTypes
  <2>4. DeviceTypes'
    BY <1>2, <2>3 DEF Inject, DeviceTypes
  <2> QED BY <2>1, <2>4
<1>3. ASSUME PollNull PROVE TypeInv'
  <2>1. CableTypes'
    BY <1>3, CablesDrained DEF PollNull, Polled
  <2>2. ChannelTypes'
    BY <1>3, ChannelPolled DEF PollNull, ChannelTypes
  <2>3. DeviceTypes'
    BY <1>3 DEF PollNull, Polled, DeviceTypes
  <2> QED BY <2>1, <2>2, <2>3
<1> QED BY <1>1, <1>2, <1>3 DEF NullStep

\* CoreMIDI keeps the types.
LEMMA CoreMidiTypes ==
  ASSUME TypeInv, backend' = backend, backend = "coremidi", CoreMidiStep, UNCHANGED <<winVars, sendVars, wmsVars, nullVars>>
  PROVE  TypeInv'
<1> USE DEF TypeInv, captureVars, frameVars, cableVars, winVars, dumpVars, sendVars, wmsVars, coreVars, nullVars
<1>1. ASSUME CreateVirtual PROVE TypeInv'
  <2>1. PICK r : r = [EmptyCable EXCEPT !.out_open = TRUE]
    OBVIOUS
  <2>2. r \in Cable(next_index) /\ Sound(r)
    <3>1. r = [in_port |-> FALSE, out_open |-> TRUE, queue |-> <<>>, dropped |-> 0]
      BY <2>1 DEF EmptyCable
    <3>2. <<>> \in Seq(Frames({<<"cin", next_index>>}))
      OBVIOUS
    <3> QED BY <3>1, <3>2 DEF Cable, Sound
  <2>3. CableTypes'
    BY <1>1, <2>1, <2>2, CableAdded DEF CreateVirtual
  <2>4. ChannelTypes' /\ DeviceTypes'
    BY <1>1 DEF CreateVirtual, ChannelTypes, DeviceTypes
  <2> QED BY <2>3, <2>4
<1>2. ASSUME NEW c \in DOMAIN cables, RemoveVirtual(c) PROVE TypeInv'
  <2>1. CableTypes'
    BY <1>2, CableRemoved DEF RemoveVirtual
  <2>2. ChannelTypes' /\ DeviceTypes'
    BY <1>2 DEF RemoveVirtual, ChannelTypes, DeviceTypes
  <2> QED BY <2>1, <2>2
<1>3. ASSUME NEW c \in DOMAIN cables, OpenVirtual(c) \/ CloseVirtual(c) PROVE TypeInv'
  <2>1. PICK b \in BOOLEAN : cables' = [cables EXCEPT ![c].in_port = b]
    BY <1>3 DEF OpenVirtual, CloseVirtual
  <2>2. PICK r : r = [cables[c] EXCEPT !.in_port = b]
    OBVIOUS
  <2>3. r \in Cable(c) /\ Sound(r)
    BY <2>2 DEF CableTypes, Cable, Sound
  <2>4. cables' = [cables EXCEPT ![c] = r] /\ next_index' = next_index
    BY <1>3, <2>1, <2>2 DEF OpenVirtual, CloseVirtual
  <2>5. CableTypes'
    BY <2>3, <2>4, CableWritten
  <2>6. ChannelTypes' /\ DeviceTypes'
    BY <1>3 DEF OpenVirtual, CloseVirtual, ChannelTypes, DeviceTypes
  <2> QED BY <2>5, <2>6
<1>4. ASSUME NEW c \in DOMAIN cables, VirtualArmed(c) PROVE TypeInv'
  BY <1>4 DEF VirtualArmed, CableTypes, Sound, ChannelTypes, DeviceTypes
<1>5. ASSUME NEW c \in passed, VirtualPush(c) PROVE TypeInv'
  <2>1. made' \in Nat /\ c \in Nat
    BY <1>5 DEF VirtualPush, ChannelTypes, DeviceTypes
  <2>2. PICK f \in AllFrames : f = Frame(<<"cin", c>>, made', "short")
    BY <2>1 DEF Frame, AllFrames, Frames, Parts
  <2>3. ChannelTypes'
    BY <1>5, <2>1, <2>2, PushedOne DEF VirtualPush, ChannelTypes
  <2>4. CableTypes' /\ DeviceTypes'
    BY <1>5 DEF VirtualPush, DeviceTypes, CableTypes, Sound
  <2> QED BY <2>3, <2>4
<1>6. ASSUME NEW id \in {<<"in", 1>>}, OpenSource(id) \/ CloseSource(id) PROVE TypeInv'
  <2>1. sources' \subseteq InputIds
    BY <1>6 DEF OpenSource, CloseSource, DeviceTypes, InputIds
  <2>2. CableTypes' /\ ChannelTypes'
    BY <1>6 DEF OpenSource, CloseSource, CableTypes, Sound, ChannelTypes
  <2>3. DeviceTypes'
    BY <1>6, <2>1 DEF OpenSource, CloseSource, DeviceTypes
  <2> QED BY <2>2, <2>3
<1>7. ASSUME NEW id \in {<<"in", 1>>}, SourceCallback(id) PROVE TypeInv'
  <2>1. made' \in Nat
    BY <1>7 DEF SourceCallback, ChannelTypes
  <2>2. PICK f \in AllFrames : f = Frame(id, made', "short")
    <3>1. id \in {"in", "cin"} \X Nat
      OBVIOUS
    <3> QED BY <2>1, <3>1 DEF Frame, AllFrames, Frames, Parts
  <2>3. ChannelTypes'
    BY <1>7, <2>1, <2>2, PushedOne DEF SourceCallback, ChannelTypes
  <2>4. CableTypes' /\ DeviceTypes'
    BY <1>7 DEF SourceCallback, DeviceTypes, CableTypes, Sound
  <2> QED BY <2>3, <2>4
<1>8. ASSUME PollCoreMidi PROVE TypeInv'
  <2>1. ChannelTypes'
    BY <1>8, ChannelPolled DEF PollCoreMidi, ChannelTypes
  <2>2. CableTypes' /\ DeviceTypes'
    BY <1>8 DEF PollCoreMidi, Polled, CableTypes, Sound, DeviceTypes
  <2> QED BY <2>1, <2>2
<1> QED BY <1>1, <1>2, <1>3, <1>4, <1>5, <1>6, <1>7, <1>8 DEF CoreMidiStep

\* What each of the cable actions does to the cables.
Rewritten(c, r) ==
  cables' = [cables EXCEPT ![c] = r] /\ next_index' = next_index /\ r \in Cable(c) /\ Sound(r)

\* What opening and closing the ends of a cable writes.
LEMMA CableForms ==
  ASSUME CableTypes, backend # "coremidi", NEW c \in DOMAIN cables
  PROVE  /\ OpenCableInput(c) => Rewritten(c, [cables[c] EXCEPT !.in_port = TRUE])
         /\ CloseCableInput(c) => Rewritten(c, [cables[c] EXCEPT !.in_port = FALSE, !.queue = <<>>])
         /\ OpenCableOutput(c) => Rewritten(c, [cables[c] EXCEPT !.out_open = TRUE])
         /\ CloseCableOutput(c) => Rewritten(c, [cables[c] EXCEPT !.out_open = FALSE])
<1>1. cables[c] \in Cable(c) /\ Sound(cables[c]) /\ <<>> \in Seq(Frames({<<"cin", c>>}))
  BY DEF CableTypes
<1>2. OpenCableInput(c) => Rewritten(c, [cables[c] EXCEPT !.in_port = TRUE])
  BY <1>1 DEF OpenCableInput, Rewritten, Cable, Sound
<1>3. CloseCableInput(c) => Rewritten(c, [cables[c] EXCEPT !.in_port = FALSE, !.queue = <<>>])
  BY <1>1 DEF CloseCableInput, Rewritten, Cable, Sound
<1>4. OpenCableOutput(c) => Rewritten(c, [cables[c] EXCEPT !.out_open = TRUE])
  BY <1>1 DEF OpenCableOutput, Rewritten, Cable, Sound
<1>5. CloseCableOutput(c) => Rewritten(c, [cables[c] EXCEPT !.out_open = FALSE])
  BY <1>1 DEF CloseCableOutput, Rewritten, Cable, Sound
<1> QED BY <1>2, <1>3, <1>4, <1>5

\* The cables keep the types.
LEMMA CableStepTypes ==
  ASSUME TypeInv, backend' = backend, backend # "coremidi", CableStep,
         UNCHANGED <<winVars, sendVars, wmsVars, coreVars, nullVars>>
  PROVE  TypeInv'
<1> USE DEF TypeInv, captureVars, frameVars, cableVars, winVars, dumpVars, sendVars, wmsVars, coreVars, nullVars
<1>1. ASSUME CreateCable PROVE TypeInv'
  <2>1. EmptyCable \in Cable(next_index) /\ Sound(EmptyCable)
    BY DEF EmptyCable, Cable, Sound
  <2>2. CableTypes'
    BY <1>1, <2>1, CableAdded DEF CreateCable
  <2>3. ChannelTypes' /\ DeviceTypes'
    BY <1>1 DEF CreateCable, ChannelTypes, DeviceTypes
  <2> QED BY <2>2, <2>3
<1>2. ASSUME NEW c \in DOMAIN cables, RemoveCable(c) PROVE TypeInv'
  <2>1. CableTypes'
    BY <1>2, CableRemoved DEF RemoveCable
  <2>2. ChannelTypes' /\ DeviceTypes'
    BY <1>2 DEF RemoveCable, ChannelTypes, DeviceTypes
  <2> QED BY <2>1, <2>2
<1>3. ASSUME NEW c \in DOMAIN cables,
             OpenCableInput(c) \/ CloseCableInput(c) \/ OpenCableOutput(c) \/ CloseCableOutput(c)
      PROVE  TypeInv'
  <2>1. PICK r : Rewritten(c, r)
    BY <1>3, CableForms
  <2>2. CableTypes'
    BY <2>1, CableWritten DEF Rewritten
  <2>3. ChannelTypes' /\ DeviceTypes'
    BY <1>3 DEF OpenCableInput, CloseCableInput, OpenCableOutput, CloseCableOutput, ChannelTypes, DeviceTypes
  <2> QED BY <2>2, <2>3
<1>4. ASSUME NEW c \in DOMAIN cables, NEW parts \in {<<"short">>, <<"first", "last">>}, SendCable(c, parts)
      PROVE  TypeInv'
  <2>1. /\ made' \in Nat
        /\ \/ cables' = cables /\ lost' = lost
           \/ \E r \in Cable(c), more \in Nat : cables' = [cables EXCEPT ![c] = r] /\ Sound(r) /\ lost' = lost + more
    BY <1>4, CableSends
  <2>2. UNCHANGED <<channel, dropped, next_index, busy>>
    BY <1>4 DEF SendCable
  <2>3. lost' \in Nat
    BY <2>1 DEF ChannelTypes
  <2>4. CableTypes'
    <3>1. CASE cables' = cables
      BY <2>2, <3>1 DEF CableTypes, Sound
    <3>2. ASSUME NEW r \in Cable(c), cables' = [cables EXCEPT ![c] = r], Sound(r) PROVE CableTypes'
      BY <2>2, <3>2, CableWritten
    <3> QED BY <2>1, <3>1, <3>2
  <2>5. ChannelTypes' /\ DeviceTypes'
    BY <2>1, <2>2, <2>3 DEF ChannelTypes, DeviceTypes
  <2> QED BY <2>4, <2>5
<1> QED BY <1>1, <1>2, <1>3, <1>4 DEF CableStep

\* Every step keeps the types.
LEMMA TypesKept == TypeInv /\ [Next]_vars => TypeInv'
<1> SUFFICES ASSUME TypeInv, [Next]_vars PROVE TypeInv'
  OBVIOUS
<1>1. CASE UNCHANGED vars
  BY <1>1 DEF vars, captureVars, frameVars, cableVars, winVars, dumpVars, sendVars, wmsVars, coreVars, nullVars,
              TypeInv, CableTypes, Sound, ChannelTypes, DeviceTypes
<1>2. CASE Next
  BY <1>2, WinMmTypes, WmsTypes, NullTypes, CoreMidiTypes, CableStepTypes DEF Next, WinMmOnly
<1> QED BY <1>1, <1>2

-----------------------------------------------------------------------------
(* What was opened and not closed is served.  It is kept by the two kinds  *)
(* of endpoints; a WinMM input that is closing is in the map of the open   *)
(* ones and still counts.                                                  *)

In == <<"in", 1>>
Out == <<"out", 1>>
InOpen ==
  \/ backend = "winmm" /\ In \in DOMAIN inputs
  \/ backend = "wms" /\ 1 \in DOMAIN conns /\ conns[1].in_port
  \/ backend = "coremidi" /\ In \in sources
  \/ backend = "null" /\ In \in null_open
OutOpen ==
  \/ backend = "winmm" /\ Out \in outputs
  \/ backend = "wms" /\ 1 \in DOMAIN conns /\ conns[1].out_open
  \/ backend = "null" /\ Out \in null_open
CinOpen(c) == c \in DOMAIN cables /\ cables[c].in_port
CoutOpen(c) == backend # "coremidi" /\ c \in DOMAIN cables /\ cables[c].out_open

DevicesGranted == (In \in granted <=> InOpen) /\ (Out \in granted <=> OutOpen)
CablesGranted ==
  \A c \in 1..MaxCables : (<<"cin", c>> \in granted <=> CinOpen(c)) /\ (<<"cout", c>> \in granted <=> CoutOpen(c))
GrantedInv == granted \subseteq AllIds /\ DevicesGranted /\ CablesGranted

\* An end of a device is opened or closed.
LEMMA DeviceEnds ==
  ASSUME GrantedInv, UNCHANGED <<backend, cables>>, NEW id \in {In, Out},
         granted' \in {granted, granted \cup {id}, granted \ {id}},
         In \in granted' <=> InOpen', Out \in granted' <=> OutOpen'
  PROVE  GrantedInv'
<1>1. granted' \subseteq AllIds
  BY DEF GrantedInv, AllIds, Devices, In, Out
<1>2. \A c : (<<"cin", c>> \in granted' <=> <<"cin", c>> \in granted) /\ (<<"cout", c>> \in granted' <=> <<"cout", c>> \in granted)
  BY DEF In, Out
<1>3. CablesGranted'
  BY <1>2 DEF GrantedInv, CablesGranted, CinOpen, CoutOpen
<1> QED BY <1>1, <1>3 DEF GrantedInv, DevicesGranted

\* Nothing is opened and nothing closed.
LEMMA EndsStay ==
  ASSUME GrantedInv, UNCHANGED <<backend, granted>>, InOpen' = InOpen, OutOpen' = OutOpen,
         \A c \in 1..MaxCables : CinOpen(c)' = CinOpen(c) /\ CoutOpen(c)' = CoutOpen(c)
  PROVE  GrantedInv'
BY DEF GrantedInv, DevicesGranted, CablesGranted, AllIds, Devices

\* The ends of one cable, or virtual port, change.
LEMMA CableEnds ==
  ASSUME GrantedInv, backend' = backend, InOpen' = InOpen, OutOpen' = OutOpen, NEW c \in 1..MaxCables,
         \A k \in 1..MaxCables \ {c} : CinOpen(k)' = CinOpen(k) /\ CoutOpen(k)' = CoutOpen(k),
         \A id : id \notin {<<"cin", c>>, <<"cout", c>>} => (id \in granted' <=> id \in granted),
         <<"cin", c>> \in granted' <=> CinOpen(c)', <<"cout", c>> \in granted' <=> CoutOpen(c)'
  PROVE  GrantedInv'
<1>1. granted' \subseteq AllIds
  BY DEF GrantedInv, AllIds, Devices
<1>2. DevicesGranted'
  <2>1. (In \in granted' <=> In \in granted) /\ (Out \in granted' <=> Out \in granted)
    BY DEF In, Out
  <2> QED BY <2>1 DEF GrantedInv, DevicesGranted
<1>3. CablesGranted'
  <2>1. ASSUME NEW k \in 1..MaxCables, k # c
        PROVE  (<<"cin", k>> \in granted' <=> CinOpen(k)') /\ (<<"cout", k>> \in granted' <=> CoutOpen(k)')
    <3>1. <<"cin", k>> \notin {<<"cin", c>>, <<"cout", c>>} /\ <<"cout", k>> \notin {<<"cin", c>>, <<"cout", c>>}
      BY <2>1
    <3> QED BY <2>1, <3>1 DEF GrantedInv, CablesGranted
  <2> QED BY <2>1 DEF CablesGranted
<1> QED BY <1>1, <1>2, <1>3 DEF GrantedInv

\* The cables keep what is granted.
LEMMA CableStepGrants ==
  ASSUME TypeInv, GrantedInv, backend' = backend, backend # "coremidi", CableStep,
         UNCHANGED <<winVars, sendVars, wmsVars, coreVars, nullVars>>
  PROVE  GrantedInv'
<1> USE DEF frameVars, cableVars, winVars, dumpVars, wmsVars, coreVars, nullVars
<1>1. InOpen' = InOpen /\ OutOpen' = OutOpen
  BY DEF InOpen, OutOpen
<1>2. CableTypes /\ DOMAIN cables \subseteq 1..MaxCables
  BY CaptureAssumption DEF TypeInv, CableTypes
<1>3. ASSUME CreateCable PROVE GrantedInv'
  <2>1. granted' = granted /\ cables' = Put(cables, next_index, EmptyCable) /\ next_index \notin DOMAIN cables
    BY <1>2, <1>3 DEF CreateCable, CableTypes
  <2>2. \A c \in 1..MaxCables : CinOpen(c)' = CinOpen(c) /\ CoutOpen(c)' = CoutOpen(c)
    BY <2>1 DEF CinOpen, CoutOpen, Put, EmptyCable
  <2> QED BY <1>1, <2>1, <2>2, EndsStay
<1>4. ASSUME NEW c \in DOMAIN cables, RemoveCable(c) PROVE GrantedInv'
  <2>1. granted' = granted \ {<<"cin", c>>, <<"cout", c>>} /\ cables' = Without(cables, {c}) /\ c \in 1..MaxCables
    BY <1>2, <1>4 DEF RemoveCable
  <2>2. \A k \in 1..MaxCables \ {c} : CinOpen(k)' = CinOpen(k) /\ CoutOpen(k)' = CoutOpen(k)
    BY <2>1 DEF CinOpen, CoutOpen, Without
  <2>3. ~ CinOpen(c)' /\ ~ CoutOpen(c)'
    BY <2>1 DEF CinOpen, CoutOpen, Without
  <2> QED BY <1>1, <2>1, <2>2, <2>3, CableEnds
<1>5. ASSUME NEW c \in DOMAIN cables,
             OpenCableInput(c) \/ CloseCableInput(c) \/ OpenCableOutput(c) \/ CloseCableOutput(c)
      PROVE  GrantedInv'
  <2>1. PICK r \in Cable(c) :
          /\ cables' = [cables EXCEPT ![c] = r]
          /\ \/ granted' = granted \cup {<<"cin", c>>} /\ r.in_port /\ r.out_open = cables[c].out_open
             \/ granted' = granted \ {<<"cin", c>>} /\ ~ r.in_port /\ r.out_open = cables[c].out_open
             \/ granted' = granted \cup {<<"cout", c>>} /\ r.out_open /\ r.in_port = cables[c].in_port
             \/ granted' = granted \ {<<"cout", c>>} /\ ~ r.out_open /\ r.in_port = cables[c].in_port
    <3>1. cables[c] \in Cable(c)
      BY <1>2 DEF CableTypes
    <3>2. CASE OpenCableInput(c)
      <4>1. Rewritten(c, [cables[c] EXCEPT !.in_port = TRUE]) /\ granted' = granted \cup {<<"cin", c>>}
        BY <1>2, <3>2, CableForms DEF OpenCableInput
      <4> QED BY <3>1, <4>1 DEF Rewritten, Cable
    <3>3. CASE CloseCableInput(c)
      <4>1. Rewritten(c, [cables[c] EXCEPT !.in_port = FALSE, !.queue = <<>>]) /\ granted' = granted \ {<<"cin", c>>}
        BY <1>2, <3>3, CableForms DEF CloseCableInput
      <4> QED BY <3>1, <4>1 DEF Rewritten, Cable
    <3>4. CASE OpenCableOutput(c)
      <4>1. Rewritten(c, [cables[c] EXCEPT !.out_open = TRUE]) /\ granted' = granted \cup {<<"cout", c>>}
        BY <1>2, <3>4, CableForms DEF OpenCableOutput
      <4> QED BY <3>1, <4>1 DEF Rewritten, Cable
    <3>5. CASE CloseCableOutput(c)
      <4>1. Rewritten(c, [cables[c] EXCEPT !.out_open = FALSE]) /\ granted' = granted \ {<<"cout", c>>}
        BY <1>2, <3>5, CableForms DEF CloseCableOutput
      <4> QED BY <3>1, <4>1 DEF Rewritten, Cable
    <3> QED BY <1>5, <3>2, <3>3, <3>4, <3>5
  <2>2. c \in 1..MaxCables /\ DOMAIN cables' = DOMAIN cables /\ cables'[c] = r
    BY <1>2, <2>1
  <2>3. \A k \in 1..MaxCables \ {c} : CinOpen(k)' = CinOpen(k) /\ CoutOpen(k)' = CoutOpen(k)
    BY <2>1 DEF CinOpen, CoutOpen
  <2>4. CinOpen(c)' = r.in_port /\ CoutOpen(c)' = r.out_open /\ CinOpen(c) = cables[c].in_port /\ CoutOpen(c) = cables[c].out_open
    <3>1. cables[c] \in Cable(c)
      BY <1>2 DEF CableTypes
    <3> QED BY <2>1, <2>2, <3>1 DEF CinOpen, CoutOpen, Cable
  <2>5. (<<"cin", c>> \in granted <=> CinOpen(c)) /\ (<<"cout", c>> \in granted <=> CoutOpen(c))
    BY <2>2 DEF GrantedInv, CablesGranted
  <2>6. /\ \A id : id \notin {<<"cin", c>>, <<"cout", c>>} => (id \in granted' <=> id \in granted)
        /\ <<"cin", c>> \in granted' <=> CinOpen(c)'
        /\ <<"cout", c>> \in granted' <=> CoutOpen(c)'
    BY <2>1, <2>4, <2>5
  <2> QED BY <1>1, <2>2, <2>3, <2>6, CableEnds
<1>6. ASSUME NEW c \in DOMAIN cables, NEW parts \in {<<"short">>, <<"first", "last">>}, SendCable(c, parts)
      PROVE  GrantedInv'
  <2>1. granted' = granted /\
          (cables' = cables \/ \E r : /\ cables' = [cables EXCEPT ![c] = r]
                                      /\ r.in_port = cables[c].in_port /\ r.out_open = cables[c].out_open)
    BY <1>6, CableSends DEF SendCable
  <2>2. \A k \in 1..MaxCables : CinOpen(k)' = CinOpen(k) /\ CoutOpen(k)' = CoutOpen(k)
    BY <2>1 DEF CinOpen, CoutOpen
  <2> QED BY <1>1, <2>1, <2>2, EndsStay
<1> QED BY <1>3, <1>4, <1>5, <1>6 DEF CableStep

\* Draining the cables leaves their ends alone.
LEMMA DrainedStays ==
  ASSUME CableTypes, backend' = backend, cables' = Drained
  PROVE  \A c \in 1..MaxCables : CinOpen(c)' = CinOpen(c) /\ CoutOpen(c)' = CoutOpen(c)
<1>1. DOMAIN cables' = DOMAIN cables
  BY DEF Drained
<1>2. ASSUME NEW c \in DOMAIN cables
      PROVE  cables'[c].in_port = cables[c].in_port /\ cables'[c].out_open = cables[c].out_open
  <2>1. cables'[c] = [cables[c] EXCEPT !.queue = <<>>] /\ cables[c] \in Cable(c)
    BY DEF Drained, CableTypes
  <2> QED BY <2>1 DEF Cable
<1> QED BY <1>1, <1>2 DEF CinOpen, CoutOpen

\* WinMM keeps what is granted.
LEMMA WinMmGrants ==
  ASSUME TypeInv, GrantedInv, backend' = backend, backend = "winmm", WinMmStep, UNCHANGED <<wmsVars, coreVars, nullVars>>
  PROVE  GrantedInv'
<1> USE DEF frameVars, cableVars, captureVars, winVars, dumpVars, sendVars, wmsVars, coreVars, nullVars
<1>1. (In \in granted <=> In \in DOMAIN inputs) /\ (Out \in granted <=> Out \in outputs) /\ In # Out
  BY DEF GrantedInv, DevicesGranted, InOpen, OutOpen, In, Out
<1>2. (InOpen' <=> In \in DOMAIN inputs') /\ (OutOpen' <=> Out \in outputs')
  BY DEF InOpen, OutOpen
<1>3. ASSUME NEW id \in InputIds, OpenInput(id) \/ FinishClose(id) PROVE GrantedInv'
  <2>1. /\ id = In /\ cables' = cables /\ outputs' = outputs
        /\ \/ granted' = granted /\ inputs' = inputs
           \/ granted' = granted \cup {In} /\ inputs' = Put(inputs, In, TRUE)
           \/ granted' = granted \ {In} /\ inputs' = Without(inputs, {In})
    BY <1>3 DEF OpenInput, FinishClose, InputIds, In
  <2>2. (In \in granted' <=> In \in DOMAIN inputs') /\ (Out \in granted' <=> Out \in outputs')
    BY <1>1, <2>1 DEF Put, Without
  <2> QED BY <1>2, <2>1, <2>2, DeviceEnds
<1>4. ASSUME NEW id \in OutputIds, OpenOutput(id) \/ CloseOutput(id) PROVE GrantedInv'
  <2>1. /\ id = Out /\ cables' = cables /\ inputs' = inputs
        /\ \/ granted' = granted /\ outputs' = outputs
           \/ granted' = granted \cup {Out} /\ outputs' = outputs \cup {Out}
           \/ granted' = granted \ {Out} /\ outputs' = outputs \ {Out}
    BY <1>4 DEF OpenOutput, CloseOutput, OutputIds, Out
  <2>2. (In \in granted' <=> In \in DOMAIN inputs') /\ (Out \in granted' <=> Out \in outputs')
    BY <1>1, <2>1
  <2> QED BY <1>2, <2>1, <2>2, DeviceEnds
<1>5. ASSUME granted' = granted, DOMAIN inputs' = DOMAIN inputs, outputs' = outputs, cables' = cables \/ cables' = Drained
      PROVE  GrantedInv'
  <2>1. InOpen' = InOpen /\ OutOpen' = OutOpen
    BY <1>5 DEF InOpen, OutOpen
  <2>2. \A c \in 1..MaxCables : CinOpen(c)' = CinOpen(c) /\ CoutOpen(c)' = CoutOpen(c)
    <3>1. CASE cables' = cables
      BY <3>1 DEF CinOpen, CoutOpen
    <3> QED BY <1>5, <3>1, DrainedStays DEF TypeInv
  <2> QED BY <1>5, <2>1, <2>2, EndsStay
<1>6. ASSUME NEW id \in InputIds, BeginClose(id) PROVE GrantedInv'
  BY <1>5, <1>6 DEF BeginClose
<1>7. ASSUME NEW id \in InputIds, DriverCalls(id) \/ Unheard(id) \/ PushFrame(id) PROVE GrantedInv'
  BY <1>5, <1>7 DEF DriverCalls, ShortCallback, LongCallback, Called, Unheard, PushFrame
<1>8. ASSUME PollWinMm \/ DriverDone \/ LongDone \/ LongTimeout \/ GiveUp \/ \E id \in OutputIds : BeginLong(id) PROVE GrantedInv'
  BY <1>5, <1>8 DEF PollWinMm, Polled, DriverDone, LongDone, LongTimeout, GiveUp, BeginLong
<1> QED BY <1>3, <1>4, <1>6, <1>7, <1>8 DEF WinMmStep, DriverCalls

\* Windows MIDI Services keeps what is granted.
LEMMA WmsGrants ==
  ASSUME TypeInv, GrantedInv, backend' = backend, backend = "wms", WmsStep, UNCHANGED <<winVars, sendVars, coreVars, nullVars>>
  PROVE  GrantedInv'
<1> USE DEF frameVars, cableVars, captureVars, winVars, dumpVars, sendVars, wmsVars, coreVars, nullVars
<1> DEFINE Has(f, e) == 1 \in DOMAIN f /\ f[1][e]
<1>1. (In \in granted <=> Has(conns, "in_port")) /\ (Out \in granted <=> Has(conns, "out_open")) /\ In # Out
  BY DEF GrantedInv, DevicesGranted, InOpen, OutOpen, In, Out
<1>2. (InOpen' <=> Has(conns', "in_port")) /\ (OutOpen' <=> Has(conns', "out_open"))
  BY DEF InOpen, OutOpen
<1>3. \A d \in DOMAIN conns : conns[d] \in [in_port : BOOLEAN, out_open : BOOLEAN]
  BY DEF TypeInv, DeviceTypes
<1>4. PICK w : w = WithConn(1)
  OBVIOUS
<1>5. /\ 1 \in DOMAIN w /\ w[1] \in [in_port : BOOLEAN, out_open : BOOLEAN]
      /\ w[1].in_port <=> Has(conns, "in_port")
      /\ w[1].out_open <=> Has(conns, "out_open")
  BY <1>3, <1>4 DEF WithConn, Put, NewConn
<1>6. ASSUME NEW d \in WmsDevices, OpenWmsInput(d) PROVE GrantedInv'
  <2>1. d = 1 /\ cables' = cables
    BY <1>6 DEF OpenWmsInput, WmsDevices
  <2>2. \/ granted' = granted /\ conns' = conns
        \/ granted' = granted \cup {In} /\ conns' = [w EXCEPT ![1].in_port = TRUE]
        \/ granted' = granted /\ conns' = [w EXCEPT ![1].in_port = FALSE] /\ ~ w[1].in_port
    BY <1>4, <1>6, <2>1 DEF OpenWmsInput, Consents, In
  <2>3. (In \in granted' <=> Has(conns', "in_port")) /\ (Out \in granted' <=> Has(conns', "out_open"))
    BY <1>1, <1>5, <2>2
  <2> QED BY <1>2, <2>1, <2>2, <2>3, DeviceEnds
<1>7. ASSUME NEW d \in WmsDevices, OpenWmsOutput(d) PROVE GrantedInv'
  <2>1. d = 1 /\ cables' = cables
    BY <1>7 DEF OpenWmsOutput, WmsDevices
  <2>2. \/ granted' = granted /\ conns' = conns
        \/ granted' = granted \cup {Out} /\ conns' = [w EXCEPT ![1].out_open = TRUE]
    BY <1>4, <1>7, <2>1 DEF OpenWmsOutput, Consents, Out
  <2>3. (In \in granted' <=> Has(conns', "in_port")) /\ (Out \in granted' <=> Has(conns', "out_open"))
    BY <1>1, <1>5, <2>2
  <2> QED BY <1>2, <2>1, <2>2, <2>3, DeviceEnds
<1>8. ASSUME NEW d \in WmsDevices, CloseWmsInput(d) \/ CloseWmsOutput(d) PROVE GrantedInv'
  <2>1. d = 1 /\ cables' = cables /\ 1 \in DOMAIN conns
    BY <1>8 DEF CloseWmsInput, CloseWmsOutput, WmsDevices
  <2>2. \/ granted' = granted \ {In} /\ conns' = Closing(1, [conns[1] EXCEPT !.in_port = FALSE])
        \/ granted' = granted \ {Out} /\ conns' = Closing(1, [conns[1] EXCEPT !.out_open = FALSE])
    BY <1>8, <2>1 DEF CloseWmsInput, CloseWmsOutput, In, Out
  <2>3. ASSUME NEW c \in [in_port : BOOLEAN, out_open : BOOLEAN], conns' = Closing(1, c)
        PROVE  (Has(conns', "in_port") <=> c.in_port) /\ (Has(conns', "out_open") <=> c.out_open)
    BY <2>3 DEF Closing, Idle, Without, Put
  <2>4. CASE granted' = granted \ {In} /\ conns' = Closing(1, [conns[1] EXCEPT !.in_port = FALSE])
    <3>1. PICK o \in [in_port : BOOLEAN, out_open : BOOLEAN] : o = conns[1]
      BY <1>3, <2>1
    <3> DEFINE c == [o EXCEPT !.in_port = FALSE]
    <3>2. /\ c \in [in_port : BOOLEAN, out_open : BOOLEAN] /\ ~ c.in_port /\ c.out_open = o.out_open
          /\ c = [conns[1] EXCEPT !.in_port = FALSE]
      BY <3>1
    <3> HIDE DEF c
    <3>3. (Has(conns', "in_port") <=> c.in_port) /\ (Has(conns', "out_open") <=> c.out_open)
      BY <2>3, <2>4, <3>2
    <3>4. ~ Has(conns', "in_port") /\ (Has(conns', "out_open") <=> Has(conns, "out_open"))
      BY <2>1, <3>1, <3>2, <3>3
    <3>5. (In \in granted' <=> Has(conns', "in_port")) /\ (Out \in granted' <=> Has(conns', "out_open"))
      <4> HIDE DEF Has
      <4> QED BY <1>1, <2>4, <3>4
    <3> QED BY <1>2, <2>1, <2>4, <3>5, DeviceEnds
  <2>5. CASE granted' = granted \ {Out} /\ conns' = Closing(1, [conns[1] EXCEPT !.out_open = FALSE])
    <3>1. PICK o \in [in_port : BOOLEAN, out_open : BOOLEAN] : o = conns[1]
      BY <1>3, <2>1
    <3> DEFINE c == [o EXCEPT !.out_open = FALSE]
    <3>2. /\ c \in [in_port : BOOLEAN, out_open : BOOLEAN] /\ ~ c.out_open /\ c.in_port = o.in_port
          /\ c = [conns[1] EXCEPT !.out_open = FALSE]
      BY <3>1
    <3> HIDE DEF c
    <3>3. (Has(conns', "in_port") <=> c.in_port) /\ (Has(conns', "out_open") <=> c.out_open)
      BY <2>3, <2>5, <3>2
    <3>4. ~ Has(conns', "out_open") /\ (Has(conns', "in_port") <=> Has(conns, "in_port"))
      BY <2>1, <3>1, <3>2, <3>3
    <3>5. (In \in granted' <=> Has(conns', "in_port")) /\ (Out \in granted' <=> Has(conns', "out_open"))
      <4> HIDE DEF Has
      <4> QED BY <1>1, <2>5, <3>4
    <3> QED BY <1>2, <2>1, <2>5, <3>5, DeviceEnds
  <2> QED BY <2>2, <2>4, <2>5
<1>9. ASSUME granted' = granted, conns' = conns, cables' = cables \/ cables' = Drained
      PROVE  GrantedInv'
  <2>1. InOpen' = InOpen /\ OutOpen' = OutOpen
    BY <1>9 DEF InOpen, OutOpen
  <2>2. \A c \in 1..MaxCables : CinOpen(c)' = CinOpen(c) /\ CoutOpen(c)' = CoutOpen(c)
    <3>1. CASE cables' = cables
      BY <3>1 DEF CinOpen, CoutOpen
    <3> QED BY <1>9, <3>1, DrainedStays DEF TypeInv
  <2> QED BY <1>9, <2>1, <2>2, EndsStay
<1>10. ASSUME NEW d \in WmsDevices,
              (\E batch \in {<<"short", "short">>, <<"short", "bad", "short">>} : Received(d, batch)) \/ PushPacket(d)
       PROVE  GrantedInv'
  BY <1>9, <1>10 DEF Received, PushPacket
<1>11. ASSUME PollWms PROVE GrantedInv'
  BY <1>9, <1>11 DEF PollWms, Polled
<1> QED BY <1>6, <1>7, <1>8, <1>10, <1>11 DEF WmsStep

\* The null backend keeps what is granted.
LEMMA NullGrants ==
  ASSUME TypeInv, GrantedInv, backend' = backend, backend = "null", NullStep, UNCHANGED <<winVars, sendVars, wmsVars, coreVars>>
  PROVE  GrantedInv'
<1> USE DEF frameVars, cableVars, captureVars, winVars, dumpVars, sendVars, wmsVars, coreVars, nullVars
<1>1. (In \in granted <=> In \in null_open) /\ (Out \in granted <=> Out \in null_open)
  BY DEF GrantedInv, DevicesGranted, InOpen, OutOpen
<1>2. (InOpen' <=> In \in null_open') /\ (OutOpen' <=> Out \in null_open')
  BY DEF InOpen, OutOpen
<1>3. ASSUME NEW id \in {<<"in", 1>>, <<"out", 1>>}, OpenNull(id) \/ CloseNull(id) PROVE GrantedInv'
  <2>1. /\ id \in {In, Out} /\ cables' = cables
        /\ \/ granted' = granted \cup {id} /\ null_open' = null_open \cup {id}
           \/ granted' = granted \ {id} /\ null_open' = null_open \ {id}
    BY <1>3 DEF OpenNull, CloseNull, In, Out
  <2>2. (In \in granted' <=> In \in null_open') /\ (Out \in granted' <=> Out \in null_open')
    BY <1>1, <2>1
  <2> QED BY <1>2, <2>1, <2>2, DeviceEnds
<1>4. ASSUME Inject \/ PollNull PROVE GrantedInv'
  <2>1. granted' = granted /\ null_open' = null_open /\ (cables' = cables \/ cables' = Drained)
    BY <1>4 DEF Inject, PollNull, Polled
  <2>2. InOpen' = InOpen /\ OutOpen' = OutOpen
    BY <2>1 DEF InOpen, OutOpen
  <2>3. \A c \in 1..MaxCables : CinOpen(c)' = CinOpen(c) /\ CoutOpen(c)' = CoutOpen(c)
    <3>1. CASE cables' = cables
      BY <3>1 DEF CinOpen, CoutOpen
    <3> QED BY <2>1, <3>1, DrainedStays DEF TypeInv
  <2> QED BY <2>1, <2>2, <2>3, EndsStay
<1> QED BY <1>3, <1>4 DEF NullStep

\* CoreMIDI keeps what is granted.
LEMMA CoreMidiGrants ==
  ASSUME TypeInv, GrantedInv, backend' = backend, backend = "coremidi", CoreMidiStep,
         UNCHANGED <<winVars, sendVars, wmsVars, nullVars>>
  PROVE  GrantedInv'
<1> USE DEF frameVars, cableVars, captureVars, winVars, dumpVars, sendVars, wmsVars, coreVars, nullVars
<1>1. (In \in granted <=> In \in sources) /\ Out \notin granted /\ \A c \in 1..MaxCables : <<"cout", c>> \notin granted
  BY DEF GrantedInv, DevicesGranted, InOpen, OutOpen, CablesGranted, CoutOpen
<1>2. (InOpen' <=> In \in sources') /\ ~ OutOpen /\ ~ OutOpen' /\ \A c : CoutOpen(c)' = CoutOpen(c) /\ ~ CoutOpen(c)'
  BY DEF InOpen, OutOpen, CoutOpen
<1>3. CableTypes /\ DOMAIN cables \subseteq 1..MaxCables
  BY CaptureAssumption DEF TypeInv, CableTypes
<1>4. ASSUME NEW id \in {<<"in", 1>>}, OpenSource(id) \/ CloseSource(id) PROVE GrantedInv'
  <2>1. /\ id = In /\ cables' = cables
        /\ \/ granted' = granted \cup {In} /\ sources' = sources \cup {In}
           \/ granted' = granted \ {In} /\ sources' = sources \ {In}
    BY <1>4 DEF OpenSource, CloseSource, In
  <2>2. (In \in granted' <=> In \in sources') /\ Out \notin granted'
    BY <1>1, <2>1 DEF In, Out
  <2> QED BY <1>2, <2>1, <2>2, DeviceEnds
<1>5. ASSUME sources' = sources PROVE InOpen' = InOpen /\ OutOpen' = OutOpen
  BY <1>5 DEF InOpen, OutOpen
<1>6. ASSUME CreateVirtual PROVE GrantedInv'
  <2>1. /\ granted' = granted /\ sources' = sources /\ next_index \notin DOMAIN cables
        /\ cables' = Put(cables, next_index, [EmptyCable EXCEPT !.out_open = TRUE])
    BY <1>3, <1>6 DEF CreateVirtual, CableTypes
  <2>2. \A c \in 1..MaxCables : CinOpen(c)' = CinOpen(c)
    BY <2>1 DEF CinOpen, Put, EmptyCable
  <2> QED BY <1>2, <1>5, <2>1, <2>2, EndsStay
<1>7. ASSUME NEW c \in DOMAIN cables, RemoveVirtual(c) \/ OpenVirtual(c) \/ CloseVirtual(c) PROVE GrantedInv'
  <2>1. /\ sources' = sources /\ c \in 1..MaxCables
        /\ \/ cables' = Without(cables, {c}) /\ granted' = granted \ {<<"cin", c>>}
           \/ cables' = [cables EXCEPT ![c].in_port = TRUE] /\ granted' = granted \cup {<<"cin", c>>}
           \/ cables' = [cables EXCEPT ![c].in_port = FALSE] /\ granted' = granted \ {<<"cin", c>>}
    BY <1>3, <1>7 DEF RemoveVirtual, OpenVirtual, CloseVirtual
  <2>2. \A k \in 1..MaxCables \ {c} : CinOpen(k)' = CinOpen(k)
    BY <2>1 DEF CinOpen, Without
  <2>3. <<"cin", c>> \in granted' <=> CinOpen(c)'
    BY <1>3, <2>1 DEF CinOpen, Without, CableTypes, Cable
  <2>4. <<"cout", c>> \notin granted'
    BY <1>1, <2>1
  <2>5. \A id : id \notin {<<"cin", c>>, <<"cout", c>>} => (id \in granted' <=> id \in granted)
    BY <2>1
  <2> QED BY <1>2, <1>5, <2>1, <2>2, <2>3, <2>4, <2>5, CableEnds
<1>8. ASSUME UNCHANGED <<granted, sources, cables>> PROVE GrantedInv'
  <2>1. \A c \in 1..MaxCables : CinOpen(c)' = CinOpen(c)
    BY <1>8 DEF CinOpen
  <2> QED BY <1>2, <1>5, <1>8, <2>1, EndsStay
<1>9. ASSUME (\E c \in DOMAIN cables : VirtualArmed(c)) \/ (\E c \in passed : VirtualPush(c))
             \/ (\E id \in {<<"in", 1>>} : SourceCallback(id)) \/ PollCoreMidi
      PROVE  GrantedInv'
  BY <1>8, <1>9 DEF VirtualArmed, VirtualPush, SourceCallback, PollCoreMidi, Polled
<1> QED BY <1>4, <1>6, <1>7, <1>9 DEF CoreMidiStep

\* Every step keeps what is granted.
LEMMA GrantsKept == TypeInv /\ GrantedInv /\ [Next]_vars => GrantedInv'
<1> SUFFICES ASSUME TypeInv, GrantedInv, [Next]_vars PROVE GrantedInv'
  OBVIOUS
<1>1. CASE UNCHANGED vars
  <2>1. /\ UNCHANGED <<backend, granted>> /\ InOpen' = InOpen /\ OutOpen' = OutOpen
        /\ \A c \in 1..MaxCables : CinOpen(c)' = CinOpen(c) /\ CoutOpen(c)' = CoutOpen(c)
    BY <1>1 DEF vars, captureVars, frameVars, cableVars, winVars, dumpVars, sendVars, wmsVars, coreVars, nullVars,
                InOpen, OutOpen, CinOpen, CoutOpen
  <2> QED BY <2>1, EndsStay
<1>2. CASE Next
  BY <1>2, WinMmGrants, WmsGrants, NullGrants, CoreMidiGrants, CableStepGrants DEF Next, WinMmOnly
<1> QED BY <1>1, <1>2

\* Nothing is granted at the start.
LEMMA GrantsBegin == Init => GrantedInv
<1> SUFFICES ASSUME Init PROVE GrantedInv
  OBVIOUS
<1>1. granted = {} /\ cables = <<>> /\ outputs = {} /\ sources = {} /\ null_open = {}
  BY DEF Init, CaptureInit, WinMmInit, CoreMidiInit, NullInit
<1>2. DOMAIN inputs = {} /\ DOMAIN conns = {}
  BY DEF Init, WinMmInit, WmsInit
<1>3. DOMAIN cables = {}
  BY <1>1
<1> QED BY <1>1, <1>2, <1>3 DEF GrantedInv, DevicesGranted, CablesGranted, InOpen, OutOpen, CinOpen, CoutOpen

\* An end that was granted is served.
LEMMA GrantedAreServed == TypeInv /\ GrantedInv => OpenEndsAreServed
<1> SUFFICES ASSUME TypeInv, GrantedInv, busy # "close" PROVE OpenEndsAreServed
  BY DEF OpenEndsAreServed
<1> DEFINE Served(id) == Serves(id) /\ (backend = "coremidi" => id[1] # "cout")
<1>1. backend \in {"winmm", "wms", "coremidi", "null"}
  BY DEF TypeInv, CableTypes
<1>2. Served(In) <=> In \in granted
  <2>1. (In \in granted <=> InOpen) /\ (In \in DOMAIN inputs => inputs[In]) /\ In \notin outputs
    BY DEF GrantedInv, DevicesGranted, TypeInv, DeviceTypes, OutputIds, In
  <2>2. In[1] = "in" /\ In[2] = 1
    BY DEF In
  <2> QED BY <1>1, <2>1, <2>2 DEF Serves, WinMmServes, WmsServes, CoreMidiServes, CableServes, InOpen
<1>3. Served(Out) <=> Out \in granted
  <2>1. (Out \in granted <=> OutOpen) /\ Out \notin DOMAIN inputs /\ Out \notin sources
    BY DEF GrantedInv, DevicesGranted, TypeInv, DeviceTypes, InputIds, Out
  <2>2. Out[1] = "out" /\ Out[2] = 1
    BY DEF Out
  <2> QED BY <1>1, <2>1, <2>2 DEF Serves, WinMmServes, WmsServes, CoreMidiServes, CableServes, OutOpen
<1>4. ASSUME NEW c \in 1..MaxCables
      PROVE  (Served(<<"cin", c>>) <=> <<"cin", c>> \in granted) /\ (Served(<<"cout", c>>) <=> <<"cout", c>> \in granted)
  <2>1. (<<"cin", c>> \in granted <=> CinOpen(c)) /\ (<<"cout", c>> \in granted <=> CoutOpen(c))
    BY DEF GrantedInv, CablesGranted
  <2>2. \A id \in {<<"cin", c>>, <<"cout", c>>} : id \notin DOMAIN inputs \cup outputs \cup sources \cup null_open
    BY DEF TypeInv, DeviceTypes, InputIds, OutputIds
  <2> QED BY <1>1, <2>1, <2>2 DEF Serves, WinMmServes, WmsServes, CoreMidiServes, CableServes, CinOpen, CoutOpen
<1>5. \A id \in AllIds : Served(id) <=> id \in granted
  <2>1. ASSUME NEW id \in AllIds PROVE id \in {In, Out} \/ \E c \in 1..MaxCables : id \in {<<"cin", c>>, <<"cout", c>>}
    BY DEF AllIds, Devices, In, Out
  <2> HIDE DEF Served
  <2> QED BY <1>2, <1>3, <1>4, <2>1
<1>6. granted \subseteq AllIds
  BY DEF GrantedInv
<1> QED BY <1>5, <1>6 DEF OpenEndsAreServed

\* Whatever is opened, refused, closed or removed, on any backend, exactly what
\* was opened and not closed since is served (open_input, close_input,
\* open_output, close_output and remove of the backends).
THEOREM EndsStayServed == Spec => []OpenEndsAreServed
<1>1. Init => TypeInv /\ GrantedInv
  BY TypesBegin, GrantsBegin
<1>2. TypeInv /\ GrantedInv /\ [Next]_vars => (TypeInv /\ GrantedInv)'
  BY TypesKept, GrantsKept
<1>3. TypeInv /\ GrantedInv => OpenEndsAreServed
  BY GrantedAreServed
<1> QED BY <1>1, <1>2, <1>3, PTL DEF Spec

-----------------------------------------------------------------------------
(* The buffer of a long send                                               *)

\* While the driver has the buffer it is the call's, or forgotten.
BufferInv == held => buffer \in {"ours", "leaked"}

\* Every step keeps the buffer of a long send.
LEMMA BufferKept == BufferInv /\ [Next]_vars => BufferInv'
<1> SUFFICES ASSUME BufferInv, [Next]_vars PROVE BufferInv'
  OBVIOUS
<1> USE DEF BufferInv, winVars, dumpVars, sendVars
<1>1. CASE UNCHANGED sendVars
  BY <1>1
<1>2. CASE WinMmStep
  <2>1. ASSUME NEW id \in InputIds, \/ OpenInput(id) \/ BeginClose(id) \/ FinishClose(id) \/ PushFrame(id)
                                    \/ DriverCalls(id) \/ Unheard(id)
        PROVE  UNCHANGED sendVars
    BY <2>1 DEF OpenInput, BeginClose, FinishClose, PushFrame, DriverCalls, ShortCallback, LongCallback, Called, Unheard
  <2>2. ASSUME NEW id \in OutputIds, OpenOutput(id) \/ CloseOutput(id) PROVE UNCHANGED sendVars
    BY <2>2 DEF OpenOutput, CloseOutput
  <2>3. ASSUME NEW id \in OutputIds, BeginLong(id) PROVE BufferInv'
    BY <2>3 DEF BeginLong
  <2>4. ASSUME PollWinMm \/ LongTimeout PROVE UNCHANGED sendVars
    BY <2>4 DEF PollWinMm, LongTimeout
  <2>5. ASSUME DriverDone \/ LongDone \/ GiveUp PROVE BufferInv'
    BY <2>5 DEF DriverDone, LongDone, GiveUp
  <2> QED BY <1>1, <1>2, <2>1, <2>2, <2>3, <2>4, <2>5 DEF WinMmStep, DriverCalls
<1> QED BY <1>1, <1>2 DEF Next, WinMmOnly, vars

\* The buffer of a long send is not freed while the driver has it, though the
\* call gives up waiting for the driver (send_long_message of winmm.rs).
THEOREM BuffersAreKept == Spec => []BufferOutlivesDriver
<1>1. Init => BufferInv
  BY DEF Init, WinMmInit, BufferInv
<1>2. BufferInv => BufferOutlivesDriver
  BY DEF BufferInv, BufferOutlivesDriver
<1> QED BY <1>1, <1>2, BufferKept, PTL DEF Spec

-----------------------------------------------------------------------------
(* What the cables hold, one after the other                               *)

\* The frames that are queued in a cable whose input is open.
Queued == {f \in AllFrames : \E c \in DOMAIN cables : f.port = <<"cin", c>> /\ cables[c].in_port}

\* What the cables hold is a sequence of queued frames.
LEMMA CableEventsTyped == CableTypes => CableEvents \in Seq(Queued)
<1> SUFFICES ASSUME CableTypes PROVE CableEvents \in Seq(Queued)
  OBVIOUS
<1> DEFINE last == next_index - 1
           Values == Seq(Queued)
           Queue(c) == IF c \in DOMAIN cables THEN cables[c].queue ELSE <<>>
           Add == [x \in (1..last) \X Values |-> x[2] \o Queue(x[1])]
<1>1. last \in Nat /\ <<>> \in Values
  BY CaptureAssumption DEF CableTypes
<1>2. \A c \in 1..last : Queue(c) \in Values
  <2> SUFFICES ASSUME NEW c \in 1..last, c \in DOMAIN cables PROVE cables[c].queue \in Seq(Queued)
    OBVIOUS
  <2>1. cables[c] \in Cable(c) /\ Sound(cables[c])
    BY DEF CableTypes
  <2>2. CASE cables[c].in_port
    <3>1. Frames({<<"cin", c>>}) \subseteq Queued
      <4>1. c \in Nat
        BY <1>1
      <4> QED BY <2>2, <4>1 DEF Queued, Frames, AllFrames
    <3>2. cables[c].queue \in Seq(Frames({<<"cin", c>>}))
      BY <2>1 DEF Cable
    <3>3. PICK F : F = Frames({<<"cin", c>>})
      OBVIOUS
    <3>4. PICK q \in Seq(F) : q = cables[c].queue
      BY <3>2, <3>3
    <3>5. \A i \in 1..Len(q) : q[i] \in Queued
      <4>1. \A i \in 1..Len(q) : q[i] \in F
        OBVIOUS
      <4> QED BY <3>1, <3>3, <4>1
    <3>6. q = [i \in 1..Len(q) |-> q[i]] /\ Len(q) \in Nat
      OBVIOUS
    <3>7. q \in Seq(Queued)
      BY <3>5, <3>6
    <3> QED BY <3>4, <3>7
  <2>3. CASE ~ cables[c].in_port
    <3>1. cables[c].queue = <<>>
      BY <2>1, <2>3 DEF Sound
    <3> QED BY <1>1, <3>1
  <2> QED BY <2>2, <2>3
<1>3. ASSUME NEW x \in (1..last) \X Values PROVE x[2] \o Queue(x[1]) \in Values
  <2>1. PICK c \in 1..last, s \in Values : x = <<c, s>>
    OBVIOUS
  <2>2. PICK q \in Values : q = Queue(c)
    BY <1>2
  <2>3. s \o q \in Values
    BY ConcatProperties
  <2> HIDE DEF Queue
  <2> QED BY <2>1, <2>2, <2>3
<1>4. Add \in [(1..last) \X Values -> Values]
  <2> HIDE DEF Queue, Values, last
  <2> QED BY <1>3
<1>5. PICK f \in [0..last -> Values] : f[0] = <<>> /\ \A n \in 1..last : f[n] = Add[<<n, f[n - 1]>>]
  <2> HIDE DEF Add, Values, last
  <2>1. PICK m \in Nat : m = last
    BY <1>1
  <2>2. PICK W : W = Values
    OBVIOUS
  <2>3. PICK step \in [(1..m) \X W -> W] : step = Add
    BY <1>4, <2>1, <2>2
  <2>4. PICK a \in W : a = <<>>
    BY <1>1, <2>2
  <2>5. PICK f : Takes(f, m, W, a, step)
    BY Recursion
  <2> QED BY <2>1, <2>2, <2>3, <2>4, <2>5 DEF Takes
<1>6. ASSUME NEW n \in 1..last PROVE f[n] = f[n - 1] \o Queue(n)
  <2>1. <<n, f[n - 1]>> \in (1..last) \X Values
    BY <1>1, <1>5
  <2> HIDE DEF Queue, Values, last
  <2> QED BY <1>5, <2>1
<1>7. f = [c \in 0..last |-> IF c = 0 THEN <<>> ELSE f[c - 1] \o Queue(c)]
  <2>1. \A c \in 0..last : f[c] = IF c = 0 THEN <<>> ELSE f[c - 1] \o Queue(c)
    <3> HIDE DEF Queue, Values
    <3> QED BY SMTT(20), <1>5, <1>6
  <2> HIDE DEF Queue, Values, last
  <2> QED BY <1>5, <2>1
<1>8. EventsUpTo = [c \in 0..last |-> IF c = 0 THEN <<>> ELSE EventsUpTo[c - 1] \o Queue(c)]
  BY <1>7 DEF EventsUpTo
<1>9. EventsUpTo \in [0..last -> Values]
  <2>1. DOMAIN EventsUpTo = 0..last /\ EventsUpTo = [c \in DOMAIN EventsUpTo |-> EventsUpTo[c]] /\ EventsUpTo[0] = <<>>
    <3> HIDE DEF Queue, last
    <3> QED BY <1>1, <1>8
  <2>2. ASSUME NEW n \in 1..last, EventsUpTo[n - 1] \in Values PROVE EventsUpTo[n] \in Values
    <3>1. EventsUpTo[n] = EventsUpTo[n - 1] \o Queue(n)
      <4>1. n \in 0..last /\ n # 0
        BY <1>1
      <4> HIDE DEF Queue, last
      <4> QED BY <1>8, <4>1
    <3>2. PICK s \in Values : s = EventsUpTo[n - 1]
      BY <2>2
    <3>3. PICK q \in Values : q = Queue(n)
      BY <1>2
    <3>4. s \o q \in Values
      BY ConcatProperties
    <3> HIDE DEF Queue, Values
    <3> QED BY <3>1, <3>2, <3>3, <3>4
  <2> HIDE DEF Values, last
  <2> QED BY <1>1, <2>1, <2>2, Typed
<1>10. last \in 0..last
  BY <1>1
<1> QED BY <1>9, <1>10 DEF CableEvents

-----------------------------------------------------------------------------
(* The count of the frames the cables lost                                 *)

Missed(c) == IF c \in DOMAIN cables THEN cables[c].dropped ELSE 0

CountsAdd ==
  /\ next_index - 1 \in Nat /\ CableDropped = DroppedUpTo[next_index - 1]
  /\ DroppedUpTo \in [0..(next_index - 1) -> Nat] /\ DroppedUpTo[0] = 0
  /\ \A c \in 1..(next_index - 1) : DroppedUpTo[c] = DroppedUpTo[c - 1] + Missed(c)
  /\ \A c \in 1..(next_index - 1) : Missed(c) \in Nat

\* The queued and the lost frames of the cables are sums of numbers.
LEMMA CableCounts == CableTypes => CountsAdd
<1> SUFFICES ASSUME CableTypes PROVE CountsAdd
  OBVIOUS
<1> DEFINE last == next_index - 1
           Add == [x \in (1..last) \X Nat |-> x[2] + Missed(x[1])]
<1>1. last \in Nat
  BY CaptureAssumption DEF CableTypes
<1>2. \A c \in 1..last : Missed(c) \in Nat
  <2> SUFFICES ASSUME NEW c \in DOMAIN cables PROVE cables[c].dropped \in Nat
    BY DEF Missed
  <2> QED BY DEF CableTypes, Cable
<1>3. Add \in [(1..last) \X Nat -> Nat]
  <2>1. ASSUME NEW x \in (1..last) \X Nat PROVE x[2] + Missed(x[1]) \in Nat
    BY <1>2
  <2> QED BY <2>1
<1>4. PICK f : Takes(f, last, Nat, 0, Add)
  <2> HIDE DEF Add, last
  <2>1. PICK m \in Nat : m = last
    BY <1>1
  <2>2. PICK step \in [(1..m) \X Nat -> Nat] : step = Add
    BY <1>3, <2>1
  <2>3. PICK f : Takes(f, m, Nat, 0, step)
    BY Recursion
  <2> QED BY <2>1, <2>2, <2>3
<1>5. f \in [0..last -> Nat] /\ f[0] = 0 /\ \A n \in 1..last : f[n] = Add[<<n, f[n - 1]>>]
  BY <1>4 DEF Takes
<1>6. ASSUME NEW n \in 1..last PROVE f[n] = f[n - 1] + Missed(n)
  <2>1. <<n, f[n - 1]>> \in (1..last) \X Nat
    BY <1>1, <1>5
  <2> HIDE DEF last
  <2> QED BY <1>5, <2>1
<1>7. f = [c \in 0..last |-> IF c = 0 THEN 0 ELSE f[c - 1] + Missed(c)]
  <2>1. \A c \in 0..last : f[c] = IF c = 0 THEN 0 ELSE f[c - 1] + Missed(c)
    BY <1>5, <1>6
  <2> HIDE DEF last
  <2> QED BY <1>5, <2>1
<1>8. DroppedUpTo = [c \in 0..last |-> IF c = 0 THEN 0 ELSE DroppedUpTo[c - 1] + Missed(c)]
  BY <1>7 DEF DroppedUpTo, Missed
<1>9. /\ DroppedUpTo[0] = 0 /\ DOMAIN DroppedUpTo = 0..last
      /\ DroppedUpTo = [c \in DOMAIN DroppedUpTo |-> DroppedUpTo[c]]
  <2> HIDE DEF last
  <2> QED BY <1>1, <1>8
<1>10. \A c \in 1..last : DroppedUpTo[c] = DroppedUpTo[c - 1] + Missed(c)
  <2>1. \A c \in 1..last : c \in 0..last /\ c # 0
    BY <1>1
  <2> HIDE DEF last
  <2> QED BY <1>8, <2>1
<1>11. DroppedUpTo \in [0..last -> Nat]
  <2>1. PICK e : e = DroppedUpTo
    OBVIOUS
  <2>2. PICK m \in Nat : m = last
    BY <1>1
  <2> HIDE DEF last
  <2>3. \A c \in 1..m : e[c - 1] \in Nat => e[c] \in Nat
    BY <1>2, <1>10, <2>1, <2>2
  <2>4. PICK W : W = Nat
    OBVIOUS
  <2>5. /\ e[0] \in W /\ DOMAIN e = 0..m /\ e = [c \in DOMAIN e |-> e[c]]
        /\ \A c \in 1..m : e[c - 1] \in W => e[c] \in W
    BY <1>9, <2>1, <2>2, <2>3, <2>4
  <2>6. e \in [0..m -> W]
    BY <2>5, Typed
  <2> QED BY <2>1, <2>2, <2>4, <2>6
<1> QED BY <1>1, <1>2, <1>9, <1>10, <1>11 DEF CableDropped, CountsAdd

\* Sums that differ in one place at most.
SumsOf(F, n, a) == F \in [0..n -> Nat] /\ F[0] = 0 /\ \A i \in 1..n : a[i] \in Nat /\ F[i] = F[i - 1] + a[i]
DifferAt(k, more, n, a, b) == \A i \in 1..n : b[i] = IF i = k THEN a[i] + more ELSE a[i]

\* Two sums over functions that differ at one place.
LEMMA SumsDiffer ==
  ASSUME NEW n \in Nat, NEW m \in Nat, n <= m, NEW F, NEW G, NEW a, NEW b, SumsOf(F, n, a), SumsOf(G, m, b),
         NEW k \in Nat, NEW more \in Int, DifferAt(k, more, n, a, b)
  PROVE  G[n] = IF k \in 1..n THEN F[n] + more ELSE F[n]
<1>0. /\ F \in [0..n -> Nat] /\ F[0] = 0 /\ G \in [0..m -> Nat] /\ G[0] = 0
      /\ \A i \in 1..n : /\ F[i] = F[i - 1] + a[i] /\ G[i] = G[i - 1] + b[i] /\ a[i] \in Nat /\ b[i] \in Nat
                         /\ b[i] = IF i = k THEN a[i] + more ELSE a[i]
  BY DEF SumsOf, DifferAt
<1> DEFINE T == {i \in Nat : i <= n => G[i] = IF k \in 1..i THEN F[i] + more ELSE F[i]}
<1>1. 0 \in T
  BY <1>0
<1>2. ASSUME NEW i \in T PROVE i + 1 \in T
  <2> SUFFICES ASSUME i + 1 <= n PROVE G[i + 1] = IF k \in 1..(i + 1) THEN F[i + 1] + more ELSE F[i + 1]
    OBVIOUS
  <2>1. /\ i + 1 \in 1..n /\ (i + 1) - 1 = i /\ i \in 0..n /\ i \in Nat
        /\ G[i] = IF k \in 1..i THEN F[i] + more ELSE F[i]
    OBVIOUS
  <2> HIDE DEF T
  <2>5. i \in 0..m /\ F[i] \in Nat /\ G[i] \in Nat
    BY <1>0, <2>1
  <2>6. PICK j \in 1..n : j = i + 1
    BY <2>1
  <2>7. /\ F[j] = F[j - 1] + a[j] /\ G[j] = G[j - 1] + b[j] /\ a[j] \in Nat /\ b[j] \in Nat
        /\ b[j] = IF j = k THEN a[j] + more ELSE a[j]
    BY <1>0
  <2>2. /\ F[i + 1] = F[i] + a[i + 1] /\ G[i + 1] = G[i] + b[i + 1]
        /\ b[i + 1] = IF i + 1 = k THEN a[i + 1] + more ELSE a[i + 1]
        /\ a[i + 1] \in Nat /\ b[i + 1] \in Nat
    BY <2>1, <2>6, <2>7
  <2>3. k \in 1..(i + 1) <=> k \in 1..i \/ k = i + 1
    BY <2>1
  <2>4. ~ (k \in 1..i /\ k = i + 1)
    BY <2>1
  <2>8. CASE k = i + 1
    <3>1. k \notin 1..i /\ k \in 1..(i + 1)
      BY <2>3, <2>4, <2>8
    <3> QED BY <2>1, <2>2, <2>5, <2>8, <3>1
  <2>9. CASE k # i + 1
    <3>1. k \in 1..i <=> k \in 1..(i + 1)
      BY <2>3, <2>9
    <3>2. b[i + 1] = a[i + 1]
      BY <2>2, <2>9
    <3>3. CASE k \in 1..i
      BY <2>1, <2>2, <2>5, <3>1, <3>2, <3>3
    <3>4. CASE k \notin 1..i
      BY <2>1, <2>2, <2>5, <3>1, <3>2, <3>4
    <3> QED BY <3>3, <3>4
  <2> QED BY <2>8, <2>9
<1>3. T = Nat
  <2> HIDE DEF T
  <2>1. T \subseteq Nat
    BY DEF T
  <2> QED BY <1>1, <1>2, <2>1, EveryNatural
<1>4. n \in T
  <2> HIDE DEF T
  <2> QED BY <1>3
<1> QED BY <1>4

\* What happens to one cable shows in the sum.
LEMMA CableSumChanges ==
  ASSUME CableTypes, CableTypes', next_index' \in {next_index, next_index + 1}, NEW k \in Nat, NEW more \in Int,
         \A c \in next_index..(next_index' - 1) : Missed(c)' = 0,
         \A c \in 1..(next_index - 1) : Missed(c)' = IF c = k THEN Missed(c) + more ELSE Missed(c)
  PROVE  /\ CableDropped \in Nat /\ CableDropped' \in Nat
         /\ CableDropped' = IF k \in 1..(next_index - 1) THEN CableDropped + more ELSE CableDropped
<1>1. CountsAdd
  BY CableCounts
<1>2. CountsAdd'
  BY CableCounts, PTL
<1>3. PICK n, F : n \in Nat /\ F \in [0..n -> Nat] /\ n = next_index - 1 /\ F = DroppedUpTo
  BY <1>1 DEF CountsAdd
<1>4. PICK m, G : m \in Nat /\ G \in [0..m -> Nat] /\ m = next_index' - 1 /\ G = DroppedUpTo'
  BY <1>2 DEF CountsAdd
<1>5. PICK a, b : a = [i \in 1..n |-> Missed(i)] /\ b = [i \in 1..m |-> Missed(i)']
  OBVIOUS
<1>6. n <= m /\ (m = n \/ m = n + 1)
  BY <1>3, <1>4, CaptureAssumption DEF CableTypes
<1>7. SumsOf(F, n, a) /\ SumsOf(G, m, b) /\ CableDropped = F[n] /\ CableDropped' = G[m]
  BY <1>1, <1>2, <1>3, <1>4, <1>5 DEF CountsAdd, SumsOf
<1>8. DifferAt(k, more, n, a, b)
  <2>1. \A i \in 1..n : i \in 1..m
    BY <1>3, <1>4, <1>6
  <2> QED BY <1>3, <1>5, <2>1 DEF DifferAt
<1>9. G[n] = IF k \in 1..n THEN F[n] + more ELSE F[n]
  BY <1>3, <1>4, <1>6, <1>7, <1>8, SumsDiffer
<1>11. F[n] \in Nat /\ G[m] \in Nat
  BY <1>3, <1>4
<1>10. G[m] = G[n]
  <2>1. CASE m = n + 1
    <3>1. m \in 1..m /\ n \in 0..m /\ G[n] \in Nat /\ m - 1 = n
      BY <1>3, <1>4, <2>1
    <3>2. b[m] = 0
      <4>1. m \in next_index..(next_index' - 1)
        BY <1>3, <1>4, <2>1, CaptureAssumption DEF CableTypes
      <4> QED BY <1>5, <3>1, <4>1
    <3>3. G[m] = G[m - 1] + b[m]
      BY <1>7, <3>1 DEF SumsOf
    <3> QED BY <3>1, <3>2, <3>3
  <2> QED BY <1>6, <2>1
<1> QED BY <1>3, <1>7, <1>9, <1>10, <1>11

-----------------------------------------------------------------------------
(* What is lost is counted, until a poll reports it.  The count of the     *)
(* channel and those of the cables only grow between polls, and what is    *)
(* lost since the last one is in them, unless a cable was removed.         *)

CountedByCables == IF backend = "coremidi" THEN 0 ELSE CableDropped
Counted == ~ forgotten => lost <= dropped + CountedByCables
Reported == lost > 0 /\ lost' = 0 /\ ~ forgotten => polled'.count >= lost

\* A sum stays when its function does.
LEMMA SumStays ==
  ASSUME CableTypes, CableTypes', next_index' = next_index,
         \A c \in 1..(next_index - 1) : Missed(c)' = Missed(c)
  PROVE  CableDropped \in Nat /\ CableDropped' = CableDropped
<1>1. PICK k \in Nat, more \in Int : k = 0 /\ more = 0
  OBVIOUS
<1>2. next_index' \in {next_index, next_index + 1} /\ \A c \in next_index..(next_index' - 1) : Missed(c)' = 0
  BY CaptureAssumption DEF CableTypes
<1>3. \A c \in 1..(next_index - 1) : Missed(c)' = IF c = k THEN Missed(c) + more ELSE Missed(c)
  BY <1>1
<1>4. /\ CableDropped \in Nat
      /\ CableDropped' = IF k \in 1..(next_index - 1) THEN CableDropped + more ELSE CableDropped
  BY <1>2, <1>3, CableSumChanges
<1> QED BY <1>1, <1>4

\* A step that loses some frames of the channel, or none.
LEMMA ChannelLoses ==
  ASSUME TypeInv, TypeInv', Counted, UNCHANGED <<backend, cables, next_index, forgotten>>,
         NEW more \in Nat, lost' = lost + more, dropped' = dropped + more
  PROVE  Counted' /\ Reported
<1>1. CableDropped \in Nat /\ CableDropped' = CableDropped
  BY SumStays DEF TypeInv, Missed
<1>2. lost \in Nat /\ dropped \in Nat
  BY DEF TypeInv, ChannelTypes
<1>3. CountedByCables \in Nat /\ CountedByCables' = CountedByCables
  BY <1>1 DEF CountedByCables
<1>4. PICK n \in Nat, m \in Nat, s \in Nat : n = lost /\ m = dropped /\ s = CountedByCables
  BY <1>2, <1>3
<1>5. lost' = n + more /\ dropped' = m + more /\ CountedByCables' = s
  BY <1>3, <1>4
<1>6. Counted'
  BY <1>4, <1>5 DEF Counted
<1>7. Reported
  BY <1>4, <1>5 DEF Reported
<1> QED BY <1>6, <1>7

\* A step that loses frames of a cable, or none.
LEMMA CablesLose ==
  ASSUME TypeInv, TypeInv', Counted, backend' = backend, backend # "coremidi",
         dropped' = dropped, NEW more \in Nat, lost' = lost + more,
         ~ forgotten' => ~ forgotten /\ CableDropped' = CableDropped + more, CableDropped \in Nat
  PROVE  Counted' /\ Reported
<1>1. PICK n \in Nat, m \in Nat, s \in Nat : n = lost /\ m = dropped /\ s = CableDropped
  BY DEF TypeInv, ChannelTypes
<1>2. Counted'
  <2> SUFFICES ASSUME ~ forgotten' PROVE lost' <= dropped' + CableDropped'
    BY DEF Counted, CountedByCables
  <2>1. n <= m + s
    BY <1>1 DEF Counted, CountedByCables
  <2> QED BY <1>1, <2>1
<1>3. Reported
  BY <1>1 DEF Reported
<1> QED BY <1>2, <1>3

\* A poll reports what was counted.
LEMMA PollReports ==
  ASSUME TypeInv, TypeInv', Counted, backend' = backend, NEW events, NEW count,
         Polled(events, count), count = dropped + CountedByCables
  PROVE  Counted' /\ Reported
<1>1. lost' = 0 /\ polled'.count = count
  BY DEF Polled
<1>2. dropped' \in Nat /\ CableDropped' \in Nat
  <2>1. CountsAdd'
    BY CableCounts, PTL DEF TypeInv
  <2>2. CableDropped' \in Nat
    BY <2>1 DEF CountsAdd
  <2> QED BY <2>2 DEF TypeInv, ChannelTypes
<1>3. Counted'
  <2>1. PICK m \in Nat, s \in Nat : m = dropped' /\ s = CountedByCables'
    BY <1>2 DEF CountedByCables
  <2>2. 0 <= m + s
    OBVIOUS
  <2>3. lost' <= m + s
    BY <1>1, <2>2
  <2>4. m + s = dropped' + CountedByCables'
    BY <2>1
  <2> QED BY <2>3, <2>4, Zenon DEF Counted
<1>4. Reported
  BY <1>1 DEF Reported, Counted, TypeInv, ChannelTypes
<1> QED BY <1>3, <1>4

\* WinMM counts what it loses.
LEMMA WinMmCounts ==
  ASSUME TypeInv, TypeInv', Counted, backend' = backend, backend = "winmm", WinMmStep
  PROVE  Counted' /\ Reported
<1> USE DEF captureVars, frameVars, cableVars, winVars, dumpVars, sendVars
<1>1. ASSUME UNCHANGED <<cables, next_index, forgotten, lost, dropped>> PROVE Counted' /\ Reported
  <2>1. lost' = lost + 0 /\ dropped' = dropped + 0
    BY <1>1 DEF TypeInv, ChannelTypes
  <2> QED BY <1>1, <2>1, ChannelLoses
<1>2. ASSUME NEW id \in InputIds, OpenInput(id) \/ BeginClose(id) \/ FinishClose(id) \/ DriverCalls(id) \/ Unheard(id)
      PROVE  Counted' /\ Reported
  BY <1>1, <1>2 DEF OpenInput, BeginClose, FinishClose, DriverCalls, ShortCallback, LongCallback, Called, Unheard
<1>3. ASSUME NEW id \in OutputIds, OpenOutput(id) \/ CloseOutput(id) \/ BeginLong(id) PROVE Counted' /\ Reported
  BY <1>1, <1>3 DEF OpenOutput, CloseOutput, BeginLong
<1>4. ASSUME DriverDone \/ LongDone \/ LongTimeout \/ GiveUp PROVE Counted' /\ Reported
  BY <1>1, <1>4 DEF DriverDone, LongDone, LongTimeout, GiveUp
<1>5. ASSUME NEW id \in InputIds, PushFrame(id) PROVE Counted' /\ Reported
  <2>1. PICK f \in DeviceFrames : f = Head(calls[id])
    BY <1>5, HeadTailProperties DEF PushFrame, TypeInv, DeviceTypes
  <2>2. PICK more \in {0, 1} : lost' = lost + more /\ dropped' = dropped + more
    <3>1. made' \in Nat
      BY <1>5 DEF PushFrame, TypeInv, ChannelTypes
    <3>2. (lost' = lost /\ dropped' = dropped) \/ (lost' = lost + 1 /\ dropped' = dropped + 1)
      BY <1>5, <2>1, <3>1, DevicePushed DEF PushFrame, TypeInv
    <3> QED BY <3>2 DEF TypeInv, ChannelTypes
  <2> QED BY <1>5, <2>2, ChannelLoses DEF PushFrame
<1>6. ASSUME PollWinMm PROVE Counted' /\ Reported
  BY <1>6, PollReports DEF PollWinMm, CountedByCables
<1> QED BY <1>2, <1>3, <1>4, <1>5, <1>6 DEF WinMmStep, DriverCalls

\* Windows MIDI Services counts what it loses.
LEMMA WmsCounts ==
  ASSUME TypeInv, TypeInv', Counted, backend' = backend, backend = "wms", WmsStep
  PROVE  Counted' /\ Reported
<1> USE DEF captureVars, frameVars, cableVars, wmsVars
<1>1. ASSUME UNCHANGED <<cables, next_index, forgotten, lost, dropped>> PROVE Counted' /\ Reported
  <2>1. lost' = lost + 0 /\ dropped' = dropped + 0
    BY <1>1 DEF TypeInv, ChannelTypes
  <2> QED BY <1>1, <2>1, ChannelLoses
<1>2. ASSUME NEW d \in WmsDevices, OpenWmsInput(d) \/ OpenWmsOutput(d) \/ CloseWmsInput(d) \/ CloseWmsOutput(d)
                                   \/ \E batch \in {<<"short", "short">>, <<"short", "bad", "short">>} : Received(d, batch)
      PROVE  Counted' /\ Reported
  BY <1>1, <1>2 DEF OpenWmsInput, OpenWmsOutput, CloseWmsInput, CloseWmsOutput, Received
<1>3. ASSUME NEW d \in WmsDevices, PushPacket(d) PROVE Counted' /\ Reported
  <2>1. PICK f \in DeviceFrames : f = Head(sinks[d])
    BY <1>3, HeadTailProperties DEF PushPacket, TypeInv, DeviceTypes
  <2>2. PICK more \in {0, 1} : lost' = lost + more /\ dropped' = dropped + more
    <3>1. made' \in Nat
      BY <1>3 DEF PushPacket, TypeInv, ChannelTypes
    <3>2. (lost' = lost /\ dropped' = dropped) \/ (lost' = lost + 1 /\ dropped' = dropped + 1)
      BY <1>3, <2>1, <3>1, DevicePushed DEF PushPacket, TypeInv
    <3> QED BY <3>2 DEF TypeInv, ChannelTypes
  <2> QED BY <1>3, <2>2, ChannelLoses DEF PushPacket
<1>4. ASSUME PollWms PROVE Counted' /\ Reported
  <2>1. CountsAdd /\ dropped \in Nat
    BY CableCounts DEF TypeInv, ChannelTypes
  <2>2. CableDropped \in Nat
    BY <2>1 DEF CountsAdd
  <2>3. CableDropped + dropped = dropped + CountedByCables
    BY <2>1, <2>2 DEF CountedByCables
  <2> QED BY <1>4, <2>3, PollReports DEF PollWms
<1> QED BY <1>2, <1>3, <1>4 DEF WmsStep

\* CoreMIDI counts what it loses.
LEMMA CoreMidiCounts ==
  ASSUME TypeInv, TypeInv', Counted, backend' = backend, backend = "coremidi", CoreMidiStep
  PROVE  Counted' /\ Reported
<1> USE DEF captureVars, frameVars, cableVars, coreVars
<1>1. ASSUME NEW more \in Nat, forgotten' = forgotten, lost' = lost + more, dropped' = dropped + more
      PROVE  Counted' /\ Reported
  <2>1. PICK n \in Nat, m \in Nat : n = lost /\ m = dropped
    BY DEF TypeInv, ChannelTypes
  <2> QED BY <1>1, <2>1 DEF Counted, CountedByCables, Reported
<1>2. ASSUME UNCHANGED <<forgotten, lost, dropped>> PROVE Counted' /\ Reported
  <2>1. lost' = lost + 0 /\ dropped' = dropped + 0
    BY <1>2 DEF TypeInv, ChannelTypes
  <2> QED BY <1>1, <1>2, <2>1
<1>3. ASSUME CreateVirtual \/ \E c \in DOMAIN cables : RemoveVirtual(c) \/ OpenVirtual(c) \/ CloseVirtual(c) \/ VirtualArmed(c)
      PROVE  Counted' /\ Reported
  BY <1>2, <1>3 DEF CreateVirtual, RemoveVirtual, OpenVirtual, CloseVirtual, VirtualArmed
<1>4. ASSUME NEW id \in {<<"in", 1>>}, OpenSource(id) \/ CloseSource(id) PROVE Counted' /\ Reported
  BY <1>2, <1>4 DEF OpenSource, CloseSource
<1>5. ASSUME NEW f \in AllFrames, TryPush(<<f>>), forgotten' = forgotten PROVE Counted' /\ Reported
  <2>1. (lost' = lost /\ dropped' = dropped) \/ (lost' = lost + 1 /\ dropped' = dropped + 1)
    BY <1>5, PushedOne DEF TypeInv, ChannelTypes
  <2> QED BY <1>1, <1>2, <1>5, <2>1
<1>6. ASSUME NEW c \in passed, VirtualPush(c) PROVE Counted' /\ Reported
  <2>1. made' \in Nat /\ c \in Nat
    BY <1>6 DEF TypeInv, ChannelTypes, DeviceTypes
  <2>2. PICK f \in AllFrames : f = Frame(<<"cin", c>>, made', "short")
    BY <2>1 DEF Frame, AllFrames, Frames, Parts
  <2> QED BY <1>5, <1>6, <2>2 DEF VirtualPush
<1>7. ASSUME NEW id \in {<<"in", 1>>}, SourceCallback(id) PROVE Counted' /\ Reported
  <2>1. made' \in Nat /\ id \in {"in", "cin"} \X Nat
    BY DEF TypeInv, ChannelTypes
  <2>2. PICK f \in AllFrames : f = Frame(id, made', "short")
    BY <2>1 DEF Frame, AllFrames, Frames, Parts
  <2> QED BY <1>5, <1>7, <2>2 DEF SourceCallback
<1>8. ASSUME PollCoreMidi PROVE Counted' /\ Reported
  <2>1. dropped = dropped + CountedByCables
    BY DEF CountedByCables, TypeInv, ChannelTypes
  <2> QED BY <1>8, <2>1, PollReports DEF PollCoreMidi
<1> QED BY <1>3, <1>4, <1>6, <1>7, <1>8 DEF CoreMidiStep

\* The null backend counts what it loses.
LEMMA NullCounts ==
  ASSUME TypeInv, TypeInv', Counted, backend' = backend, backend = "null", NullStep
  PROVE  Counted' /\ Reported
<1> USE DEF captureVars, frameVars, cableVars, nullVars
<1>1. ASSUME (\E id \in {<<"in", 1>>, <<"out", 1>>} : OpenNull(id) \/ CloseNull(id)) \/ Inject PROVE Counted' /\ Reported
  <2>1. UNCHANGED <<cables, next_index, forgotten, lost, dropped>>
    BY <1>1 DEF OpenNull, CloseNull, Inject
  <2>2. lost' = lost + 0 /\ dropped' = dropped + 0
    BY <2>1 DEF TypeInv, ChannelTypes
  <2> QED BY <2>1, <2>2, ChannelLoses
<1>2. ASSUME PollNull PROVE Counted' /\ Reported
  BY <1>2, PollReports DEF PollNull, CountedByCables
<1> QED BY <1>1, <1>2 DEF NullStep

\* The cables count what they lose.
LEMMA CableStepCounts ==
  ASSUME TypeInv, TypeInv', Counted, backend' = backend, backend # "coremidi", CableStep
  PROVE  Counted' /\ Reported
<1> USE DEF captureVars, frameVars, cableVars
<1>1. CableTypes /\ CableTypes' /\ lost \in Nat /\ dropped \in Nat /\ DOMAIN cables \subseteq 1..(next_index - 1)
  BY DEF TypeInv, CableTypes, ChannelTypes
<1>2. CableDropped \in Nat
  BY <1>1, CableCounts DEF CountsAdd
<1>3. ASSUME lost' = lost, dropped' = dropped, ~ forgotten' => ~ forgotten /\ CableDropped' = CableDropped
      PROVE  Counted' /\ Reported
  <2>1. lost' = lost + 0 /\ CableDropped + 0 = CableDropped
    BY <1>1, <1>2, <1>3
  <2> QED BY <1>2, <1>3, <2>1, CablesLose
<1>4. ASSUME CreateCable PROVE Counted' /\ Reported
  <2>1. PICK k \in Nat, more \in Int : k = 0 /\ more = 0
    OBVIOUS
  <2>2. /\ next_index' = next_index + 1 /\ cables' = Put(cables, next_index, EmptyCable)
        /\ UNCHANGED <<lost, dropped, forgotten>>
    BY <1>4 DEF CreateCable
  <2>3. \A c \in next_index..(next_index' - 1) : Missed(c)' = 0
    BY <2>2, CaptureAssumption DEF Missed, Put, EmptyCable, CableTypes, TypeInv
  <2>4. \A c \in 1..(next_index - 1) : Missed(c)' = Missed(c)
    BY <2>2, CaptureAssumption DEF Missed, Put, CableTypes, TypeInv
  <2>5. \A c \in 1..(next_index - 1) : Missed(c)' = IF c = k THEN Missed(c) + more ELSE Missed(c)
    BY <2>1, <2>4
  <2>6. CableDropped' = IF k \in 1..(next_index - 1) THEN CableDropped + more ELSE CableDropped
    BY <1>1, <2>2, <2>3, <2>5, CableSumChanges
  <2> QED BY <1>3, <2>1, <2>2, <2>6
<1>5. ASSUME NEW c \in DOMAIN cables, RemoveCable(c) PROVE Counted' /\ Reported
  <2>1. /\ next_index' = next_index /\ cables' = Without(cables, {c})
        /\ UNCHANGED <<lost, dropped>> /\ forgotten' = (forgotten \/ cables[c].dropped > 0)
    BY <1>5 DEF RemoveCable
  <2>2. ASSUME ~ forgotten' PROVE ~ forgotten /\ CableDropped' = CableDropped
    <3>3. PICK d \in Nat : d = cables[c].dropped
      BY DEF TypeInv, CableTypes, Cable
    <3>4. ~ forgotten /\ ~ (d > 0)
      BY <2>1, <2>2, <3>3
    <3>1. cables[c].dropped = 0
      BY <3>3, <3>4
    <3>2. \A k \in 1..(next_index - 1) : Missed(k)' = Missed(k)
      BY <2>1, <3>1 DEF Missed, Without
    <3> QED BY <1>1, <2>1, <3>2, <3>4, SumStays
  <2> QED BY <1>3, <2>1, <2>2
<1>6. ASSUME NEW c \in DOMAIN cables,
             OpenCableInput(c) \/ CloseCableInput(c) \/ OpenCableOutput(c) \/ CloseCableOutput(c)
      PROVE  Counted' /\ Reported
  <2>1. PICK r \in Cable(c) : cables' = [cables EXCEPT ![c] = r] /\ r.dropped = cables[c].dropped /\ next_index' = next_index
    <3>1. cables[c] \in Cable(c)
      BY <1>1 DEF CableTypes
    <3>2. CASE OpenCableInput(c)
      <4>1. Rewritten(c, [cables[c] EXCEPT !.in_port = TRUE])
        BY <1>1, <3>2, CableForms
      <4> QED BY <3>1, <4>1 DEF Rewritten, Cable
    <3>3. CASE CloseCableInput(c)
      <4>1. Rewritten(c, [cables[c] EXCEPT !.in_port = FALSE, !.queue = <<>>])
        BY <1>1, <3>3, CableForms
      <4> QED BY <3>1, <4>1 DEF Rewritten, Cable
    <3>4. CASE OpenCableOutput(c)
      <4>1. Rewritten(c, [cables[c] EXCEPT !.out_open = TRUE])
        BY <1>1, <3>4, CableForms
      <4> QED BY <3>1, <4>1 DEF Rewritten, Cable
    <3>5. CASE CloseCableOutput(c)
      <4>1. Rewritten(c, [cables[c] EXCEPT !.out_open = FALSE])
        BY <1>1, <3>5, CableForms
      <4> QED BY <3>1, <4>1 DEF Rewritten, Cable
    <3> QED BY <1>6, <3>2, <3>3, <3>4, <3>5
  <2>2. \A k \in 1..(next_index - 1) : Missed(k)' = Missed(k)
    BY <2>1 DEF Missed
  <2>3. CableDropped' = CableDropped
    BY <1>1, <2>1, <2>2, SumStays
  <2>4. UNCHANGED <<lost, dropped, forgotten>>
    BY <1>6 DEF OpenCableInput, CloseCableInput, OpenCableOutput, CloseCableOutput
  <2> QED BY <1>3, <2>3, <2>4
<1>7. ASSUME NEW c \in DOMAIN cables, NEW parts \in {<<"short">>, <<"first", "last">>}, SendCable(c, parts)
      PROVE  Counted' /\ Reported
  <2>1. UNCHANGED <<dropped, next_index, forgotten>>
    BY <1>7 DEF SendCable
  <2>2. CASE cables' = cables /\ lost' = lost
    <3>1. CableDropped' = CableDropped
      BY <1>1, <2>1, <2>2, SumStays DEF Missed
    <3> QED BY <1>3, <2>1, <2>2, <3>1
  <2>3. ASSUME NEW r \in Cable(c), NEW more \in Nat, cables' = [cables EXCEPT ![c] = r],
               r.dropped = cables[c].dropped + more, lost' = lost + more
        PROVE  Counted' /\ Reported
    <3>1. c \in 1..(next_index - 1) /\ c \in Nat /\ more \in Int
      BY <1>1
    <3>2. \A k \in 1..(next_index - 1) : Missed(k)' = IF k = c THEN Missed(k) + more ELSE Missed(k)
      BY <2>3 DEF Missed
    <3>3. \A k \in next_index..(next_index' - 1) : Missed(k)' = 0
      BY <1>1, <2>1, CaptureAssumption DEF CableTypes
    <3>4. CableDropped' = IF c \in 1..(next_index - 1) THEN CableDropped + more ELSE CableDropped
      BY <1>1, <2>1, <3>1, <3>2, <3>3, CableSumChanges
    <3> QED BY <1>2, <2>1, <2>3, <3>1, <3>4, CablesLose
  <2>4. \/ cables' = cables /\ lost' = lost
        \/ \E r \in Cable(c), more \in Nat : /\ cables' = [cables EXCEPT ![c] = r]
                                             /\ r.dropped = cables[c].dropped + more /\ lost' = lost + more
    BY <1>7, CableSends
  <2> QED BY <2>2, <2>3, <2>4
<1> QED BY <1>4, <1>5, <1>6, <1>7 DEF CableStep

\* Every step counts what it loses, or reports it.
LEMMA LossCounted == TypeInv /\ TypeInv' /\ Counted /\ [Next]_vars => Counted' /\ (Reported \/ UNCHANGED vars)
<1> SUFFICES ASSUME TypeInv, TypeInv', Counted, [Next]_vars PROVE Counted' /\ (Reported \/ UNCHANGED vars)
  OBVIOUS
<1>1. CASE UNCHANGED vars
  <2>1. UNCHANGED <<backend, cables, next_index, forgotten>> /\ lost' = lost + 0 /\ dropped' = dropped + 0
    BY <1>1 DEF vars, captureVars, frameVars, cableVars, TypeInv, ChannelTypes
  <2> QED BY <2>1, ChannelLoses
<1>2. CASE Next
  BY <1>2, WinMmCounts, WmsCounts, CoreMidiCounts, NullCounts, CableStepCounts DEF Next, WinMmOnly
<1> QED BY <1>1, <1>2

\* What a poll says it dropped is at least what was lost since the last one,
\* in the channel and in all the cables, whichever cables came and went,
\* unless one took its count with it (poll of the backends and of
\* SoftwareLoopbacks, and remove).
THEOREM LossesAreReported == Spec => LossIsReported
<1>1. Init => TypeInv /\ Counted
  <2> SUFFICES ASSUME Init PROVE TypeInv /\ Counted
    OBVIOUS
  <2>1. TypeInv
    BY TypesBegin
  <2>2. CableDropped \in Nat
    BY <2>1, CableCounts DEF TypeInv, CountsAdd
  <2> QED BY <2>1, <2>2 DEF Init, CaptureInit, Counted, CountedByCables
<1>2. TypeInv /\ Counted /\ [Next]_vars => (TypeInv /\ Counted)'
  BY TypesKept, LossCounted
<1>3. TypeInv /\ Counted /\ [Next]_vars => [lost > 0 /\ lost' = 0 /\ ~ forgotten => polled'.count >= lost]_vars
  BY TypesKept, LossCounted DEF Reported
<1> QED BY <1>1, <1>2, <1>3, PTL DEF Spec, LossIsReported

-----------------------------------------------------------------------------
(* The end of a cable that is closed is silent                             *)

\* What a poll of CoreMIDI hands over of the channel.
HandedFrames == {f \in AllFrames : Handed(f)}

\* What a poll hands over of the channel.
LEMMA HandedTyped == channel \in Seq(AllFrames) => HandedUpTo[Len(channel)] \in Seq(HandedFrames)
<1> SUFFICES ASSUME channel \in Seq(AllFrames) PROVE HandedUpTo[Len(channel)] \in Seq(HandedFrames)
  OBVIOUS
<1> DEFINE Values == Seq(HandedFrames)
           Taken(i, s) == IF Handed(channel[i]) THEN Append(s, channel[i]) ELSE s
           Add == [x \in (1..Len(channel)) \X Values |-> Taken(x[1], x[2])]
<1>1. PICK last \in Nat : last = Len(channel)
  OBVIOUS
<1>2. <<>> \in Values
  OBVIOUS
<1>3. ASSUME NEW i \in 1..last, NEW s \in Values PROVE Taken(i, s) \in Values
  <2>1. channel[i] \in AllFrames
    BY <1>1
  <2>2. CASE Handed(channel[i])
    <3>1. channel[i] \in HandedFrames
      BY <2>1, <2>2 DEF HandedFrames
    <3> QED BY <2>2, <3>1, AppendProperties
  <2>3. CASE ~ Handed(channel[i])
    BY <2>3
  <2> QED BY <2>2, <2>3
<1> HIDE DEF Values, Taken
<1>4. Add \in [(1..last) \X Values -> Values]
  BY <1>1, <1>3
<1> HIDE DEF Add
<1>5. PICK f : Takes(f, last, Values, <<>>, Add)
  <2>1. PICK W : W = Values
    OBVIOUS
  <2>2. PICK step \in [(1..last) \X W -> W] : step = Add
    BY <1>4, <2>1
  <2>3. PICK a \in W : a = <<>>
    BY <1>2, <2>1
  <2>4. PICK f : Takes(f, last, W, a, step)
    BY Recursion
  <2> QED BY <2>1, <2>2, <2>3, <2>4
<1>6. f \in [0..last -> Values] /\ f[0] = <<>> /\ \A n \in 1..last : f[n] = Add[<<n, f[n - 1]>>]
  BY <1>5 DEF Takes
<1>7. ASSUME NEW n \in 1..last PROVE f[n] = Taken(n, f[n - 1])
  <2>1. <<n, f[n - 1]>> \in (1..Len(channel)) \X Values
    BY <1>1, <1>6
  <2> QED BY <1>6, <2>1 DEF Add
<1>8. f = [i \in 0..Len(channel) |-> IF i = 0 THEN <<>> ELSE Taken(i, f[i - 1])]
  <2>1. \A i \in 0..last : f[i] = IF i = 0 THEN <<>> ELSE Taken(i, f[i - 1])
    BY SMTT(20), <1>6, <1>7
  <2> QED BY <1>1, <1>6, <2>1
<1>9. HandedUpTo = [i \in 0..Len(channel) |-> IF i = 0 THEN <<>> ELSE Taken(i, HandedUpTo[i - 1])]
  BY <1>8 DEF HandedUpTo, Taken
<1>10. HandedUpTo \in [0..last -> Values]
  <2>1. PICK e : e = HandedUpTo
    OBVIOUS
  <2>2. e[0] \in Values /\ DOMAIN e = 0..last /\ e = [i \in DOMAIN e |-> e[i]]
    BY <1>1, <1>2, <1>9, <2>1
  <2>3. ASSUME NEW n \in 1..last, e[n - 1] \in Values PROVE e[n] \in Values
    <3>1. e[n] = Taken(n, e[n - 1])
      BY <1>1, <1>9, <2>1
    <3> QED BY <1>3, <2>3, <3>1
  <2>4. PICK W : W = Values
    OBVIOUS
  <2>5. e \in [0..last -> W]
    BY <2>2, <2>3, <2>4, Typed
  <2> QED BY <2>1, <2>4, <2>5
<1>11. last \in 0..last
  OBVIOUS
<1> QED BY <1>1, <1>10, <1>11 DEF Values

\* A frame a poll may hand over: not of a cable, or of one that is open.
Heard == {f \in AllFrames : f.port[1] = "cin" => f.port \in granted}

\* A device that is not closed is heard.
LEMMA DevicesHeard == DeviceFrames \subseteq Heard
BY DEF DeviceFrames, Heard, AllFrames, Frames, InputIds

\* What the cables hold is heard.
LEMMA CablesHeard == TypeInv /\ GrantedInv => CableEvents \in Seq(Heard)
<1> SUFFICES ASSUME TypeInv, GrantedInv PROVE CableEvents \in Seq(Heard)
  OBVIOUS
<1>1. Queued \subseteq Heard
  <2> SUFFICES ASSUME NEW f \in Queued PROVE f \in Heard
    OBVIOUS
  <2>1. PICK c \in DOMAIN cables : f.port = <<"cin", c>> /\ cables[c].in_port
    BY DEF Queued
  <2>2. c \in 1..MaxCables
    BY CaptureAssumption DEF TypeInv, CableTypes
  <2>3. <<"cin", c>> \in granted
    BY <2>1, <2>2 DEF GrantedInv, CablesGranted, CinOpen
  <2> QED BY <2>1, <2>3 DEF Heard, Queued
<1>2. PICK q \in Seq(Queued) : q = CableEvents
  BY CableEventsTyped DEF TypeInv
<1>3. \A i \in 1..Len(q) : q[i] \in Heard
  <2>1. \A i \in 1..Len(q) : q[i] \in Queued
    OBVIOUS
  <2> QED BY <1>1, <2>1
<1>4. q = [i \in 1..Len(q) |-> q[i]] /\ Len(q) \in Nat
  OBVIOUS
<1>5. q \in Seq(Heard)
  BY <1>3, <1>4
<1> QED BY <1>2, <1>5

\* What the devices sent is heard.
LEMMA QueueHeard == ASSUME NEW q \in Seq(DeviceFrames) PROVE q \in Seq(Heard)
<1>1. \A i \in 1..Len(q) : q[i] \in Heard
  <2>1. \A i \in 1..Len(q) : q[i] \in DeviceFrames
    OBVIOUS
  <2> QED BY <2>1, DevicesHeard
<1>2. q = [i \in 1..Len(q) |-> q[i]] /\ Len(q) \in Nat
  OBVIOUS
<1> QED BY <1>1, <1>2

\* What a poll hands over of the channel is heard.
LEMMA HandedHeard == TypeInv /\ GrantedInv => HandedUpTo[Len(channel)] \in Seq(Heard)
<1> SUFFICES ASSUME TypeInv, GrantedInv PROVE HandedUpTo[Len(channel)] \in Seq(Heard)
  OBVIOUS
<1>1. HandedFrames \subseteq Heard
  <2> SUFFICES ASSUME NEW f \in HandedFrames, f.port[1] = "cin" PROVE f.port \in granted
    BY DEF Heard, HandedFrames
  <2>1. f \in AllFrames /\ f.port[2] \in DOMAIN cables /\ cables[f.port[2]].in_port
    BY DEF HandedFrames, Handed
  <2>2. PICK c \in DOMAIN cables : c = f.port[2]
    BY <2>1
  <2>3. f.port = <<"cin", c>>
    BY <2>1, <2>2 DEF AllFrames, Frames
  <2>4. c \in 1..MaxCables
    BY CaptureAssumption DEF TypeInv, CableTypes
  <2> QED BY <2>1, <2>2, <2>3, <2>4 DEF GrantedInv, CablesGranted, CinOpen
<1>2. PICK q \in Seq(HandedFrames) : q = HandedUpTo[Len(channel)]
  BY HandedTyped DEF TypeInv, ChannelTypes
<1>3. \A i \in 1..Len(q) : q[i] \in Heard
  <2>1. \A i \in 1..Len(q) : q[i] \in HandedFrames
    OBVIOUS
  <2> QED BY <1>1, <2>1
<1>4. q = [i \in 1..Len(q) |-> q[i]] /\ Len(q) \in Nat
  OBVIOUS
<1>5. q \in Seq(Heard)
  BY <1>3, <1>4
<1> QED BY <1>2, <1>5

\* What a poll returned last, if it is new.
SilentStep == polled' # polled => polled'.events \in Seq(Heard)

\* No step hands over what a closed cable sent.
LEMMA StepsAreSilent == TypeInv /\ GrantedInv /\ [Next]_vars => SilentStep
<1> SUFFICES ASSUME TypeInv, GrantedInv, [Next]_vars PROVE SilentStep
  OBVIOUS
<1> USE DEF captureVars, frameVars, cableVars, winVars, dumpVars, sendVars, wmsVars, coreVars, nullVars
<1>1. ASSUME polled' = polled PROVE SilentStep
  BY <1>1 DEF SilentStep
<1>2. ASSUME NEW q \in Seq(DeviceFrames), NEW events, NEW count, Polled(events, count),
             events = q \o CableEvents \/ events = CableEvents \o q
      PROVE  SilentStep
  <2>1. PICK p \in Seq(Heard) : p = q
    BY QueueHeard
  <2>2. PICK e \in Seq(Heard) : e = CableEvents
    BY CablesHeard
  <2>3. p \o e \in Seq(Heard) /\ e \o p \in Seq(Heard)
    BY ConcatProperties
  <2> QED BY <1>2, <2>1, <2>2, <2>3 DEF SilentStep, Polled
<1>3. backend # "coremidi" => channel \in Seq(DeviceFrames)
  BY DEF TypeInv, ChannelTypes
<1>4. ASSUME backend = "winmm", WinMmStep PROVE SilentStep
  <2>1. ASSUME PollWinMm PROVE SilentStep
    BY <1>2, <1>3, <1>4, <2>1 DEF PollWinMm
  <2>2. ASSUME NEW id \in InputIds, \/ OpenInput(id) \/ BeginClose(id) \/ FinishClose(id) \/ PushFrame(id)
                                    \/ DriverCalls(id) \/ Unheard(id)
        PROVE  polled' = polled
    BY <2>2 DEF OpenInput, BeginClose, FinishClose, PushFrame, DriverCalls, ShortCallback, LongCallback, Called, Unheard
  <2>3. ASSUME NEW id \in OutputIds, OpenOutput(id) \/ CloseOutput(id) \/ BeginLong(id) PROVE polled' = polled
    BY <2>3 DEF OpenOutput, CloseOutput, BeginLong
  <2>4. ASSUME DriverDone \/ LongDone \/ LongTimeout \/ GiveUp PROVE polled' = polled
    BY <2>4 DEF DriverDone, LongDone, LongTimeout, GiveUp
  <2> QED BY <1>1, <1>4, <2>1, <2>2, <2>3, <2>4 DEF WinMmStep, DriverCalls
<1>5. ASSUME backend = "wms", WmsStep PROVE SilentStep
  <2>1. ASSUME PollWms PROVE SilentStep
    BY <1>2, <1>3, <1>5, <2>1 DEF PollWms
  <2>2. ASSUME NEW d \in WmsDevices,
               OpenWmsInput(d) \/ OpenWmsOutput(d) \/ CloseWmsInput(d) \/ CloseWmsOutput(d) \/ PushPacket(d)
               \/ \E batch \in {<<"short", "short">>, <<"short", "bad", "short">>} : Received(d, batch)
        PROVE  polled' = polled
    BY <2>2 DEF OpenWmsInput, OpenWmsOutput, CloseWmsInput, CloseWmsOutput, Received, PushPacket
  <2> QED BY <1>1, <1>5, <2>1, <2>2 DEF WmsStep
<1>6. ASSUME CoreMidiStep PROVE SilentStep
  <2>1. ASSUME PollCoreMidi PROVE SilentStep
    BY <2>1, HandedHeard DEF PollCoreMidi, Polled, SilentStep
  <2>2. ASSUME CreateVirtual \/ \E c \in DOMAIN cables : RemoveVirtual(c) \/ OpenVirtual(c) \/ CloseVirtual(c) \/ VirtualArmed(c)
        PROVE  polled' = polled
    BY <2>2 DEF CreateVirtual, RemoveVirtual, OpenVirtual, CloseVirtual, VirtualArmed
  <2>3. ASSUME (\E c \in passed : VirtualPush(c))
               \/ \E id \in {<<"in", 1>>} : OpenSource(id) \/ CloseSource(id) \/ SourceCallback(id)
        PROVE  polled' = polled
    BY <2>3 DEF VirtualPush, OpenSource, CloseSource, SourceCallback
  <2> QED BY <1>1, <1>6, <2>1, <2>2, <2>3 DEF CoreMidiStep
<1>7. ASSUME NullStep PROVE SilentStep
  <2>1. ASSUME PollNull PROVE SilentStep
    BY <1>2, <2>1 DEF PollNull, TypeInv, DeviceTypes
  <2>2. ASSUME (\E id \in {<<"in", 1>>, <<"out", 1>>} : OpenNull(id) \/ CloseNull(id)) \/ Inject PROVE polled' = polled
    BY <2>2 DEF OpenNull, CloseNull, Inject
  <2> QED BY <1>1, <1>7, <2>1, <2>2 DEF NullStep
<1>8. ASSUME CableStep PROVE SilentStep
  <2>1. ASSUME NEW c \in DOMAIN cables,
               RemoveCable(c) \/ OpenCableInput(c) \/ CloseCableInput(c) \/ OpenCableOutput(c) \/ CloseCableOutput(c)
               \/ \E parts \in {<<"short">>, <<"first", "last">>} : SendCable(c, parts)
        PROVE  polled' = polled
    BY <2>1 DEF RemoveCable, OpenCableInput, CloseCableInput, OpenCableOutput, CloseCableOutput, SendCable
  <2>2. CreateCable => polled' = polled
    BY DEF CreateCable
  <2> QED BY <1>1, <1>8, <2>1, <2>2 DEF CableStep
<1>9. CASE UNCHANGED vars
  BY <1>1, <1>9 DEF vars
<1>10. CASE Next
  BY <1>4, <1>5, <1>6, <1>7, <1>8, <1>10 DEF Next, WinMmOnly
<1> QED BY <1>9, <1>10

\* A poll hands over nothing for the end of a cable, or of a virtual port,
\* that is closed, although messages were queued for it or a callback was
\* under way when it closed (close_input and poll of loopback.rs and
\* coremidi.rs).
THEOREM ClosedEndsAreSilent == Spec => ClosedCablesAreSilent
<1>1. Init => TypeInv /\ GrantedInv
  BY TypesBegin, GrantsBegin
<1>2. TypeInv /\ GrantedInv /\ [Next]_vars => (TypeInv /\ GrantedInv)'
  BY TypesKept, GrantsKept
<1>3. TypeInv /\ GrantedInv /\ [Next]_vars
      => [polled' # polled => \A i \in DOMAIN polled'.events :
            polled'.events[i].port[1] = "cin" => polled'.events[i].port \in granted]_vars
  <2> SUFFICES ASSUME TypeInv, GrantedInv, [Next]_vars, polled' # polled, NEW i \in DOMAIN polled'.events,
                      polled'.events[i].port[1] = "cin"
               PROVE  polled'.events[i].port \in granted
    OBVIOUS
  <2>1. PICK q \in Seq(Heard) : q = polled'.events
    BY StepsAreSilent DEF SilentStep
  <2>2. q[i] \in Heard
    BY <2>1
  <2> QED BY <2>1, <2>2 DEF Heard
<1> QED BY <1>1, <1>2, <1>3, PTL DEF Spec, ClosedCablesAreSilent

-----------------------------------------------------------------------------
(* A dump is torn for a named cause only.  Unless there was one, what a    *)
(* WinMM input has in the channel and its callback has still to push takes *)
(* the parser on without a tear, to where the device itself is while it is *)
(* heard, and out of any dump once its input is closed.                    *)

DumpStates == Seq(DeviceFrames)
Parsers == [{} -> DumpStates] \cup [InputIds -> DumpStates]
Dump(ps) == IF In \in DOMAIN ps THEN ps[In] ELSE <<>>
Nows == [parsers : Parsers, torn : BOOLEAN]

\* A frame takes a parser from one dump state to the next.
Fed(dump, frame) == IF frame.part = "short" THEN dump ELSE Parsed(dump, frame)

\* The frames of q take a parser from a to b, and tear no dump.
Leads(g, q) == \A i \in 1..Len(q) : g[i] = Fed(g[i - 1], q[i]) /\ ~ Tears(g[i - 1], q[i])
Run(a, q, b) == \E g \in [0..Len(q) -> DumpStates] : g[0] = a /\ g[Len(q)] = b /\ Leads(g, q)

\* A parser that knows no more than the dump the device is sending.
Awaits(e, s) ==
  \/ e = <<>>
  \/ s.pos = 1 /\ e = <<Frame(In, s.n, "first")>>
  \/ s.pos = 2 /\ e = <<Frame(In, s.n, "first"), Frame(In, s.n, "middle")>>

\* A sequence with one element more, element by element.
LEMMA Appended ==
  ASSUME NEW S, NEW q \in Seq(S), NEW x \in S, NEW e, e = Append(q, x)
  PROVE  e \in Seq(S) /\ Len(e) = Len(q) + 1 /\ (\A i \in 1..Len(q) : e[i] = q[i]) /\ e[Len(q) + 1] = x
BY AppendProperties

\* A frame leaves a parser in a dump state.
LEMMA FedTyped ==
  ASSUME NEW dump \in DumpStates, NEW frame \in DeviceFrames
  PROVE  Fed(dump, frame) \in DumpStates
<1>1. <<frame>> \in Seq(DeviceFrames) /\ Append(dump, frame) \in Seq(DeviceFrames) /\ <<>> \in Seq(DeviceFrames)
  BY AppendProperties DEF DumpStates
<1> QED BY <1>1 DEF Fed, Parsed, DumpStates

\* Nothing leaves a parser where it is.
LEMMA RunOfNothing ==
  ASSUME NEW a \in DumpStates
  PROVE  Run(a, <<>>, a)
<1>1. PICK g \in [0..0 -> DumpStates] : g[0] = a
  <2>1. [i \in 0..0 |-> a] \in [0..0 -> DumpStates] /\ [i \in 0..0 |-> a][0] = a
    OBVIOUS
  <2> QED BY <2>1
<1>2. Len(<<>>) = 0
  OBVIOUS
<1>3. Leads(g, <<>>)
  BY <1>2 DEF Leads
<1> QED BY <1>1, <1>2, <1>3 DEF Run

\* A run goes on with a frame that tears nothing.
LEMMA RunGoesOn ==
  ASSUME NEW q \in Seq(DeviceFrames), NEW f \in DeviceFrames, NEW a, NEW b \in DumpStates, Run(a, q, b), ~ Tears(b, f),
         NEW r, r = Append(q, f)
  PROVE  Run(a, r, Fed(b, f))
<1>1. PICK m \in Nat : m = Len(q)
  OBVIOUS
<1>2. PICK g \in [0..m -> DumpStates] : g[0] = a /\ g[m] = b /\ Leads(g, q)
  BY <1>1 DEF Run
<1>3. PICK c \in DumpStates : c = Fed(b, f)
  BY FedTyped
<1>4. r \in Seq(DeviceFrames) /\ Len(r) = m + 1 /\ (\A i \in 1..m : r[i] = q[i]) /\ r[m + 1] = f
  <2>1. r \in Seq(DeviceFrames) /\ Len(r) = Len(q) + 1 /\ (\A i \in 1..Len(q) : r[i] = q[i]) /\ r[Len(q) + 1] = f
    BY Appended
  <2> QED BY <1>1, <2>1
<1>5. PICK h \in [0..(m + 1) -> DumpStates] : h = [i \in 0..(m + 1) |-> IF i = m + 1 THEN c ELSE g[i]]
  <2>1. \A i \in 0..(m + 1) : (IF i = m + 1 THEN c ELSE g[i]) \in DumpStates
    BY <1>2, <1>3
  <2> QED BY <2>1
<1>6. h[0] = a /\ h[m + 1] = c /\ \A i \in 0..m : h[i] = g[i]
  BY <1>2, <1>5
<1>7. ASSUME NEW i \in 1..(m + 1) PROVE h[i] = Fed(h[i - 1], r[i]) /\ ~ Tears(h[i - 1], r[i])
  <2>1. CASE i = m + 1
    <3>1. h[i] = c /\ h[i - 1] = b /\ r[i] = f
      BY <1>2, <1>4, <1>6, <2>1
    <3> QED BY <1>3, <3>1
  <2>2. CASE i # m + 1
    <3>1. i \in 1..m /\ i - 1 \in 0..m /\ i \in 0..m
      BY <2>2
    <3>2. g[i] = Fed(g[i - 1], q[i]) /\ ~ Tears(g[i - 1], q[i])
      BY <1>1, <1>2, <3>1 DEF Leads
    <3> QED BY <1>4, <1>6, <3>1, <3>2
  <2> QED BY <2>1, <2>2
<1>8. Leads(h, r)
  BY <1>4, <1>7 DEF Leads
<1> QED BY <1>3, <1>4, <1>6, <1>8 DEF Run

\* The two parts of a dump, and what ends it.
LEMMA TwoParts ==
  ASSUME NEW f \in DeviceFrames, NEW g \in DeviceFrames
  PROVE  /\ <<f>> \in DumpStates /\ <<f, g>> \in DumpStates /\ Append(<<f>>, g) = <<f, g>>
         /\ <<f>> # <<>> /\ <<f, g>> # <<>> /\ Len(<<f, g>>) = 2 /\ <<f, g>>[1] = f /\ <<f, g>>[2] = g
<1>1. PICK a : a = <<f>>
  OBVIOUS
<1>2. a \in Seq(DeviceFrames) /\ Len(a) = 1 /\ a[1] = f
  BY <1>1
<1>3. PICK e : e = Append(a, g)
  OBVIOUS
<1>4. e \in Seq(DeviceFrames) /\ Len(e) = Len(a) + 1 /\ (\A n \in 1..Len(a) : e[n] = a[n]) /\ e[Len(a) + 1] = g
  BY <1>2, <1>3, Appended
<1>5. e \in Seq(DeviceFrames) /\ Len(e) = 2 /\ e[1] = f /\ e[2] = g
  BY <1>2, <1>4
<1>6. PICK c : c = <<f, g>>
  OBVIOUS
<1>7. c \in Seq(DeviceFrames) /\ Len(c) = 2 /\ c[1] = f /\ c[2] = g
  BY <1>6
<1>8. c = e
  <2>1. Len(c) = Len(e) /\ \A n \in 1..Len(c) : c[n] = e[n]
    BY <1>5, <1>7
  <2> QED BY <1>5, <1>7, <2>1, SeqEqual
<1>9. Len(<<>>) = 0
  OBVIOUS
<1>10. a # <<>> /\ c # <<>>
  BY <1>2, <1>7, <1>9
<1> QED BY <1>1, <1>2, <1>3, <1>6, <1>7, <1>8, <1>10 DEF DumpStates

\* Two frames more, one by one.
LEMMA TwoMore ==
  ASSUME NEW b \in Seq(DeviceFrames), NEW f \in DeviceFrames, NEW g \in DeviceFrames
  PROVE  Append(Append(b, f), g) = b \o <<f, g>>
<1>1. PICK u \in Seq(DeviceFrames), v \in Seq(DeviceFrames) : u = <<f>> /\ v = <<g>>
  <2>1. <<f>> \in Seq(DeviceFrames) /\ <<g>> \in Seq(DeviceFrames)
    OBVIOUS
  <2> QED BY <2>1
<1>2. Append(b, f) = b \o u /\ Append(u, g) = u \o v
  BY <1>1, AppendIsConcat
<1>3. b \o u \in Seq(DeviceFrames)
  BY ConcatProperties
<1>4. Append(b \o u, g) = (b \o u) \o v
  BY <1>1, <1>3, AppendIsConcat
<1>5. (b \o u) \o v = b \o (u \o v)
  BY ConcatAssociative
<1>6. Append(<<f>>, g) = <<f, g>>
  BY TwoParts
<1> QED BY <1>1, <1>2, <1>4, <1>5, <1>6

\* A third frame more.
LEMMA ThreeMore ==
  ASSUME NEW b \in Seq(DeviceFrames), NEW f \in DeviceFrames, NEW g \in DeviceFrames, NEW k \in DeviceFrames
  PROVE  Append(b \o <<f, g>>, k) = b \o <<f, g, k>>
<1>1. PICK u \in Seq(DeviceFrames), v \in Seq(DeviceFrames) : u = <<f, g>> /\ v = <<k>>
  <2>1. <<f, g>> \in Seq(DeviceFrames) /\ <<k>> \in Seq(DeviceFrames)
    OBVIOUS
  <2> QED BY <2>1
<1>2. b \o u \in Seq(DeviceFrames) /\ Append(u, k) = u \o v
  BY <1>1, AppendIsConcat, ConcatProperties
<1>3. Append(b \o u, k) = (b \o u) \o v
  BY <1>1, <1>2, AppendIsConcat
<1>4. (b \o u) \o v = b \o (u \o v)
  BY ConcatAssociative
<1>5. PICK e : e = Append(u, k)
  OBVIOUS
<1>6. u \in Seq(DeviceFrames) /\ Len(u) = 2 /\ u[1] = f /\ u[2] = g
  BY <1>1
<1>7. e \in Seq(DeviceFrames) /\ Len(e) = Len(u) + 1 /\ (\A n \in 1..Len(u) : e[n] = u[n]) /\ e[Len(u) + 1] = k
  BY <1>5, Appended
<1>8. Len(e) = 3 /\ e[1] = f /\ e[2] = g /\ e[3] = k
  BY <1>6, <1>7
<1>9. PICK c : c = <<f, g, k>>
  OBVIOUS
<1>10. c \in Seq(DeviceFrames) /\ Len(c) = 3 /\ c[1] = f /\ c[2] = g /\ c[3] = k
  BY <1>9
<1>11. c = e
  <2>1. Len(c) = Len(e) /\ \A n \in 1..Len(c) : c[n] = e[n]
    BY <1>8, <1>10
  <2> QED BY <1>7, <1>10, <2>1, SeqEqual
<1> QED BY <1>1, <1>2, <1>3, <1>4, <1>5, <1>9, <1>11

Three(q, f, g, k) == q = [i \in 1..3 |-> q[i]] /\ q[1] = f /\ q[2] = g /\ q[3] = k

\* Three frames in their order.
LEMMA ThreeFrames ==
  ASSUME NEW f \in DeviceFrames, NEW g \in DeviceFrames, NEW k \in DeviceFrames, NEW q, Three(q, f, g, k)
  PROVE  q = <<f, g, k>>
<1> USE DEF Three
<1>1. \A i \in 1..3 : i = 1 \/ i = 2 \/ i = 3
  OBVIOUS
<1>2. \A i \in 1..3 : q[i] \in DeviceFrames
  BY <1>1
<1>3. q \in Seq(DeviceFrames) /\ Len(q) = 3
  BY <1>2
<1>4. PICK t : t = <<f, g, k>>
  OBVIOUS
<1>5. t \in Seq(DeviceFrames) /\ Len(t) = 3 /\ t[1] = f /\ t[2] = g /\ t[3] = k
  BY <1>4
<1>6. Len(q) = Len(t) /\ \A i \in 1..Len(q) : q[i] = t[i]
  BY <1>1, <1>3, <1>5
<1> QED BY <1>3, <1>4, <1>5, <1>6, SeqEqual

\* The next part of the device's dump, wherever the parser stands in it.
LEMMA PartGoesOn ==
  ASSUME NEW n \in Nat, NEW pos \in 0..2, NEW e \in DumpStates, Awaits(e, [n |-> n, pos |-> pos]),
         NEW f, f = Frame(In, n, Whole[pos + 1])
  PROVE  f \in DeviceFrames /\ ~ Tears(e, f) /\ Awaits(Fed(e, f), Sent(n, pos + 1))
<1>1. /\ Whole[1] = "first" /\ Whole[2] = "middle" /\ Whole[3] = "last" /\ Len(Whole) = 3
  BY DEF Whole
<1>2. PICK one \in DeviceFrames, two \in DeviceFrames, three \in DeviceFrames :
        one = Frame(In, n, "first") /\ two = Frame(In, n, "middle") /\ three = Frame(In, n, "last")
  BY DEF Frame, DeviceFrames, Frames, Parts, InputIds, In
<1>3. /\ one.part = "first" /\ two.part = "middle" /\ three.part = "last"
      /\ [three EXCEPT !.part = "first"] = one /\ [three EXCEPT !.part = "middle"] = two
  BY <1>2 DEF Frame
<1>4. PICK s : s = [n |-> n, pos |-> pos] /\ s.n = n /\ s.pos = pos
  OBVIOUS
<1>5. e = <<>> \/ (pos = 1 /\ e = <<one>>) \/ (pos = 2 /\ e = <<one, two>>)
  BY <1>2, <1>4 DEF Awaits
<1>6. CASE pos = 0
  <2>1. e = <<>> /\ f = one
    BY <1>1, <1>2, <1>5, <1>6
  <2>2. Fed(e, f) = <<one>> /\ ~ Tears(e, f)
    BY <1>3, <2>1 DEF Fed, Parsed, Tears
  <2>3. Sent(n, pos + 1) = [n |-> n, pos |-> 1]
    BY <1>1, <1>6 DEF Sent
  <2> QED BY <1>2, <2>1, <2>2, <2>3 DEF Awaits
<1>7. CASE pos = 1
  <2>1. (e = <<>> \/ e = <<one>>) /\ f = two
    BY <1>1, <1>2, <1>5, <1>7
  <2>2. ~ Tears(e, f)
    BY <1>3, <2>1 DEF Tears
  <2>3. e = <<>> => Fed(e, f) = <<>>
    BY <1>3, <2>1 DEF Fed, Parsed
  <2>4. e = <<one>> => Fed(e, f) = <<one, two>>
    <3> SUFFICES ASSUME e = <<one>> PROVE Fed(e, f) = <<one, two>>
      OBVIOUS
    <3>1. <<one>> # <<>> /\ Append(<<one>>, two) = <<one, two>>
      BY TwoParts
    <3>2. Fed(e, f) = Append(e, f)
      BY <1>3, <2>1, <3>1 DEF Fed, Parsed
    <3> QED BY <2>1, <3>1, <3>2
  <2>5. Sent(n, pos + 1) = [n |-> n, pos |-> 2]
    BY <1>1, <1>7 DEF Sent
  <2> QED BY <1>2, <2>1, <2>2, <2>3, <2>4, <2>5 DEF Awaits
<1>8. CASE pos = 2
  <2>1. (e = <<>> \/ e = <<one, two>>) /\ f = three
    BY <1>1, <1>2, <1>5, <1>8
  <2>2. ~ Tears(e, f)
    <3>1. <<one, two>> # <<>> /\ Len(<<one, two>>) = 2 /\ <<one, two>>[1] = one /\ <<one, two>>[2] = two
      BY TwoParts
    <3>2. CASE e = <<>>
      BY <3>2 DEF Tears
    <3>3. CASE e = <<one, two>>
      <4>1. Len(e) = 2 /\ e[1] = one /\ e[2] = two
        BY <3>1, <3>3
      <4> QED BY <1>3, <2>1, <4>1 DEF Tears
    <3> QED BY <2>1, <3>2, <3>3
  <2>3. Fed(e, f) = <<>>
    BY <1>3, <2>1 DEF Fed, Parsed
  <2> QED BY <1>2, <2>1, <2>2, <2>3 DEF Awaits
<1> QED BY <1>6, <1>7, <1>8

\* A run to where the device is goes on with the parts of a buffer.
LEMMA BufferGoesOn ==
  ASSUME NEW n \in Nat, NEW pos \in 0..2, NEW size \in 1..3, pos + size <= 3,
         NEW b \in Seq(DeviceFrames), NEW a, NEW e \in DumpStates, Run(a, b, e), Awaits(e, [n |-> n, pos |-> pos]),
         NEW q, q = [i \in 1..size |-> Frame(In, n, Whole[pos + i])]
  PROVE  \E h \in DumpStates : Run(a, b \o q, h) /\ Awaits(h, Sent(n, pos + size))
<1>1. ASSUME NEW p \in 0..2, NEW c \in Seq(DeviceFrames), NEW d \in DumpStates, Run(a, c, d),
             Awaits(d, [n |-> n, pos |-> p]), NEW f, f = Frame(In, n, Whole[p + 1])
      PROVE  /\ f \in DeviceFrames /\ Append(c, f) \in Seq(DeviceFrames)
             /\ \E h \in DumpStates : Run(a, Append(c, f), h) /\ Awaits(h, Sent(n, p + 1))
  <2>1. f \in DeviceFrames /\ ~ Tears(d, f) /\ Awaits(Fed(d, f), Sent(n, p + 1))
    BY <1>1, PartGoesOn
  <2>2. PICK h \in DumpStates : h = Fed(d, f)
    BY <2>1, FedTyped
  <2>3. Run(a, Append(c, f), h)
    BY <1>1, <2>1, <2>2, RunGoesOn
  <2>4. Append(c, f) \in Seq(DeviceFrames)
    BY <2>1, AppendProperties
  <2> QED BY <2>1, <2>2, <2>3, <2>4
<1>2. ASSUME NEW p \in {1, 2} PROVE Sent(n, p) = [n |-> n, pos |-> p]
  BY DEF Sent, Whole
<1>3. PICK f : f = Frame(In, n, Whole[pos + 1])
  OBVIOUS
<1>4. PICK c \in Seq(DeviceFrames), d \in DumpStates : c = Append(b, f) /\ Run(a, c, d) /\ Awaits(d, Sent(n, pos + 1))
  BY <1>1, <1>3
<1>5. f \in DeviceFrames
  BY <1>1, <1>3
<1>6. CASE size = 1
  <2>1. q = <<f>>
    BY <1>3, <1>6
  <2>2. b \o q = c
    BY <1>4, <1>5, <2>1, AppendIsConcat
  <2> QED BY <1>4, <1>6, <2>2
<1>7. CASE size >= 2
  <2>1. PICK p \in 0..2 : p = pos + 1 /\ p \in {1, 2} /\ p + 1 = pos + 2
    BY <1>7
  <2>2. Awaits(d, [n |-> n, pos |-> p])
    BY <1>2, <1>4, <2>1
  <2>3. PICK g : g = Frame(In, n, Whole[p + 1])
    OBVIOUS
  <2>9. /\ g \in DeviceFrames
        /\ \E h \in DumpStates : Run(a, Append(c, g), h) /\ Awaits(h, Sent(n, p + 1))
        /\ Append(c, g) \in Seq(DeviceFrames)
    BY <1>1, <1>4, <2>2, <2>3
  <2>4. PICK c2 \in Seq(DeviceFrames), d2 \in DumpStates :
          c2 = Append(c, g) /\ Run(a, c2, d2) /\ Awaits(d2, Sent(n, p + 1))
    BY <2>9
  <2>5. g \in DeviceFrames
    BY <2>9
  <2>6. c2 = b \o <<f, g>>
    BY <1>4, <1>5, <2>4, <2>5, TwoMore
  <2>7. CASE size = 2
    <3>1. q = <<f, g>>
      BY <1>3, <2>1, <2>3, <2>7
    <3> QED BY <2>1, <2>4, <2>6, <2>7, <3>1
  <2>8. CASE size = 3
    <3>1. pos = 0
      BY <2>8
    <3>8. PICK r \in 0..2 : r = 2 /\ r = p + 1 /\ r + 1 = 3
      BY <2>1, <3>1
    <3>2. Awaits(d2, [n |-> n, pos |-> r])
      BY <1>2, <2>4, <3>8
    <3>3. PICK k : k = Frame(In, n, Whole[r + 1])
      OBVIOUS
    <3>9. /\ k \in DeviceFrames
          /\ \E h \in DumpStates : Run(a, Append(c2, k), h) /\ Awaits(h, Sent(n, r + 1))
          /\ Append(c2, k) \in Seq(DeviceFrames)
      BY <1>1, <2>4, <3>2, <3>3
    <3>4. PICK c3 \in Seq(DeviceFrames), d3 \in DumpStates :
            c3 = Append(c2, k) /\ Run(a, c3, d3) /\ Awaits(d3, Sent(n, r + 1))
      BY <3>9
    <3>5. k \in DeviceFrames
      BY <3>9
    <3>6. q = <<f, g, k>>
      <4>1. q = [i \in 1..3 |-> q[i]]
        BY <2>8
      <4>2. q[1] = f
        BY <1>3, <2>8, <3>1
      <4>3. q[2] = g
        BY <2>1, <2>3, <2>8, <3>1
      <4>4. q[3] = k
        BY <2>8, <3>1, <3>3, <3>8
      <4>5. Three(q, f, g, k)
        BY <4>1, <4>2, <4>3, <4>4 DEF Three
      <4> QED BY Zenon, <1>5, <2>5, <3>5, <4>5, ThreeFrames
    <3>7. c3 = b \o <<f, g, k>>
      <4>1. Append(b \o <<f, g>>, k) = b \o <<f, g, k>>
        BY <1>5, <2>5, <3>5, ThreeMore
      <4> QED BY <2>6, <3>4, <4>1
    <3>10. pos + size = r + 1
      BY <2>8, <3>1, <3>8
    <3> QED BY <3>4, <3>6, <3>7, <3>10
  <2>10. size = 2 \/ size = 3
    BY <1>7
  <2> QED BY Zenon, <2>7, <2>8, <2>10
<1>8. size = 1 \/ size >= 2
  OBVIOUS
<1> QED BY Zenon, <1>6, <1>7, <1>8

\* A run can be cut after some of its frames.
LEMMA RunIsCut ==
  ASSUME NEW a \in Seq(DeviceFrames), NEW b \in Seq(DeviceFrames), NEW q, q = a \o b,
         NEW g \in [0..Len(q) -> DumpStates], Leads(g, q)
  PROVE  /\ Len(q) = Len(a) + Len(b) /\ \A i \in 1..Len(a) : q[i] = a[i]
         /\ Run(g[Len(a)], b, g[Len(q)])
<1>1. PICK m \in Nat, n \in Nat : m = Len(a) /\ n = Len(b)
  OBVIOUS
<1>2. Len(q) = m + n /\ (\A i \in 1..m : q[i] = a[i]) /\ (\A i \in 1..n : q[m + i] = b[i])
  <2>1. /\ Len(a \o b) = Len(a) + Len(b)
        /\ \A i \in 1..Len(a) + Len(b) : (a \o b)[i] = IF i <= Len(a) THEN a[i] ELSE b[i - Len(a)]
    BY ConcatProperties
  <2>2. \A i \in 1..(m + n) : q[i] = IF i <= m THEN a[i] ELSE b[i - m]
    BY <1>1, <2>1
  <2>3. ASSUME NEW i \in 1..n PROVE q[m + i] = b[i]
    <3>1. m + i \in 1..(m + n) /\ ~ (m + i <= m) /\ (m + i) - m = i
      OBVIOUS
    <3>2. q[m + i] = b[(m + i) - m]
      BY <2>2, <3>1
    <3> QED BY <3>1, <3>2
  <2>4. ASSUME NEW i \in 1..m PROVE q[i] = a[i]
    <3>1. i \in 1..(m + n) /\ i <= m
      OBVIOUS
    <3> QED BY <2>2, <3>1
  <2> QED BY <1>1, <2>1, <2>3, <2>4
<1>3. g \in [0..(m + n) -> DumpStates] /\ \A i \in 1..(m + n) : g[i] = Fed(g[i - 1], q[i]) /\ ~ Tears(g[i - 1], q[i])
  BY <1>2 DEF Leads
<1>4. PICK h \in [0..n -> DumpStates] : h = [i \in 0..n |-> g[m + i]]
  <2>1. \A i \in 0..n : g[m + i] \in DumpStates
    BY <1>3
  <2> QED BY <2>1
<1>5. h[0] = g[m] /\ h[n] = g[m + n]
  BY <1>4
<1>6. ASSUME NEW i \in 1..n PROVE h[i] = Fed(h[i - 1], b[i]) /\ ~ Tears(h[i - 1], b[i])
  <2>1. m + i \in 1..(m + n) /\ (m + i) - 1 = m + (i - 1) /\ i - 1 \in 0..n
    OBVIOUS
  <2>2. g[m + i] = Fed(g[m + (i - 1)], q[m + i]) /\ ~ Tears(g[m + (i - 1)], q[m + i])
    BY <1>3, <2>1
  <2> QED BY <1>2, <1>4, <2>1, <2>2
<1>7. Leads(h, b)
  BY <1>1, <1>6 DEF Leads
<1> QED BY <1>1, <1>2, <1>5, <1>7 DEF Run

\* A parser that starts again passes over what is left of a dump, and is in
\* none at the end unless the beginning of one is left without its end.
LEMMA RunStartsAgain ==
  ASSUME NEW q \in Seq(DeviceFrames), NEW a, NEW b, Run(a, q, b),
         \A i \in 1..Len(q) : q[i].part = "first" => \E j \in (i + 1)..Len(q) : q[j].part = "last"
  PROVE  Run(<<>>, q, <<>>)
<1>1. PICK m \in Nat : m = Len(q)
  OBVIOUS
<1>2. PICK g \in [0..m -> DumpStates] : Leads(g, q)
  BY <1>1 DEF Run
<1> DEFINE Begun(i) == \E j \in 1..i : q[j].part = "first" /\ \A k \in (j + 1)..i : q[k].part # "last"
<1>3. <<>> \in DumpStates
  BY DEF DumpStates
<1>4. PICK h \in [0..m -> DumpStates] : h = [i \in 0..m |-> IF Begun(i) THEN g[i] ELSE <<>>]
  BY <1>2, <1>3
<1>5. h[0] = <<>>
  BY <1>4
<1>6. h[m] = <<>>
  <2>1. ~ Begun(m)
    BY <1>1
  <2> HIDE DEF Begun
  <2> QED BY <1>4, <2>1
<1>7. ASSUME NEW i \in 1..m PROVE h[i] = Fed(h[i - 1], q[i]) /\ ~ Tears(h[i - 1], q[i])
  <2>1. PICK p \in 0..m : p = i - 1 /\ i = p + 1
    OBVIOUS
  <2>2. PICK f \in DeviceFrames : f = q[i]
    BY <1>1
  <2>3. f.part \in Parts
    BY DEF DeviceFrames, Frames
  <2>4. g[i] = Fed(g[p], f) /\ ~ Tears(g[p], f)
    BY <1>1, <1>2, <2>1, <2>2 DEF Leads
  <2>5. f.part = "first" => Begun(i)
    BY <2>2
  <2>6. f.part = "last" => ~ Begun(i)
    <3> SUFFICES ASSUME f.part = "last", NEW j \in 1..i, q[j].part = "first" PROVE \E k \in (j + 1)..i : q[k].part = "last"
      BY <2>2
    <3>1. j # i
      BY <2>2
    <3>2. i \in (j + 1)..i
      BY <3>1
    <3> QED BY <2>2, <3>2
  <2>7. f.part \in {"short", "middle"} => (Begun(i) <=> Begun(p))
    <3> SUFFICES ASSUME f.part \in {"short", "middle"} PROVE Begun(i) <=> Begun(p)
      OBVIOUS
    <3>1. ASSUME Begun(i) PROVE Begun(p)
      <4>1. PICK j \in 1..i : q[j].part = "first" /\ \A k \in (j + 1)..i : q[k].part # "last"
        BY <3>1
      <4>2. j \in 1..p
        BY <2>1, <2>2, <4>1
      <4>3. \A k \in (j + 1)..p : q[k].part # "last"
        BY <2>1, <4>1
      <4> QED BY <4>1, <4>2, <4>3
    <3>2. ASSUME Begun(p) PROVE Begun(i)
      <4>1. PICK j \in 1..p : q[j].part = "first" /\ \A k \in (j + 1)..p : q[k].part # "last"
        BY <3>2
      <4>2. j \in 1..i
        BY <2>1, <4>1
      <4>3. \A k \in (j + 1)..i : k \in (j + 1)..p \/ k = i
        BY <2>1, <4>1
      <4>4. \A k \in (j + 1)..i : q[k].part # "last"
        BY <2>2, <4>1, <4>3
      <4> QED BY <4>1, <4>2, <4>4
    <3> QED BY <3>1, <3>2
  <2> HIDE DEF Begun
  <2>8. h[i] = (IF Begun(i) THEN g[i] ELSE <<>>) /\ h[p] = (IF Begun(p) THEN g[p] ELSE <<>>)
    BY <1>4
  <2>9. ~ Tears(h[p], f)
    BY <2>4, <2>8 DEF Tears
  <2>10. CASE f.part = "short"
    <3>1. h[i] = h[p]
      BY <2>4, <2>7, <2>8, <2>10 DEF Fed
    <3> QED BY <2>1, <2>2, <2>9, <2>10, <3>1 DEF Fed
  <2>11. CASE f.part = "first"
    <3>1. h[i] = <<f>>
      BY <2>4, <2>5, <2>8, <2>11 DEF Fed, Parsed
    <3> QED BY <2>1, <2>2, <2>9, <2>11, <3>1 DEF Fed, Parsed
  <2>12. CASE f.part = "middle"
    <3>1. CASE Begun(p)
      BY <2>1, <2>2, <2>4, <2>7, <2>8, <2>9, <2>12, <3>1
    <3>2. CASE ~ Begun(p)
      <4>1. h[i] = <<>> /\ h[p] = <<>>
        BY <2>7, <2>8, <2>12, <3>2
      <4>2. Fed(<<>>, f) = <<>>
        BY <2>12 DEF Fed, Parsed
      <4> QED BY <2>1, <2>2, <2>9, <4>1, <4>2
    <3> QED BY <3>1, <3>2
  <2>13. CASE f.part = "last"
    <3>1. h[i] = <<>>
      BY <2>6, <2>8, <2>13
    <3>2. Fed(h[p], f) = <<>>
      BY <2>13 DEF Fed, Parsed
    <3> QED BY <2>1, <2>2, <2>9, <3>1, <3>2
  <2> QED BY <2>3, <2>10, <2>11, <2>12, <2>13 DEF Parts
<1>8. Leads(h, q)
  <2> HIDE DEF Begun
  <2> QED BY <1>1, <1>7 DEF Leads
<1> HIDE DEF Begun
<1> QED BY <1>1, <1>5, <1>6, <1>8 DEF Run

\* What one frame does to the parsers.
NowAfter(now, frame) ==
  LET dump == IF frame.port \in DOMAIN now.parsers THEN now.parsers[frame.port] ELSE <<>>
  IN IF frame.part = "short" THEN now
     ELSE [parsers |-> Put(now.parsers, frame.port, Parsed(dump, frame)),
           torn |-> now.torn \/ Tears(dump, frame)]

\* The state of one parser is written.
LEMMA PutParser ==
  ASSUME NEW ps \in Parsers, NEW d \in DumpStates
  PROVE  Put(ps, In, d) \in Parsers /\ Dump(Put(ps, In, d)) = d
<1>1. DOMAIN ps \cup {In} = InputIds /\ In \in InputIds
  BY DEF Parsers, InputIds, In
<1>2. Put(ps, In, d) = [x \in InputIds |-> d]
  BY <1>1 DEF Put, InputIds, In
<1> QED BY <1>1, <1>2 DEF Parsers, Dump

\* The parser after one frame.
LEMMA NowAfterTyped ==
  ASSUME NEW now \in Nows, NEW frame \in DeviceFrames
  PROVE  /\ NowAfter(now, frame) \in Nows
         /\ Dump(NowAfter(now, frame).parsers) = Fed(Dump(now.parsers), frame)
         /\ NowAfter(now, frame).torn <=> now.torn \/ Tears(Dump(now.parsers), frame)
<1>1. frame.port = In /\ frame.part \in Parts
  BY DEF DeviceFrames, Frames, InputIds, In
<1>2. PICK ps \in Parsers, b \in BOOLEAN : now.parsers = ps /\ now.torn = b
  BY DEF Nows
<1>3. PICK dump : dump = Dump(ps)
  OBVIOUS
<1>4. dump \in DumpStates
  BY <1>3 DEF Parsers, Dump, InputIds, In, DumpStates
<1>5. PICK d \in DumpStates : d = Fed(dump, frame)
  BY <1>4, FedTyped
<1>6. PICK t \in BOOLEAN : t <=> b \/ Tears(dump, frame)
  OBVIOUS
<1>7. CASE frame.part = "short"
  BY <1>2, <1>3, <1>7 DEF NowAfter, Fed, Tears
<1>8. CASE frame.part # "short"
  <2>1. NowAfter(now, frame) = [parsers |-> Put(ps, In, d), torn |-> b \/ Tears(dump, frame)]
    BY <1>1, <1>2, <1>3, <1>5, <1>8 DEF NowAfter, Dump, Fed
  <2>2. (b \/ Tears(dump, frame)) = t
    BY <1>6
  <2>3. NowAfter(now, frame) = [parsers |-> Put(ps, In, d), torn |-> t]
    BY <2>1, <2>2
  <2>4. Put(ps, In, d) \in Parsers /\ Dump(Put(ps, In, d)) = d
    BY PutParser
  <2>5. NowAfter(now, frame) \in Nows
    BY <2>3, <2>4 DEF Nows
  <2>6. NowAfter(now, frame).parsers = Put(ps, In, d) /\ NowAfter(now, frame).torn = t
    BY <2>3
  <2> QED BY <1>2, <1>3, <1>5, <1>6, <2>4, <2>5, <2>6
<1> QED BY <1>7, <1>8

\* The recursion of After is a step of NowAfter a frame.
Start == [parsers |-> parsers, torn |-> torn]

\* The parser after one frame more.
LEMMA AfterSteps ==
  ASSUME Start \in Nows, channel \in Seq(DeviceFrames)
  PROVE  /\ After \in [0..Len(channel) -> Nows] /\ After[0] = Start
         /\ \A i \in 1..Len(channel) : After[i] = NowAfter(After[i - 1], channel[i])
<1> DEFINE Add == [x \in (1..Len(channel)) \X Nows |-> NowAfter(x[2], channel[x[1]])]
<1>1. PICK last \in Nat : last = Len(channel)
  OBVIOUS
<1>2. PICK W, a : W = Nows /\ a = Start /\ a \in W
  OBVIOUS
<1>3. ASSUME NEW i \in 1..last, NEW now \in W PROVE NowAfter(now, channel[i]) \in W
  <2>1. channel[i] \in DeviceFrames
    BY <1>1
  <2> QED BY <1>2, <2>1, NowAfterTyped
<1>4. Add \in [(1..last) \X W -> W]
  BY <1>1, <1>2, <1>3
<1> HIDE DEF Add
<1>5. PICK step \in [(1..last) \X W -> W] : step = Add
  BY <1>4
<1>6. PICK f : Takes(f, last, W, a, step)
  BY <1>2, Recursion
<1>7. f \in [0..last -> W] /\ f[0] = a /\ \A n \in 1..last : f[n] = step[<<n, f[n - 1]>>]
  BY <1>6 DEF Takes
<1>8. ASSUME NEW n \in 1..last PROVE f[n] = NowAfter(f[n - 1], channel[n])
  <2>2. n - 1 \in 0..last
    OBVIOUS
  <2>1. <<n, f[n - 1]>> \in (1..Len(channel)) \X Nows
    BY <1>1, <1>2, <1>7, <2>2
  <2> QED BY <1>5, <1>7, <2>1 DEF Add
<1>9. f = [i \in 0..Len(channel) |-> IF i = 0 THEN Start ELSE NowAfter(f[i - 1], channel[i])]
  <2>1. \A i \in 0..last : f[i] = IF i = 0 THEN a ELSE NowAfter(f[i - 1], channel[i])
    BY <1>7, <1>8
  <2> QED BY <1>1, <1>2, <1>7, <2>1
<1>10. After = [i \in 0..Len(channel) |-> IF i = 0 THEN Start ELSE NowAfter(After[i - 1], channel[i])]
  BY <1>9 DEF After, NowAfter, Start
<1>11. PICK e : e = After
  OBVIOUS
<1>12. /\ e[0] = a /\ DOMAIN e = 0..last /\ e = [i \in DOMAIN e |-> e[i]]
       /\ \A i \in 1..last : e[i] = NowAfter(e[i - 1], channel[i])
  BY <1>1, <1>2, <1>10, <1>11
<1>13. e \in [0..last -> W]
  <2>1. \A i \in 1..last : e[i - 1] \in W => e[i] \in W
    BY <1>3, <1>12
  <2> QED BY <1>2, <1>12, <2>1, Typed
<1> QED BY <1>1, <1>2, <1>11, <1>12, <1>13

\* A poll tears no dump when a run takes the parser over what the poll takes,
\* and what is left of the run goes on from there.
LEMMA PollKeepsRun ==
  ASSUME Start \in Nows, ~ torn, NEW a \in Seq(DeviceFrames), a = channel, NEW b \in Seq(DeviceFrames), NEW z,
         Run(Dump(parsers), a \o b, z)
  PROVE  LET now == After[Len(channel)] IN now \in Nows /\ ~ now.torn /\ Run(Dump(now.parsers), b, z)
<1>1. PICK last \in Nat, e \in {After} : last = Len(a) /\ e = After
  OBVIOUS
<1>2. /\ e \in [0..last -> Nows] /\ e[0] = Start
      /\ \A i \in 1..last : e[i] = NowAfter(e[i - 1], a[i])
  BY <1>1, AfterSteps
<1>3. PICK q : q = a \o b
  OBVIOUS
<1>4. PICK g \in [0..Len(q) -> DumpStates] : g[0] = Dump(parsers) /\ g[Len(q)] = z /\ Leads(g, q)
  BY <1>3 DEF Run
<1>5. Len(q) = Len(a) + Len(b) /\ (\A i \in 1..Len(a) : q[i] = a[i]) /\ Run(g[Len(a)], b, g[Len(q)])
  <2>1. Leads(g, q)
    BY <1>4
  <2> QED BY ZenonT(30), <1>3, <2>1, RunIsCut
<1>6. Len(q) \in Nat /\ last <= Len(q)
  <2>1. PICK m \in Nat, n \in Nat : m = Len(a) /\ n = Len(b)
    OBVIOUS
  <2> QED BY <1>1, <1>5, <2>1
<1> DEFINE Good(i) == ~ e[i].torn /\ Dump(e[i].parsers) = g[i]
           T == {i \in Nat : i <= last => Good(i)}
<1>7. 0 \in T
  BY <1>2, <1>4 DEF Start
<1>8. ASSUME NEW i \in T PROVE i + 1 \in T
  <2> SUFFICES ASSUME i + 1 <= last PROVE Good(i + 1)
    OBVIOUS
  <2>1. Good(i) /\ i \in Nat /\ i + 1 \in 1..last /\ (i + 1) - 1 = i /\ i \in 0..last
    OBVIOUS
  <2> HIDE DEF T
  <2>2. PICK now \in Nows : now = e[i]
    BY <1>2, <2>1
  <2>3. PICK frame \in DeviceFrames : frame = a[i + 1]
    BY <1>1, <2>1
  <2>4. e[i + 1] = NowAfter(now, frame)
    BY <1>2, <2>1, <2>2, <2>3
  <2>5. i + 1 \in 1..Len(q) /\ q[i + 1] = frame
    BY <1>1, <1>5, <1>6, <2>1, <2>3
  <2>6. g[i + 1] = Fed(g[i], frame) /\ ~ Tears(g[i], frame)
    BY <1>4, <2>1, <2>5 DEF Leads
  <2>7. ~ now.torn /\ Dump(now.parsers) = g[i]
    BY <2>1, <2>2
  <2>8. Dump(NowAfter(now, frame).parsers) = g[i + 1] /\ ~ NowAfter(now, frame).torn
    BY <2>6, <2>7, NowAfterTyped
  <2> QED BY <2>4, <2>8
<1>9. T = Nat
  <2> HIDE DEF T
  <2>1. T \subseteq Nat
    BY DEF T
  <2> QED BY <1>7, <1>8, <2>1, EveryNatural
<1>10. Good(last)
  <2>1. last \in T
    <3> HIDE DEF T
    <3> QED BY <1>9
  <2> QED BY <2>1
<1>11. last \in 0..last
  OBVIOUS
<1> HIDE DEF Good
<1>12. ~ e[last].torn /\ Dump(e[last].parsers) = g[last] /\ e[last] \in Nows
  BY <1>2, <1>10, <1>11 DEF Good
<1> QED BY <1>1, <1>4, <1>5, <1>12

-----------------------------------------------------------------------------
\* The frames of the input that the parsers have still to see.
InFlight == channel \o calls[In]

\* Where they take the parser: to the dump of a device that is heard, and out
\* of every dump when the input is closed.
GoesOn(e) ==
  /\ In \in DOMAIN inputs /\ inputs[In] => Awaits(e, sending)
  /\ In \notin DOMAIN inputs => e = <<>>

Unharmed == backend = "winmm" /\ dropped = 0 /\ ~ cut

TornInv ==
  /\ parsers \in Parsers /\ torn \in BOOLEAN /\ cut \in BOOLEAN
  /\ backend # "winmm" => ~ torn
  /\ Unharmed => ~ torn /\ \E e \in DumpStates : Run(Dump(parsers), InFlight, e) /\ GoesOn(e)

\* What is on its way to the parsers.
LEMMA InFlightTyped ==
  TypeInv /\ backend = "winmm" => /\ channel \in Seq(DeviceFrames) /\ calls[In] \in Seq(DeviceFrames)
                                  /\ InFlight \in Seq(DeviceFrames)
<1> SUFFICES ASSUME TypeInv, backend = "winmm"
             PROVE  /\ channel \in Seq(DeviceFrames) /\ calls[In] \in Seq(DeviceFrames)
                    /\ InFlight \in Seq(DeviceFrames)
  OBVIOUS
<1>1. channel \in Seq(DeviceFrames) /\ calls[In] \in Seq(DeviceFrames)
  BY DEF TypeInv, ChannelTypes, DeviceTypes, InputIds, In
<1>2. PICK a \in Seq(DeviceFrames), b \in Seq(DeviceFrames) : a = channel /\ b = calls[In]
  BY <1>1
<1>3. a \o b \in Seq(DeviceFrames)
  BY ConcatProperties
<1> QED BY <1>1, <1>2, <1>3 DEF InFlight

\* The frames a callback begins with go on with the dump, or are in none.
LEMMA CallsGoOn ==
  ASSUME TypeInv, backend = "winmm", NEW id \in InputIds, DriverCalls(id), NEW a, NEW e \in DumpStates,
         Run(a, InFlight, e), GoesOn(e)
  PROVE  \E h \in DumpStates : Run(a, InFlight', h) /\ GoesOn(h)'
<1>1. /\ channel \in Seq(DeviceFrames) /\ InputIds = {In} /\ id = In /\ In \in InputIds
      /\ made \in Nat /\ calls \in [InputIds -> Seq(DeviceFrames)]
  BY InFlightTyped DEF TypeInv, ChannelTypes, DeviceTypes, InputIds, In
<1>2. PICK b \in Seq(DeviceFrames) : b = channel
  BY <1>1
<1>3. PICK q \in Seq(DeviceFrames) : Called(id, q)
  BY CalledTyped DEF TypeInv
<1>4. /\ In \in DOMAIN inputs /\ inputs[In] /\ calls[In] = <<>> /\ inputs' = inputs /\ channel' = b
  BY <1>1, <1>2, <1>3 DEF Called
<1>5. InFlight = b
  <2>1. b \o <<>> = b
    BY ConcatEmptySeq
  <2> QED BY <1>2, <1>4, <2>1 DEF InFlight
<1>6. PICK n \in Nat, pos \in 0..2 : sending = [n |-> n, pos |-> pos] /\ sending.n = n /\ sending.pos = pos
  BY DEF TypeInv, DeviceTypes
<1>7. Run(a, b, e) /\ Awaits(e, [n |-> n, pos |-> pos])
  BY <1>4, <1>5, <1>6 DEF GoesOn
<1>8. ASSUME NEW p, Called(id, p) PROVE InFlight' = b \o p
  BY <1>1, <1>4, <1>8 DEF Called, InFlight
<1>9. ASSUME NEW h, Awaits(h, sending') PROVE GoesOn(h)'
  BY <1>4, <1>9 DEF GoesOn, Awaits
<1>10. CASE ShortCallback(id)
  <2>1. PICK f : f = Frame(In, made + 1, "short")
    OBVIOUS
  <2>2. f \in DeviceFrames /\ f.part = "short"
    BY <1>1, <2>1 DEF Frame, DeviceFrames, Frames, Parts
  <2>3. Called(id, <<f>>) /\ sending' = sending
    BY <1>1, <1>10, <2>1 DEF ShortCallback
  <2>4. Fed(e, f) = e /\ ~ Tears(e, f)
    BY <2>2 DEF Fed, Tears
  <2>5. Append(b, f) = b \o <<f>>
    BY <2>2, AppendIsConcat
  <2>6. Run(a, Append(b, f), Fed(e, f))
    BY <1>7, <2>2, <2>4, RunGoesOn
  <2>7. InFlight' = b \o <<f>>
    BY <1>8, <2>3
  <2>8. Run(a, InFlight', e)
    BY <2>4, <2>5, <2>6, <2>7
  <2>9. GoesOn(e)'
    BY <1>6, <1>7, <1>9, <2>3
  <2> QED BY <2>8, <2>9
<1>11. ASSUME NEW size \in 1..(Len(Whole) - sending.pos), LongCallback(id, size)
       PROVE  \E h \in DumpStates : Run(a, InFlight', h) /\ GoesOn(h)'
  <2>1. Len(Whole) = 3
    BY DEF Whole
  <2>2. size \in 1..3 /\ pos + size <= 3
    BY <1>6, <1>11, <2>1
  <2>3. PICK k \in Nat : k = IF pos = 0 THEN made + 1 ELSE n
    BY <1>1
  <2>4. PICK p : p = [i \in 1..size |-> Frame(In, k, Whole[pos + i])]
    OBVIOUS
  <2>5. Called(id, p) /\ sending' = Sent(k, pos + size)
    BY <1>1, <1>6, <1>11, <2>3, <2>4 DEF LongCallback
  <2>6. Awaits(e, [n |-> k, pos |-> pos])
    <3>1. CASE pos = 0
      BY <1>7, <3>1 DEF Awaits
    <3>2. CASE pos # 0
      BY <1>7, <2>3, <3>2
    <3> QED BY <3>1, <3>2
  <2>7. PICK h \in DumpStates : Run(a, b \o p, h) /\ Awaits(h, Sent(k, pos + size))
    BY <1>7, <2>2, <2>4, <2>6, BufferGoesOn
  <2>8. InFlight' = b \o p
    BY <1>8, <2>5
  <2>9. GoesOn(h)'
    BY <1>9, <2>5, <2>7
  <2> QED BY <2>7, <2>8, <2>9
<1> QED BY <1>10, <1>11 DEF DriverCalls

\* Every step keeps the way of what is in flight.
LEMMA TornKept ==
  ASSUME TypeInv, TornInv, backend' = backend, backend = "winmm", WinMmStep
  PROVE  TornInv'
<1> USE DEF captureVars, frameVars, cableVars, winVars, dumpVars, sendVars
<1>1. /\ channel \in Seq(DeviceFrames) /\ calls[In] \in Seq(DeviceFrames)
      /\ InFlight \in Seq(DeviceFrames) /\ DOMAIN calls = {In} /\ InputIds = {In}
  BY InFlightTyped DEF TypeInv, DeviceTypes, InputIds, In
<1>2. dropped \in Nat /\ made \in Nat
  BY DEF TypeInv, ChannelTypes
<1>3. parsers \in Parsers /\ torn \in BOOLEAN /\ cut \in BOOLEAN
  BY DEF TornInv
<1>4. ASSUME parsers' \in Parsers, torn' \in BOOLEAN, cut' \in BOOLEAN,
             Unharmed' => Unharmed /\ torn' = torn,
             ASSUME Unharmed, Unharmed', NEW e \in DumpStates, Run(Dump(parsers), InFlight, e), GoesOn(e)
             PROVE  \E h \in DumpStates : Run(Dump(parsers)', InFlight', h) /\ GoesOn(h)'
      PROVE  TornInv'
  <2>1. CASE Unharmed'
    <3>1. Unharmed /\ ~ torn
      BY <1>4, <2>1 DEF TornInv
    <3>2. PICK e \in DumpStates : Run(Dump(parsers), InFlight, e) /\ GoesOn(e)
      BY <3>1 DEF TornInv
    <3>3. PICK h \in DumpStates : Run(Dump(parsers)', InFlight', h) /\ GoesOn(h)'
      BY <1>4, <2>1, <3>1, <3>2
    <3>4. ~ torn'
      BY <1>4, <2>1, <3>1
    <3> QED BY <1>4, <3>3, <3>4 DEF TornInv
  <2>2. CASE ~ Unharmed'
    BY <1>4, <2>2 DEF TornInv
  <2> QED BY <2>1, <2>2
<1>5. ASSUME UNCHANGED <<channel, calls, dropped, torn, cut, parsers, inputs, sending>> PROVE TornInv'
  BY <1>5 DEF TornInv, InFlight, Dump, GoesOn, Unharmed
<1>6. ASSUME NEW id \in InputIds, OpenInput(id) PROVE TornInv'
  <2>1. id = In /\ UNCHANGED <<channel, calls, dropped, torn, cut, sending>> /\ In \notin DOMAIN inputs
    BY <1>1, <1>6 DEF OpenInput
  <2>2. parsers' = parsers \/ (In \notin DOMAIN parsers /\ parsers' = Put(parsers, In, <<>>))
    BY <1>6, <2>1 DEF OpenInput
  <2>3. parsers' \in Parsers /\ Dump(parsers)' = Dump(parsers)
    <3>1. <<>> \in DumpStates
      BY DEF DumpStates
    <3>2. PICK ps \in Parsers, d \in DumpStates : ps = parsers /\ d = <<>>
      BY <1>3, <3>1
    <3>3. Put(ps, In, d) \in Parsers /\ Dump(Put(ps, In, d)) = d
      BY PutParser
    <3>4. CASE parsers' = parsers
      BY <1>3, <3>4 DEF Dump
    <3>5. CASE In \notin DOMAIN parsers /\ parsers' = Put(parsers, In, <<>>)
      BY <3>2, <3>3, <3>5 DEF Dump
    <3> QED BY <2>2, <3>4, <3>5
  <2>4. InFlight' = InFlight
    BY <2>1 DEF InFlight
  <2>5. ASSUME NEW e, GoesOn(e) PROVE GoesOn(e)'
    BY <2>1, <2>5 DEF GoesOn, Awaits
  <2>6. Unharmed' = Unharmed
    BY <2>1 DEF Unharmed
  <2> QED BY <1>3, <1>4, <2>1, <2>3, <2>4, <2>5, <2>6
<1>7. ASSUME NEW id \in InputIds, BeginClose(id) PROVE TornInv'
  <2>1. /\ id = In /\ UNCHANGED <<channel, calls, dropped, torn, cut, parsers>> /\ In \in DOMAIN inputs
        /\ inputs' = [inputs EXCEPT ![In] = FALSE]
    BY <1>1, <1>7 DEF BeginClose
  <2>2. In \in DOMAIN inputs' /\ ~ inputs'[In]
    BY <2>1
  <2>3. \A e : GoesOn(e)'
    BY <2>2 DEF GoesOn
  <2>4. InFlight' = InFlight /\ Dump(parsers)' = Dump(parsers) /\ Unharmed' = Unharmed
    BY <2>1 DEF InFlight, Dump, Unharmed
  <2> QED BY <1>3, <1>4, <2>1, <2>3, <2>4
<1>8. ASSUME NEW id \in InputIds, FinishClose(id) PROVE TornInv'
  <2>1. /\ id = In /\ UNCHANGED <<channel, calls, dropped, torn>> /\ calls[In] = <<>>
        /\ parsers' = Without(parsers, {In}) /\ inputs' = Without(inputs, {In})
        /\ cut' = (cut \/ Unfinished(In))
    BY <1>1, <1>8 DEF FinishClose
  <2>2. DOMAIN parsers' = {} /\ parsers' = [x \in {} |-> parsers[x]]
    BY <1>1, <1>3, <2>1 DEF Without, Parsers
  <2>3. parsers' \in Parsers /\ Dump(parsers)' = <<>>
    BY <2>2 DEF Parsers, Dump
  <2>4. In \notin DOMAIN inputs'
    BY <2>1 DEF Without
  <2>5. PICK q \in Seq(DeviceFrames) : q = channel
    BY <1>1
  <2>6. InFlight = q /\ InFlight' = q
    <3>1. q \o <<>> = q
      BY ConcatEmptySeq
    <3> QED BY <2>1, <2>5, <3>1 DEF InFlight
  <2>7. cut' \in BOOLEAN
    BY <1>3, <2>1
  <2>8. Unharmed' => Unharmed /\ ~ Unfinished(In)
    BY <2>1 DEF Unharmed
  <2>9. ASSUME ~ Unfinished(In), NEW e, Run(Dump(parsers), q, e) PROVE Run(<<>>, q, <<>>)
    <3>1. ASSUME NEW i \in 1..Len(q), q[i].part = "first" PROVE \E j \in (i + 1)..Len(q) : q[j].part = "last"
      <4>1. q[i] \in DeviceFrames
        OBVIOUS
      <4>2. q[i].port = In
        BY <4>1 DEF DeviceFrames, Frames, InputIds, In
      <4> QED BY <2>5, <2>9, <3>1, <4>2 DEF Unfinished
    <3> QED BY <2>9, <3>1, RunStartsAgain
  <2>10. GoesOn(<<>>)'
    BY <2>4 DEF GoesOn, Awaits
  <2>11. <<>> \in DumpStates
    BY DEF DumpStates
  <2>12. ASSUME Unharmed, Unharmed', NEW e \in DumpStates, Run(Dump(parsers), InFlight, e), GoesOn(e)
         PROVE  \E h \in DumpStates : Run(Dump(parsers)', InFlight', h) /\ GoesOn(h)'
    BY <2>3, <2>6, <2>8, <2>9, <2>10, <2>11, <2>12
  <2> QED BY <1>3, <1>4, <2>1, <2>3, <2>7, <2>8, <2>12
<1>9. ASSUME NEW id \in OutputIds, OpenOutput(id) \/ CloseOutput(id) \/ BeginLong(id) PROVE TornInv'
  BY <1>5, <1>9 DEF OpenOutput, CloseOutput, BeginLong
<1>10. ASSUME DriverDone \/ LongDone \/ LongTimeout \/ GiveUp PROVE TornInv'
  BY <1>5, <1>10 DEF DriverDone, LongDone, LongTimeout, GiveUp
<1>11. ASSUME NEW id \in InputIds, DriverCalls(id) PROVE TornInv'
  <2>1. PICK q \in Seq(DeviceFrames) : Called(id, q)
    BY <1>11, CalledTyped DEF TypeInv
  <2>2. UNCHANGED <<dropped, torn, cut, parsers>>
    BY <2>1 DEF Called
  <2>3. Dump(parsers)' = Dump(parsers) /\ Unharmed' = Unharmed
    BY <2>2 DEF Dump, Unharmed
  <2>4. ASSUME NEW e \in DumpStates, Run(Dump(parsers), InFlight, e), GoesOn(e)
        PROVE  \E h \in DumpStates : Run(Dump(parsers), InFlight', h) /\ GoesOn(h)'
    BY <1>11, <2>4, CallsGoOn
  <2> QED BY <1>3, <1>4, <2>2, <2>3, <2>4
<1>12. ASSUME NEW id \in InputIds, Unheard(id) PROVE TornInv'
  <2>1. /\ id = In /\ UNCHANGED <<channel, calls, dropped, torn, parsers, inputs>>
        /\ cut' = (cut \/ (In \in DOMAIN inputs /\ inputs[In] /\ sending.pos # 0))
    BY <1>1, <1>12 DEF Unheard
  <2>2. cut' \in BOOLEAN /\ InFlight' = InFlight /\ Dump(parsers)' = Dump(parsers)
    <3>1. cut' \in BOOLEAN
      BY <1>3, <2>1
    <3> QED BY <2>1, <3>1 DEF InFlight, Dump
  <2>3. Unharmed' => Unharmed /\ (In \in DOMAIN inputs /\ inputs[In] => sending.pos = 0)
    BY <2>1 DEF Unharmed
  <2>4. ASSUME Unharmed', NEW e, GoesOn(e) PROVE GoesOn(e)'
    <3>1. CASE In \in DOMAIN inputs /\ inputs[In]
      <4>1. sending.pos = 0 /\ Awaits(e, sending)
        BY <2>3, <2>4, <3>1 DEF GoesOn
      <4>2. e = <<>>
        BY <4>1 DEF Awaits
      <4> QED BY <4>2 DEF GoesOn, Awaits
    <3>2. CASE ~ (In \in DOMAIN inputs /\ inputs[In])
      BY <2>1, <2>4, <3>2 DEF GoesOn
    <3> QED BY <3>1, <3>2
  <2> QED BY <1>3, <1>4, <2>1, <2>2, <2>3, <2>4
<1>13. ASSUME NEW id \in InputIds, PushFrame(id) PROVE TornInv'
  <2>1. /\ id = In /\ calls[In] # <<>> /\ UNCHANGED <<torn, parsers, cut, inputs, sending>>
        /\ calls' = [calls EXCEPT ![In] = Tail(@)]
    BY <1>1, <1>13 DEF PushFrame
  <2>2. PICK a \in Seq(DeviceFrames), b \in Seq(DeviceFrames) : a = channel /\ b = calls[In]
    BY <1>1
  <2>3. Head(b) \in DeviceFrames /\ Tail(b) \in Seq(DeviceFrames) /\ b = <<Head(b)>> \o Tail(b)
    <3>1. b # <<>>
      BY <2>1, <2>2
    <3> QED BY <3>1, HeadTailProperties
  <2>4. (channel' = Append(channel, Head(b)) /\ dropped' = dropped) \/ dropped' = dropped + 1
    <3>1. PICK f \in DeviceFrames : f = Head(b)
      BY <2>3
    <3>2. TryPush(<<f>>)
      BY <1>13, <2>1, <2>2, <3>1 DEF PushFrame
    <3>3. made' \in Nat
      BY <1>2, <1>13 DEF PushFrame
    <3> QED BY <3>1, <3>2, <3>3, DevicePushed DEF TypeInv
  <2>5. calls'[In] = Tail(b)
    BY <1>1, <2>1, <2>2
  <2>6. CASE channel' = Append(channel, Head(b)) /\ dropped' = dropped
    <3>1. Append(a, Head(b)) = a \o <<Head(b)>>
      BY <2>3, AppendIsConcat
    <3>2. a \o b = (a \o <<Head(b)>>) \o Tail(b)
      <4>3. PICK x \in DeviceFrames : x = Head(b)
        BY <2>3
      <4>4. <<x>> \in Seq(DeviceFrames)
        OBVIOUS
      <4>1. PICK h \in Seq(DeviceFrames), t \in Seq(DeviceFrames) : h = <<Head(b)>> /\ t = Tail(b)
        BY <2>3, <4>3, <4>4
      <4>2. (a \o h) \o t = a \o (h \o t)
        BY ConcatAssociative
      <4> QED BY <2>3, <4>1, <4>2
    <3>3. InFlight' = InFlight
      BY <2>2, <2>5, <2>6, <3>1, <3>2 DEF InFlight
    <3>4. Dump(parsers)' = Dump(parsers) /\ Unharmed' = Unharmed
      BY <2>1, <2>6 DEF Dump, Unharmed
    <3>5. ASSUME NEW e, GoesOn(e) PROVE GoesOn(e)'
      BY <2>1, <3>5 DEF GoesOn
    <3> QED BY <1>3, <1>4, <2>1, <3>3, <3>4, <3>5
  <2>7. CASE dropped' = dropped + 1
    <3>1. ~ Unharmed'
      BY <1>2, <2>7 DEF Unharmed
    <3> QED BY <1>3, <1>4, <2>1, <3>1
  <2> QED BY <2>4, <2>6, <2>7
<1>14. ASSUME PollWinMm PROVE TornInv'
  <2>1. /\ channel' = <<>> /\ UNCHANGED <<dropped, calls, cut, inputs, sending>>
        /\ parsers' = After[Len(channel)].parsers /\ torn' = After[Len(channel)].torn
    BY <1>14 DEF PollWinMm, Polled
  <2>2. Start \in Nows
    BY <1>3 DEF Nows, Start
  <2>3. PICK now \in Nows : now = After[Len(channel)]
    <3>1. Len(channel) \in Nat
      BY <1>1
    <3>2. Len(channel) \in 0..Len(channel)
      BY <3>1
    <3> QED BY <1>1, <2>2, <3>2, AfterSteps
  <2>4. now.parsers \in Parsers /\ now.torn \in BOOLEAN
    BY DEF Nows
  <2>5. PICK a \in Seq(DeviceFrames), b \in Seq(DeviceFrames) : a = channel /\ b = calls[In]
    BY <1>1
  <2>6. InFlight = a \o b /\ InFlight' = b
    <3>1. <<>> \o b = b
      BY ConcatEmptySeq
    <3> QED BY <2>1, <2>5, <3>1 DEF InFlight
  <2>7. Dump(parsers)' = Dump(now.parsers) /\ parsers' = now.parsers /\ torn' = now.torn
    BY <2>1, <2>3 DEF Dump
  <2>8. Unharmed' = Unharmed
    BY <2>1 DEF Unharmed
  <2>9. ASSUME NEW e, GoesOn(e) PROVE GoesOn(e)'
    BY <2>1, <2>9 DEF GoesOn
  <2>10. CASE Unharmed
    <3>1. ~ torn
      BY <2>10 DEF TornInv
    <3>2. PICK e \in DumpStates : Run(Dump(parsers), InFlight, e) /\ GoesOn(e)
      BY <2>10 DEF TornInv
    <3>3. ~ now.torn /\ Run(Dump(now.parsers), b, e)
      BY <2>2, <2>3, <2>5, <2>6, <3>1, <3>2, PollKeepsRun
    <3>4. Run(Dump(parsers)', InFlight', e) /\ GoesOn(e)'
      BY <2>6, <2>7, <2>9, <3>2, <3>3
    <3> QED BY <1>3, <2>1, <2>4, <2>7, <3>3, <3>4 DEF TornInv
  <2>11. CASE ~ Unharmed
    BY <1>3, <2>1, <2>4, <2>7, <2>8, <2>11 DEF TornInv
  <2> QED BY <2>10, <2>11
<1> QED BY <1>6, <1>7, <1>8, <1>9, <1>10, <1>11, <1>12, <1>13, <1>14 DEF WinMmStep, DriverCalls

\* Every step keeps the inductive invariant of torn dumps.
LEMMA TornStepKept == TypeInv /\ TornInv /\ [Next]_vars => TornInv'
<1> SUFFICES ASSUME TypeInv, TornInv, [Next]_vars PROVE TornInv'
  OBVIOUS
<1>1. CASE backend' = backend /\ UNCHANGED winVars /\ backend # "winmm"
  BY <1>1 DEF winVars, dumpVars, TornInv, Unharmed
<1>2. CASE backend' = backend /\ UNCHANGED winVars /\ backend = "winmm" /\ CableStep
  <2>1. UNCHANGED <<channel, dropped>>
    <3>1. ASSUME NEW c \in DOMAIN cables,
                 RemoveCable(c) \/ OpenCableInput(c) \/ CloseCableInput(c) \/ OpenCableOutput(c) \/ CloseCableOutput(c)
                 \/ \E parts \in {<<"short">>, <<"first", "last">>} : SendCable(c, parts)
          PROVE  UNCHANGED <<channel, dropped>>
      BY <3>1 DEF RemoveCable, OpenCableInput, CloseCableInput, OpenCableOutput, CloseCableOutput, SendCable, frameVars
    <3>2. CreateCable => UNCHANGED <<channel, dropped>>
      BY DEF CreateCable, frameVars
    <3> QED BY <1>2, <3>1, <3>2 DEF CableStep
  <2> QED BY <1>2, <2>1 DEF winVars, dumpVars, TornInv, InFlight, Dump, Unharmed, GoesOn
<1>3. CASE UNCHANGED vars
  BY <1>3 DEF vars, winVars, dumpVars, captureVars, frameVars, TornInv, InFlight, Dump, Unharmed, GoesOn
<1>4. CASE Next
  BY <1>1, <1>2, <1>4, TornKept DEF Next, WinMmOnly
<1> QED BY <1>3, <1>4

\* WinMM's parser hands over a dump with parts missing, or with another
\* dump's, only after a counted loss, after a part that the driver gave back
\* as an error, or after a close that left the dump's beginning unpolled: an
\* input may close and open in the middle of any dump that the parser has
\* begun, and a callback may outlast the close (poll, midi_in_callback and
\* close_input of winmm.rs).
THEOREM DumpsTearOnlyByLoss == Spec => []TornOnlyByLoss
<1>1. Init => TypeInv /\ TornInv
  <2> SUFFICES ASSUME Init PROVE TypeInv /\ TornInv
    OBVIOUS
  <2>1. TypeInv
    BY TypesBegin
  <2>2. /\ channel = <<>> /\ calls[In] = <<>> /\ torn = FALSE /\ cut = FALSE /\ DOMAIN inputs = {}
        /\ parsers = [x \in {} |-> <<>>] /\ DOMAIN parsers = {}
    BY DEF Init, CaptureInit, WinMmInit, InputIds, In
  <2>3. parsers \in Parsers /\ Dump(parsers) = <<>>
    BY <2>2 DEF Parsers, Dump
  <2>4. InFlight = <<>>
    BY <2>2 DEF InFlight
  <2>5. <<>> \in DumpStates
    BY DEF DumpStates
  <2>6. Run(<<>>, <<>>, <<>>)
    BY <2>5, RunOfNothing
  <2>7. GoesOn(<<>>)
    BY DEF GoesOn, Awaits
  <2> QED BY <2>1, <2>2, <2>3, <2>4, <2>5, <2>6, <2>7 DEF TornInv
<1>2. TypeInv /\ TornInv => TornOnlyByLoss
  BY DEF TornInv, TornOnlyByLoss, TypeInv, ChannelTypes, Unharmed
<1> QED BY <1>1, <1>2, TypesKept, TornStepKept, PTL DEF Spec

-----------------------------------------------------------------------------
(* The limits: nothing holds more than it may, and what is dropped was     *)
(* made.  A frame of a callback is made when the callback begins and is    *)
(* dropped, if at all, when it is pushed.                                  *)

QueuesBounded == \A c \in DOMAIN cables : Len(cables[c].queue) <= QueueCap
Waiting == Len(calls[In]) + Len(sinks[1])
MadeBounded == made <= MaxMade /\ dropped + Waiting <= made
BusyTyped == busy \in {"no", "close", "long", "reset"}
Limits == QueuesBounded /\ MadeBounded /\ BusyTyped

\* What waits in the callbacks has its types.
LEMMA WaitingTyped ==
  TypeInv => /\ calls[In] \in Seq(DeviceFrames) /\ sinks[1] \in Seq(DeviceFrames) /\ made \in Nat /\ dropped \in Nat
             /\ DOMAIN calls = {In} /\ InputIds = {In} /\ DOMAIN sinks = {1} /\ WmsDevices = {1}
BY DEF TypeInv, DeviceTypes, ChannelTypes, InputIds, WmsDevices, In

\* What waits is a number, and stays when no frame moves.
LEMMA WaitingNat ==
  TypeInv => Waiting \in Nat /\ made \in Nat /\ dropped \in Nat
<1> SUFFICES ASSUME TypeInv PROVE Waiting \in Nat /\ made \in Nat /\ dropped \in Nat
  OBVIOUS
<1>1. PICK n \in Nat, s \in Nat : n = Len(calls[In]) /\ s = Len(sinks[1])
  BY WaitingTyped
<1>2. Waiting = n + s
  BY <1>1 DEF Waiting
<1>3. made \in Nat /\ dropped \in Nat
  BY WaitingTyped
<1> QED BY <1>2, <1>3

\* What waits stays when no frame moves.
LEMMA WaitingStays ==
  ASSUME UNCHANGED <<calls, sinks>>
  PROVE  Waiting' = Waiting
BY DEF Waiting

\* A step that leaves all of it alone, or empties the channel and the queues.
LEMMA LimitsStay ==
  ASSUME TypeInv, Limits, UNCHANGED <<made, calls, sinks>>, dropped' \in {dropped, 0},
         cables' = cables \/ cables' = Drained, BusyTyped'
  PROVE  Limits'
<1>1. QueuesBounded'
  <2>1. CASE cables' = cables
    BY <2>1 DEF Limits, QueuesBounded
  <2>2. CASE cables' = Drained
    <3>1. DOMAIN cables' = DOMAIN cables
      BY <2>2 DEF Drained
    <3>2. ASSUME NEW c \in DOMAIN cables PROVE cables'[c].queue = <<>>
      <4>1. cables[c] \in Cable(c) /\ cables'[c] = [cables[c] EXCEPT !.queue = <<>>]
        BY <2>2 DEF Drained, TypeInv, CableTypes
      <4> QED BY <4>1 DEF Cable
    <3>3. Len(<<>>) = 0
      OBVIOUS
    <3> QED BY <3>1, <3>2, <3>3, CaptureAssumption DEF QueuesBounded
  <2> QED BY <2>1, <2>2
<1>2. MadeBounded'
  <2>1. Waiting \in Nat /\ made \in Nat /\ dropped \in Nat
    BY WaitingNat
  <2>2. Waiting' = Waiting
    BY WaitingStays
  <2>4. PICK d \in Nat, w \in Nat, m \in Nat : d = dropped /\ w = Waiting /\ m = made
    BY <2>1
  <2>3. d + w <= m /\ m <= MaxMade
    BY <2>4 DEF Limits, MadeBounded
  <2>5. dropped' + w <= m
    <3>1. dropped' = d \/ dropped' = 0
      BY <2>4
    <3> QED BY <2>3, <3>1
  <2> QED BY <2>2, <2>3, <2>4, <2>5 DEF MadeBounded
<1> QED BY <1>1, <1>2 DEF Limits

\* A step that makes frames, which wait, are put away or are dropped.
LEMMA LimitsMake ==
  ASSUME TypeInv, Limits, cables' = cables, busy' = busy, NEW more \in Nat, made' = made + more, made' <= MaxMade,
         NEW lose \in Nat, dropped' = dropped + lose, NEW wait \in Nat, Waiting' = wait, lose + wait <= Waiting + more
  PROVE  Limits'
<1>1. QueuesBounded' /\ BusyTyped'
  BY DEF Limits, QueuesBounded, BusyTyped
<1>2. MadeBounded'
  <2>1. Waiting \in Nat /\ made \in Nat /\ dropped \in Nat
    BY WaitingNat
  <2>2. PICK d \in Nat, w \in Nat, m \in Nat : d = dropped /\ w = Waiting /\ m = made
    BY <2>1
  <2>3. d + lose + wait <= m + more
    BY <2>2 DEF Limits, MadeBounded
  <2> QED BY <2>2, <2>3 DEF MadeBounded
<1> QED BY <1>1, <1>2 DEF Limits

\* A frame that waited is pushed.
LEMMA LimitsPush ==
  ASSUME TypeInv, Limits, UNCHANGED <<cables, busy, made>>, NEW f \in DeviceFrames, TryPush(<<f>>), backend' = backend,
         NEW wait \in Nat, Waiting = wait + 1, Waiting' = wait
  PROVE  Limits'
<1>1. made' \in Nat /\ made' = made + 0 /\ made' <= MaxMade /\ dropped \in Nat
  BY WaitingTyped DEF Limits, MadeBounded
<1>2. (dropped' = dropped) \/ (dropped' = dropped + 1)
  BY <1>1, DevicePushed DEF TypeInv
<1>3. PICK lose \in {0, 1} : dropped' = dropped + lose
  BY <1>1, <1>2
<1>4. lose + wait <= Waiting + 0
  BY <1>3
<1> QED BY <1>1, <1>3, <1>4, LimitsMake

\* A sequence without its head.
LEMMA TailShorter ==
  ASSUME NEW S, NEW q \in Seq(S), q # <<>>
  PROVE  Head(q) \in S /\ Tail(q) \in Seq(S) /\ Len(q) \in Nat /\ Len(Tail(q)) \in Nat /\ Len(q) = Len(Tail(q)) + 1
BY HeadTailProperties

\* WinMM keeps to the limits.
LEMMA WinMmLimits ==
  ASSUME TypeInv, Limits, backend' = backend, backend = "winmm", WinMmStep, UNCHANGED <<wmsVars, coreVars, nullVars>>
  PROVE  Limits'
<1> USE DEF captureVars, frameVars, cableVars, winVars, dumpVars, sendVars, wmsVars
<1>1. ASSUME NEW id \in InputIds, OpenInput(id) \/ BeginClose(id) \/ FinishClose(id) PROVE Limits'
  BY <1>1, LimitsStay DEF OpenInput, BeginClose, FinishClose, BusyTyped, Limits
<1>2. ASSUME NEW id \in OutputIds, OpenOutput(id) \/ CloseOutput(id) \/ BeginLong(id) PROVE Limits'
  BY <1>2, LimitsStay DEF OpenOutput, CloseOutput, BeginLong, BusyTyped, Limits
<1>3. ASSUME DriverDone \/ LongDone \/ LongTimeout \/ GiveUp PROVE Limits'
  BY <1>3, LimitsStay DEF DriverDone, LongDone, LongTimeout, GiveUp, BusyTyped, Limits
<1>4. ASSUME PollWinMm PROVE Limits'
  BY <1>4, LimitsStay DEF PollWinMm, Polled, BusyTyped, Limits
<1>5. ASSUME NEW id \in InputIds, DriverCalls(id) PROVE Limits'
  <2>1. PICK q \in Seq(DeviceFrames) : Called(id, q)
    BY <1>5, CalledTyped DEF TypeInv
  <2>2. id = In /\ calls[In] = <<>> /\ UNCHANGED <<dropped, cables, busy, sinks>> /\ DOMAIN calls = {In}
    BY <2>1, WaitingTyped DEF Called
  <2>3. PICK more \in Nat : more = Len(q)
    OBVIOUS
  <2>4. made' = made + more /\ made' <= MaxMade /\ calls'[In] = q
    BY <2>1, <2>2, <2>3 DEF Called
  <2>6. PICK s \in Nat : s = Len(sinks[1])
    BY WaitingTyped
  <2>7. Waiting = s /\ Waiting' = more + s /\ dropped' = dropped + 0
    <3>1. Len(calls[In]) = 0
      BY <2>2
    <3>2. Len(sinks[1])' = s
      BY <2>2, <2>6
    <3> QED BY <2>2, <2>3, <2>4, <2>6, <3>1, <3>2, WaitingTyped DEF Waiting
  <2>8. more + s \in Nat /\ 0 + (more + s) <= Waiting + more
    BY <2>7
  <2> QED BY <2>2, <2>4, <2>7, <2>8, LimitsMake
<1>7. ASSUME NEW id \in InputIds, Unheard(id) PROVE Limits'
  BY <1>7, LimitsStay DEF Unheard, BusyTyped, Limits
<1>6. ASSUME NEW id \in InputIds, PushFrame(id) PROVE Limits'
  <2>1. id = In /\ calls[In] # <<>> /\ UNCHANGED <<cables, busy, made, sinks>> /\ DOMAIN calls = {In}
    BY <1>6, WaitingTyped DEF PushFrame
  <2>2. PICK q \in Seq(DeviceFrames) : q = calls[In] /\ q # <<>>
    BY <2>1, WaitingTyped
  <2>3. PICK f \in DeviceFrames, t \in Seq(DeviceFrames), n \in Nat :
          f = Head(q) /\ t = Tail(q) /\ n = Len(t) /\ Len(q) = n + 1
    BY <2>2, TailShorter
  <2>4. TryPush(<<f>>) /\ calls'[In] = t
    BY <1>6, <2>1, <2>2, <2>3 DEF PushFrame
  <2>5. PICK s \in Nat : s = Len(sinks[1])
    BY WaitingTyped
  <2>6. Waiting = (n + s) + 1 /\ Waiting' = n + s
    BY <2>1, <2>2, <2>3, <2>4, <2>5 DEF Waiting
  <2> QED BY <2>1, <2>4, <2>6, LimitsPush
<1> QED BY <1>1, <1>2, <1>3, <1>4, <1>5, <1>6, <1>7 DEF WinMmStep, DriverCalls

\* Windows MIDI Services keeps to the limits.
LEMMA WmsLimits ==
  ASSUME TypeInv, Limits, backend' = backend, backend = "wms", WmsStep, UNCHANGED <<winVars, sendVars, coreVars, nullVars>>
  PROVE  Limits'
<1> USE DEF captureVars, frameVars, cableVars, winVars, dumpVars, wmsVars
<1>1. ASSUME NEW d \in WmsDevices, OpenWmsInput(d) \/ OpenWmsOutput(d) \/ CloseWmsInput(d) \/ CloseWmsOutput(d) PROVE Limits'
  BY <1>1, LimitsStay DEF OpenWmsInput, OpenWmsOutput, CloseWmsInput, CloseWmsOutput, BusyTyped, Limits
<1>2. ASSUME PollWms PROVE Limits'
  BY <1>2, LimitsStay DEF PollWms, Polled, BusyTyped, Limits
<1>3. ASSUME NEW d \in WmsDevices, NEW batch \in {<<"short", "short">>, <<"short", "bad", "short">>}, Received(d, batch)
      PROVE  Limits'
  <2>1. d = 1 /\ sinks[1] = <<>> /\ UNCHANGED <<dropped, cables, busy, calls>> /\ DOMAIN sinks = {1}
    BY <1>3, WaitingTyped DEF Received
  <2>2. PICK parts \in Seq(Parts), more \in Nat : parts = Split(batch) /\ more = Len(parts)
    BY BatchSplit
  <2>3. made' = made + more /\ made' <= MaxMade
    BY <1>3, <2>2 DEF Received
  <2>4. PICK q : q = [i \in 1..more |-> Frame(<<"in", 1>>, made + i, batch[i])]
    OBVIOUS
  <2>5. sinks'[1] = q /\ Len(q) = more
    <3>1. DOMAIN parts = 1..more
      BY <2>2
    <3> QED BY <1>3, <2>1, <2>2, <2>4, <3>1 DEF Received
  <2>6. PICK s \in Nat : s = Len(calls[In])
    BY WaitingTyped
  <2>7. Waiting = s /\ Waiting' = s + more /\ dropped' = dropped + 0
    <3>1. Len(sinks[1]) = 0
      BY <2>1
    <3>2. Len(calls[In])' = s
      BY <2>1, <2>6
    <3> QED BY <2>1, <2>5, <2>6, <3>1, <3>2, WaitingTyped DEF Waiting
  <2>8. s + more \in Nat /\ 0 + (s + more) <= Waiting + more
    BY <2>7
  <2> QED BY <2>1, <2>3, <2>7, <2>8, LimitsMake
<1>4. ASSUME NEW d \in WmsDevices, PushPacket(d) PROVE Limits'
  <2>1. d = 1 /\ sinks[1] # <<>> /\ UNCHANGED <<cables, busy, made, calls>> /\ DOMAIN sinks = {1}
    BY <1>4, WaitingTyped DEF PushPacket
  <2>2. PICK q \in Seq(DeviceFrames) : q = sinks[1] /\ q # <<>>
    BY <2>1, WaitingTyped
  <2>3. PICK f \in DeviceFrames, t \in Seq(DeviceFrames), n \in Nat :
          f = Head(q) /\ t = Tail(q) /\ n = Len(t) /\ Len(q) = n + 1
    BY <2>2, TailShorter
  <2>4. TryPush(<<f>>) /\ sinks'[1] = t
    BY <1>4, <2>1, <2>2, <2>3 DEF PushPacket
  <2>5. PICK s \in Nat : s = Len(calls[In])
    BY WaitingTyped
  <2>6. Waiting = (s + n) + 1 /\ Waiting' = s + n
    BY <2>1, <2>2, <2>3, <2>4, <2>5 DEF Waiting
  <2> QED BY <2>1, <2>4, <2>6, LimitsPush
<1> QED BY <1>1, <1>2, <1>3, <1>4 DEF WmsStep

\* CoreMIDI keeps to the limits.
LEMMA CoreMidiLimits ==
  ASSUME TypeInv, Limits, backend' = backend, backend = "coremidi", CoreMidiStep, UNCHANGED <<winVars, sendVars, wmsVars, nullVars>>
  PROVE  Limits'
<1> USE DEF captureVars, frameVars, cableVars, winVars, dumpVars, wmsVars, coreVars
<1>1. ASSUME CreateVirtual \/ \E c \in DOMAIN cables : RemoveVirtual(c) \/ OpenVirtual(c) \/ CloseVirtual(c)
      PROVE  Limits'
  <2>1. UNCHANGED <<made, dropped, busy, calls, sinks>>
    BY <1>1 DEF CreateVirtual, RemoveVirtual, OpenVirtual, CloseVirtual
  <2>2. CableTypes' /\ backend' = "coremidi"
    BY <1>1, CoreMidiTypes DEF CoreMidiStep, TypeInv
  <2>3. QueuesBounded'
    <3>1. ASSUME NEW c \in DOMAIN cables' PROVE cables'[c].queue = <<>>
      BY <2>2 DEF CableTypes, Sound
    <3>2. Len(<<>>) = 0
      OBVIOUS
    <3> QED BY <3>1, <3>2, CaptureAssumption DEF QueuesBounded
  <2>4. MadeBounded' /\ BusyTyped'
    BY <2>1 DEF Limits, MadeBounded, BusyTyped, Waiting
  <2> QED BY <2>3, <2>4 DEF Limits
<1>2. ASSUME \E c \in DOMAIN cables : VirtualArmed(c) PROVE Limits'
  BY <1>2, LimitsStay DEF VirtualArmed, BusyTyped, Limits
<1>3. ASSUME NEW id \in {<<"in", 1>>}, OpenSource(id) \/ CloseSource(id) PROVE Limits'
  BY <1>3, LimitsStay DEF OpenSource, CloseSource, BusyTyped, Limits
<1>4. ASSUME PollCoreMidi PROVE Limits'
  BY <1>4, LimitsStay DEF PollCoreMidi, Polled, BusyTyped, Limits
<1>5. ASSUME NEW f \in AllFrames, TryPush(<<f>>), made < MaxMade, made' = made + 1, cables' = cables, busy' = busy
      PROVE  Limits'
  <2>1. (dropped' = dropped) \/ (dropped' = dropped + 1)
    BY <1>5, PushedOne DEF TypeInv, ChannelTypes
  <2>2. dropped \in Nat /\ made' <= MaxMade
    BY <1>5, WaitingTyped, CaptureAssumption
  <2>3. PICK lose \in {0, 1} : dropped' = dropped + lose
    BY <2>1, <2>2
  <2>4. PICK wait \in Nat : wait = Waiting /\ Waiting' = wait
    <3>1. Waiting \in Nat
      BY WaitingNat
    <3>2. Waiting' = Waiting
      BY <1>5, WaitingStays
    <3> QED BY <3>1, <3>2
  <2>5. lose + wait <= Waiting + 1
    BY <2>3, <2>4
  <2> QED BY <1>5, <2>2, <2>3, <2>4, <2>5, LimitsMake
<1>6. ASSUME NEW c \in passed, VirtualPush(c) PROVE Limits'
  <2>1. made' \in Nat /\ c \in Nat
    BY <1>6 DEF VirtualPush, TypeInv, ChannelTypes, DeviceTypes
  <2>2. PICK f \in AllFrames : f = Frame(<<"cin", c>>, made', "short")
    BY <2>1 DEF Frame, AllFrames, Frames, Parts
  <2> QED BY <1>5, <1>6, <2>2 DEF VirtualPush
<1>7. ASSUME NEW id \in {<<"in", 1>>}, SourceCallback(id) PROVE Limits'
  <2>1. made' \in Nat /\ id \in {"in", "cin"} \X Nat
    BY <1>7 DEF SourceCallback, TypeInv, ChannelTypes
  <2>2. PICK f \in AllFrames : f = Frame(id, made', "short")
    BY <2>1 DEF Frame, AllFrames, Frames, Parts
  <2> QED BY <1>5, <1>7, <2>2 DEF SourceCallback
<1> QED BY <1>1, <1>2, <1>3, <1>4, <1>6, <1>7 DEF CoreMidiStep

\* The null backend keeps to the limits.
LEMMA NullLimits ==
  ASSUME TypeInv, Limits, backend' = backend, NullStep, UNCHANGED <<winVars, sendVars, wmsVars, coreVars>>
  PROVE  Limits'
<1> USE DEF captureVars, frameVars, cableVars, winVars, dumpVars, wmsVars, nullVars
<1>1. ASSUME NEW id \in {<<"in", 1>>, <<"out", 1>>}, OpenNull(id) \/ CloseNull(id) PROVE Limits'
  BY <1>1, LimitsStay DEF OpenNull, CloseNull, BusyTyped, Limits
<1>2. ASSUME PollNull PROVE Limits'
  BY <1>2, LimitsStay DEF PollNull, Polled, BusyTyped, Limits
<1>3. ASSUME Inject PROVE Limits'
  <2>1. made' <= MaxMade /\ dropped' = dropped + 0 /\ made' = made + 1 /\ cables' = cables /\ busy' = busy
    BY <1>3, WaitingTyped, CaptureAssumption DEF Inject
  <2>2. PICK wait \in Nat : wait = Waiting /\ Waiting' = wait
    <3>1. Waiting \in Nat
      BY WaitingNat
    <3>2. Waiting' = Waiting
      BY <1>3, WaitingStays
    <3> QED BY <3>1, <3>2
  <2>3. 0 + wait <= Waiting + 1
    BY <2>2
  <2> QED BY <2>1, <2>2, <2>3, LimitsMake
<1> QED BY <1>1, <1>2, <1>3 DEF NullStep

\* The cables keep to the limits.
LEMMA CableStepLimits ==
  ASSUME TypeInv, Limits, backend' = backend, backend # "coremidi", CableStep,
         UNCHANGED <<winVars, sendVars, wmsVars, coreVars, nullVars>>
  PROVE  Limits'
<1> USE DEF captureVars, frameVars, cableVars, winVars, dumpVars, wmsVars
<1>1. CableTypes /\ DOMAIN cables \subseteq 1..(next_index - 1) /\ UNCHANGED <<calls, sinks>>
  BY DEF TypeInv, CableTypes
<1>2. ASSUME UNCHANGED <<made, dropped, busy>>, QueuesBounded' PROVE Limits'
  BY <1>1, <1>2 DEF Limits, MadeBounded, BusyTyped, Waiting
<1>3. ASSUME CreateCable PROVE Limits'
  <2>1. cables' = Put(cables, next_index, EmptyCable) /\ UNCHANGED <<made, dropped, busy>>
    BY <1>3 DEF CreateCable
  <2>2. Len(<<>>) = 0 /\ EmptyCable.queue = <<>>
    BY DEF EmptyCable
  <2>3. \A c \in DOMAIN cables' : cables'[c] = EmptyCable \/ (c \in DOMAIN cables /\ cables'[c] = cables[c])
    BY <2>1 DEF Put
  <2> QED BY <1>2, <2>1, <2>2, <2>3, CaptureAssumption DEF Limits, QueuesBounded
<1>4. ASSUME NEW c \in DOMAIN cables, RemoveCable(c) PROVE Limits'
  <2>1. cables' = Without(cables, {c}) /\ UNCHANGED <<made, dropped, busy>>
    BY <1>4 DEF RemoveCable
  <2>2. \A k \in DOMAIN cables' : k \in DOMAIN cables /\ cables'[k] = cables[k]
    BY <2>1 DEF Without
  <2> QED BY <1>2, <2>1, <2>2 DEF Limits, QueuesBounded
<1>5. ASSUME NEW c \in DOMAIN cables, NEW r, cables' = [cables EXCEPT ![c] = r], Len(r.queue) <= QueueCap
      PROVE  QueuesBounded'
  BY <1>5 DEF Limits, QueuesBounded
<1>6. ASSUME NEW c \in DOMAIN cables,
             OpenCableInput(c) \/ CloseCableInput(c) \/ OpenCableOutput(c) \/ CloseCableOutput(c)
      PROVE  Limits'
  <2>1. PICK r \in Cable(c) : cables' = [cables EXCEPT ![c] = r] /\ r.queue \in {cables[c].queue, <<>>}
    <3>1. cables[c] \in Cable(c)
      BY <1>1 DEF CableTypes
    <3>2. CASE OpenCableInput(c)
      <4>1. Rewritten(c, [cables[c] EXCEPT !.in_port = TRUE])
        BY <1>1, <3>2, CableForms
      <4> QED BY <3>1, <4>1 DEF Rewritten, Cable
    <3>3. CASE CloseCableInput(c)
      <4>1. Rewritten(c, [cables[c] EXCEPT !.in_port = FALSE, !.queue = <<>>])
        BY <1>1, <3>3, CableForms
      <4> QED BY <3>1, <4>1 DEF Rewritten, Cable
    <3>4. CASE OpenCableOutput(c)
      <4>1. Rewritten(c, [cables[c] EXCEPT !.out_open = TRUE])
        BY <1>1, <3>4, CableForms
      <4> QED BY <3>1, <4>1 DEF Rewritten, Cable
    <3>5. CASE CloseCableOutput(c)
      <4>1. Rewritten(c, [cables[c] EXCEPT !.out_open = FALSE])
        BY <1>1, <3>5, CableForms
      <4> QED BY <3>1, <4>1 DEF Rewritten, Cable
    <3> QED BY <1>6, <3>2, <3>3, <3>4, <3>5
  <2>2. Len(r.queue) <= QueueCap
    <3>1. Len(<<>>) = 0
      OBVIOUS
    <3> QED BY <2>1, <3>1, CaptureAssumption DEF Limits, QueuesBounded
  <2>3. UNCHANGED <<made, dropped, busy>>
    BY <1>6 DEF OpenCableInput, CloseCableInput, OpenCableOutput, CloseCableOutput
  <2> QED BY <1>2, <1>5, <2>1, <2>2, <2>3
<1>7. ASSUME NEW c \in DOMAIN cables, NEW parts \in {<<"short">>, <<"first", "last">>}, SendCable(c, parts)
      PROVE  Limits'
  <2>1. PICK more \in Nat : more = Len(parts)
    <3>1. CASE parts = <<"short">>
      BY <3>1
    <3>2. CASE parts = <<"first", "last">>
      BY <3>2
    <3> QED BY <3>1, <3>2
  <2>2. UNCHANGED <<dropped, busy>> /\ made' = made + more /\ made' <= MaxMade
    BY <1>7, <2>1 DEF SendCable
  <2>3. QueuesBounded'
    <3>1. \/ cables' = cables
          \/ \E r \in Cable(c) : cables' = [cables EXCEPT ![c] = r] /\ Len(r.queue) <= QueueCap
      BY <1>7, CableSends
    <3> QED BY <1>5, <3>1 DEF Limits, QueuesBounded
  <2>4. MadeBounded'
    <3>1. Waiting \in Nat /\ made \in Nat /\ dropped \in Nat
      BY WaitingNat
    <3>2. Waiting' = Waiting
      BY <1>1, WaitingStays
    <3>3. PICK w \in Nat, d \in Nat, m \in Nat : w = Waiting /\ d = dropped /\ m = made
      BY <3>1
    <3>4. d + w <= m
      BY <3>3 DEF Limits, MadeBounded
    <3>5. d + w <= m + more
      BY <3>4
    <3> QED BY <2>2, <3>2, <3>3, <3>5 DEF MadeBounded
  <2> QED BY <2>2, <2>3, <2>4 DEF Limits, BusyTyped
<1> QED BY <1>3, <1>4, <1>6, <1>7 DEF CableStep

\* Every step keeps to the limits.
LEMMA LimitsKept == TypeInv /\ Limits /\ [Next]_vars => Limits'
<1> SUFFICES ASSUME TypeInv, Limits, [Next]_vars PROVE Limits'
  OBVIOUS
<1>1. CASE UNCHANGED vars
  BY <1>1, LimitsStay DEF vars, captureVars, frameVars, cableVars, winVars, dumpVars, wmsVars, Limits, BusyTyped
<1>2. CASE Next
  BY <1>2, WinMmLimits, WmsLimits, CoreMidiLimits, NullLimits, CableStepLimits DEF Next, WinMmOnly
<1> QED BY <1>1, <1>2

\* No channel and no queue of a cable holds more than its bound, on any
\* backend (push_frame, sink_messages_received, push_event_list and
\* SoftwareLoopbacks::send).
THEOREM QueuesKeepToTheirLimit == Spec => []TypeOK
<1>1. Init => TypeInv /\ Limits /\ GrantedInv
  <2> SUFFICES ASSUME Init PROVE TypeInv /\ Limits /\ GrantedInv
    OBVIOUS
  <2>1. TypeInv /\ GrantedInv
    BY TypesBegin, GrantsBegin
  <2>2. /\ cables = <<>> /\ DOMAIN cables = {} /\ made = 0 /\ dropped = 0 /\ busy = "no"
        /\ calls[In] = <<>> /\ sinks[1] = <<>>
    BY DEF Init, CaptureInit, WinMmInit, WmsInit, InputIds, WmsDevices, In
  <2>3. Waiting = 0
    BY <2>2 DEF Waiting
  <2> QED BY <2>1, <2>2, <2>3, CaptureAssumption DEF Limits, QueuesBounded, MadeBounded, BusyTyped
<1>2. TypeInv /\ Limits /\ GrantedInv /\ [Next]_vars => (TypeInv /\ Limits /\ GrantedInv)'
  BY TypesKept, LimitsKept, GrantsKept
<1>3. TypeInv /\ Limits /\ GrantedInv => TypeOK
  <2> SUFFICES ASSUME TypeInv, Limits, GrantedInv PROVE TypeOK
    OBVIOUS
  <2>1. Waiting \in Nat /\ made \in Nat /\ dropped \in Nat
    BY WaitingNat
  <2>2. PICK w \in Nat, d \in Nat, m \in Nat : w = Waiting /\ d = dropped /\ m = made
    BY <2>1
  <2>3. d + w <= m /\ m <= MaxMade
    BY <2>2 DEF Limits, MadeBounded
  <2>4. dropped <= MaxMade /\ made <= MaxMade
    BY <2>2, <2>3, CaptureAssumption
  <2> QED BY <2>4 DEF TypeOK, TypeInv, ChannelTypes, Limits, QueuesBounded, BusyTyped, GrantedInv
<1> QED BY <1>1, <1>2, <1>3, PTL DEF Spec

===============================================================================
