---------------------------- MODULE RoutingProofs ----------------------------
(***************************************************************************)
(* Proofs about Routing, for channels of any capacity and any number of    *)
(* arrivals: no request is lost or answered twice on its way (NoneLost),   *)
(* and how many events it takes to jam the way for good (JamTakesAll).     *)
(*                                                                         *)
(* NoneLost is an equation between a counter and the places a request can  *)
(* be in.  JamTakesAll needs one more count, Raised: every request owed    *)
(* and every other event under way was raised by a message or a timer of   *)
(* its own.                                                                *)
(***************************************************************************)
EXTENDS Routing, FiniteSetTheorems, SequenceTheorems, TLAPS

-----------------------------------------------------------------------------
(* Counting in a sequence. *)

LEMMA CountType ==
    ASSUME NEW S, NEW q \in Seq(S), NEW T
    PROVE  /\ IsFiniteSet({i \in DOMAIN q : q[i] \in T})
           /\ Count(q, T) \in Nat
<1>1. IsFiniteSet(1 .. Len(q))
  BY FS_Interval
<1>2. {i \in DOMAIN q : q[i] \in T} \in SUBSET (1 .. Len(q))
  OBVIOUS
<1>3. IsFiniteSet({i \in DOMAIN q : q[i] \in T})
  BY <1>1, <1>2, FS_Subset
<1> QED BY <1>3, FS_CardinalityType DEF Count

LEMMA CountEmpty == \A T : Count(<<>>, T) = 0
<1> SUFFICES ASSUME NEW T PROVE Count(<<>>, T) = 0
  OBVIOUS
<1>1. {i \in DOMAIN <<>> : <<>>[i] \in T} = {}
  OBVIOUS
<1> QED BY <1>1, FS_EmptySet DEF Count

LEMMA CountAppend ==
    ASSUME NEW S, NEW q \in Seq(S), NEW x \in S, NEW T
    PROVE  Count(Append(q, x), T) = Count(q, T) + (IF x \in T THEN 1 ELSE 0)
<1> DEFINE n == Len(q) + 1
           D == {i \in DOMAIN q : q[i] \in T}
           E == {i \in DOMAIN Append(q, x) : Append(q, x)[i] \in T}
<1>1. /\ Append(q, x) \in Seq(S) /\ Len(Append(q, x)) = n
      /\ \A i \in 1 .. Len(q) : Append(q, x)[i] = q[i]
      /\ Append(q, x)[n] = x
  BY AppendProperties
<1>2. DOMAIN Append(q, x) = 1 .. n /\ DOMAIN q = 1 .. Len(q) /\ Len(q) \in Nat
  BY <1>1
<1>3. E = IF x \in T THEN D \cup {n} ELSE D
  BY <1>1, <1>2
<1>4. n \notin D
  BY <1>2
<1>5. IsFiniteSet(D) /\ Count(q, T) \in Nat
  BY CountType
<1>6. Count(q, T) = Cardinality(D) /\ Count(Append(q, x), T) = Cardinality(E)
  BY DEF Count
<1> HIDE DEF D, E, n
<1>7. Cardinality(D \cup {n}) = Cardinality(D) + 1
  BY <1>4, <1>5, FS_AddElement
<1> QED BY <1>3, <1>5, <1>6, <1>7

LEMMA CountTail ==
    ASSUME NEW S, NEW q \in Seq(S), q # <<>>, NEW T
    PROVE  Count(q, T) = Count(Tail(q), T) + (IF Head(q) \in T THEN 1 ELSE 0)
<1> DEFINE D == {i \in DOMAIN q : q[i] \in T}
           E == {i \in DOMAIN Tail(q) : Tail(q)[i] \in T}
           f == [i \in E |-> i + 1]
<1>1. /\ Tail(q) \in Seq(S) /\ Len(Tail(q)) = Len(q) - 1
      /\ \A i \in 1 .. Len(Tail(q)) : Tail(q)[i] = q[i + 1]
      /\ Len(q) \in Nat \ {0} /\ Head(q) = q[1]
  BY HeadTailProperties, EmptySeq
<1>2. DOMAIN Tail(q) = 1 .. Len(q) - 1 /\ DOMAIN q = 1 .. Len(q)
  BY <1>1
<1>3. E \subseteq 1 .. Len(q) - 1 /\ \A i \in E : i + 1 \in D /\ i + 1 # 1
  BY <1>1, <1>2
<1>4. \A j \in D \ {1} : j - 1 \in E /\ (j - 1) + 1 = j
  <2> SUFFICES ASSUME NEW j \in D \ {1} PROVE j - 1 \in E /\ (j - 1) + 1 = j
    OBVIOUS
  <2>1. j \in 1 .. Len(q) /\ j # 1 /\ q[j] \in T
    BY <1>2
  <2>2. j - 1 \in 1 .. Len(Tail(q)) /\ (j - 1) + 1 = j
    BY <2>1, <1>1
  <2>3. Tail(q)[j - 1] = q[(j - 1) + 1]
    BY <2>2, <1>1
  <2> QED BY <2>1, <2>2, <2>3, <1>1, <1>2
<1>5. f \in Bijection(E, D \ {1})
  <2>1. f \in [E -> D \ {1}]
    BY <1>3
  <2>2. \A i, j \in E : f[i] = f[j] => i = j
    BY <1>3
  <2>3. \A j \in D \ {1} : \E i \in E : f[i] = j
    <3> TAKE j \in D \ {1}
    <3>1. j - 1 \in E /\ f[j - 1] = j
      BY <1>4
    <3> QED BY <3>1
  <2> QED BY <2>1, <2>2, <2>3 DEF Bijection, Injection, Surjection, IsInjective
<1>6. Cardinality(D \ {1}) = Cardinality(E)
  <2>1. IsFiniteSet(E)
    BY <1>1, CountType
  <2> HIDE DEF D, E, f
  <2>2. ExistsBijection(E, D \ {1})
    BY <1>5 DEF ExistsBijection
  <2> QED BY <2>1, <2>2, FS_Bijection
<1>7. IsFiniteSet(D) /\ Cardinality(D) \in Nat /\ Cardinality(E) \in Nat
  BY <1>1, CountType DEF Count
<1>8. 1 \in D <=> Head(q) \in T
  BY <1>1, <1>2
<1>9. Count(q, T) = Cardinality(D) /\ Count(Tail(q), T) = Cardinality(E)
  BY DEF Count
<1> HIDE DEF D, E, f
<1>10. Cardinality(D \ {1}) = IF 1 \in D THEN Cardinality(D) - 1 ELSE Cardinality(D)
  BY <1>7, FS_RemoveElement
<1> QED BY <1>6, <1>7, <1>8, <1>9, <1>10

\* What is in T and what is not make up the sequence.
LEMMA CountSplit ==
    ASSUME NEW S, NEW q \in Seq(S), NEW T
    PROVE  Count(q, S \ T) + Count(q, T) = Len(q)
<1> DEFINE D == {i \in DOMAIN q : q[i] \in T}
           E == {i \in DOMAIN q : q[i] \in S \ T}
<1>1. DOMAIN q = 1 .. Len(q) /\ Len(q) \in Nat /\ \A i \in DOMAIN q : q[i] \in S
  OBVIOUS
<1>2. IsFiniteSet(D) /\ IsFiniteSet(E) /\ Cardinality(D) \in Nat /\ Cardinality(E) \in Nat
  BY CountType DEF Count
<1>3. D \cup E = 1 .. Len(q) /\ D \cap E = {}
  BY <1>1
<1>4. Cardinality(D \cup E) = Cardinality(D) + Cardinality(E) - Cardinality(D \cap E)
  BY <1>2, FS_Union
<1>5. Count(q, T) = Cardinality(D) /\ Count(q, S \ T) = Cardinality(E)
  BY DEF Count
<1> HIDE DEF D, E
<1>6. Cardinality(1 .. Len(q)) = Len(q)
  <2>1. Len(q) \in Nat
    BY <1>1
  <2> DEFINE n == Len(q)
  <2> HIDE DEF n
  <2>2. n \in Nat
    BY <2>1 DEF n
  <2>3. Cardinality(1 .. n) = IF 1 > n THEN 0 ELSE n - 1 + 1
    BY <2>2, FS_Interval
  <2>4. Cardinality(1 .. n) = n
    BY <2>2, <2>3
  <2> QED BY <2>4 DEF n
<1>7. Cardinality(D \cup E) = Len(q) /\ Cardinality(D \cap E) = 0
  BY <1>3, <1>6, FS_EmptySet
<1> QED BY <1>2, <1>4, <1>5, <1>7

-----------------------------------------------------------------------------
(* The inductive invariant. *)

Single(S) == {<<>>} \cup {<<k>> : k \in S}

Stage == {Resting} \cup
    [at : {"trying", "answering", "calling", "handing"}, kind : Wanted]

Typed ==
    /\ arrived \in Nat /\ owed \in Int
    /\ engine \in Single(Kind)
    /\ events \in Seq(Kind)
    /\ router \in Single(Wanted)
    /\ incoming \in Seq(Wanted)
    /\ route \in Stage
    /\ commands \in Seq({"final", "other"})
    /\ calls \in Nat
    /\ stream \in {"none", "open", "closed"}
    /\ inbox \in Nat
    /\ hands \in Nat

Ended == Count(engine, {Over}) + Count(events, {Over})

\* Each was raised by an arrival of its own.
Raised == owed + Ended <= arrived

IInv == Typed /\ NoneLost /\ Raised

LEMMA InitIInv == Init => IInv
<1> SUFFICES ASSUME Init PROVE IInv
  OBVIOUS
<1>1. Typed
  BY DEF Init, Typed, Single, Stage
<1>2. Rising = 0 /\ Passing = 0 /\ Held = 0 /\ Settling = 0 /\ Ended = 0
  BY CountEmpty DEF Init, Rising, Passing, Held, Settling, Ended
<1>3. NoneLost /\ Raised
  BY <1>2 DEF Init, NoneLost, Raised
<1> QED BY <1>1, <1>3 DEF IInv

LEMMA SingleSeq ==
    ASSUME NEW S, NEW q \in Single(S)
    PROVE  q \in Seq(S)
<1>1. CASE q = <<>>
  BY <1>1
<1>2. CASE \E k \in S : q = <<k>>
  BY <1>2
<1> QED BY <1>1, <1>2 DEF Single

LEMMA OneOf ==
    ASSUME NEW k \in Kind
    PROVE  /\ k # Over => Count(<<k>>, Wanted) = 1 /\ Count(<<k>>, {Over}) = 0
           /\ k = Over => Count(<<k>>, Wanted) = 0 /\ Count(<<k>>, {Over}) = 1
<1>1. <<>> \in Seq(Kind)
  OBVIOUS
<1>2. Append(<<>>, k) = <<k>>
  OBVIOUS
<1>3. ASSUME NEW T
      PROVE  Count(Append(<<>>, k), T) = Count(<<>>, T) + (IF k \in T THEN 1 ELSE 0)
  BY <1>1, CountAppend
<1>4. ASSUME NEW T
      PROVE  Count(<<k>>, T) = IF k \in T THEN 1 ELSE 0
  BY <1>2, <1>3, CountEmpty
<1>5. Count(<<k>>, Wanted) = IF k \in Wanted THEN 1 ELSE 0
  BY <1>4
<1>6. Count(<<k>>, {Over}) = IF k \in {Over} THEN 1 ELSE 0
  BY <1>4
<1> QED BY <1>5, <1>6 DEF Wanted

\* What the channels hold, in numbers.
LEMMA Counted ==
    ASSUME Typed
    PROVE  /\ Count(engine, Wanted) \in Nat /\ Count(engine, {Over}) \in Nat
           /\ Count(events, Wanted) \in Nat /\ Count(events, {Over}) \in Nat
           /\ Count(router, Wanted) \in Nat /\ Count(incoming, Wanted) \in Nat
           /\ Count(commands, {"final"}) \in Nat
<1>1. engine \in Seq(Kind) /\ router \in Seq(Wanted)
  BY SingleSeq DEF Typed
<1>2. Count(engine, Wanted) \in Nat /\ Count(engine, {Over}) \in Nat
  BY <1>1, CountType
<1>3. Count(events, Wanted) \in Nat /\ Count(events, {Over}) \in Nat
  BY CountType DEF Typed
<1>4. Count(commands, {"final"}) \in Nat
  BY CountType DEF Typed
<1>5. Count(router, Wanted) \in Nat /\ Count(incoming, Wanted) \in Nat
  BY <1>1, CountType DEF Typed
<1> QED BY <1>2, <1>3, <1>4, <1>5

LEMMA Numbers ==
    ASSUME Typed
    PROVE  /\ arrived \in Nat /\ owed \in Int
           /\ Rising \in Nat /\ Passing \in Nat /\ Held \in Nat
           /\ Settling \in Nat /\ Ended \in Nat
<1>1. arrived \in Nat /\ owed \in Int /\ Held \in Nat
  BY DEF Typed, Held
<1>2. Rising \in Nat /\ Ended \in Nat /\ Settling \in Nat
  BY Counted DEF Rising, Ended, Settling
<1>3. Passing \in Nat
  BY Counted DEF Passing
<1> QED BY <1>1, <1>2, <1>3

\* The invariant is kept by a step that is typed and balances its counts.
LEMMA Balanced ==
    ASSUME IInv, Typed',
           NEW r \in Int, NEW p \in Int, NEW h \in Int, NEW s \in Int,
           Rising' = Rising + r, Passing' = Passing + p,
           Held' = Held + h, Settling' = Settling + s,
           owed' = owed + r + p + h + s,
           owed' + Ended' - arrived' <= owed + Ended - arrived
    PROVE  IInv'
<1>1. /\ arrived \in Nat /\ owed \in Int
      /\ Rising \in Nat /\ Passing \in Nat /\ Held \in Nat
      /\ Settling \in Nat /\ Ended \in Nat
  BY Numbers DEF IInv
<1>2. arrived' \in Nat /\ owed' \in Int
  BY DEF Typed
<1>3. Ended' \in Nat
  <2>1. engine' \in Seq(Kind) /\ events' \in Seq(Kind)
    BY SingleSeq DEF Typed
  <2>2. Count(engine', {Over}) \in Nat /\ Count(events', {Over}) \in Nat
    BY <2>1, CountType
  <2> QED BY <2>2 DEF Ended
<1>4. NoneLost'
  BY <1>1 DEF IInv, NoneLost
<1>5. Raised'
  <2>1. owed + Ended <= arrived
    BY DEF IInv, Raised
  <2>2. PICK o \in Int, e \in Nat, a \in Nat : o = owed' /\ e = Ended' /\ a = arrived'
    BY <1>2, <1>3
  <2>3. o + e - a <= owed + Ended - arrived
    BY <2>2
  <2>4. o + e <= a
    BY ONLY <2>1, <2>3, <1>1
  <2> QED BY <2>2, <2>4 DEF Raised
<1> QED BY <1>4, <1>5 DEF IInv

-----------------------------------------------------------------------------
(* The engine's steps. *)

LEMMA ArriveStep ==
    ASSUME IInv, NEW kind \in Kind, Arrive(kind)
    PROVE  IInv'
<1>1. Typed'
  BY DEF IInv, Arrive, app, Typed, Single
<1>2. UNCHANGED <<Passing, Held, Settling>>
  BY DEF Arrive, app, Passing, Held, Settling
<1>3. /\ engine = <<>> /\ engine' = <<kind>> /\ events' = events
      /\ Count(<<>>, Wanted) = 0 /\ Count(<<>>, {Over}) = 0
      /\ Count(events, Wanted) \in Nat /\ Count(events, {Over}) \in Nat
  BY CountEmpty, Counted DEF Arrive, IInv
<1>4. /\ Passing \in Nat /\ Held \in Nat /\ Settling \in Nat /\ owed \in Int
      /\ Rising \in Nat /\ Ended \in Nat /\ arrived \in Nat
  BY Numbers DEF IInv
<1>5. CASE kind = Over
  <2>0. Count(<<kind>>, Wanted) = 0 /\ Count(<<kind>>, {Over}) = 1
    BY <1>5, OneOf
  <2>1. Rising' = Rising /\ Ended' = Ended + 1
    BY <1>3, <2>0 DEF Rising, Ended
  <2>2. owed' = owed /\ arrived' = arrived + 1
    BY <1>5 DEF Arrive
  <2> QED BY <1>1, <1>2, <1>4, <2>1, <2>2, Balanced
<1>6. CASE kind # Over
  <2>0. Count(<<kind>>, Wanted) = 1 /\ Count(<<kind>>, {Over}) = 0
    BY <1>6, OneOf
  <2>1. Rising' = Rising + 1 /\ Ended' = Ended
    BY <1>3, <2>0 DEF Rising, Ended
  <2>2. owed' = owed + 1 /\ arrived' = arrived + 1
    BY <1>6 DEF Arrive
  <2> QED BY <1>1, <1>2, <1>4, <2>1, <2>2, Balanced
<1> QED BY <1>5, <1>6

LEMMA HandUpStep == IInv /\ HandUp => IInv'
<1> SUFFICES ASSUME IInv, HandUp PROVE IInv'
  OBVIOUS
<1>1. PICK k \in Kind : engine = <<k>>
  BY DEF IInv, Typed, Single, HandUp
<1>2. events \in Seq(Kind) /\ events' = Append(events, k)
  BY <1>1, AppendIsConcat DEF IInv, Typed, Sent, HandUp
<1>3. Typed'
  BY <1>2, AppendProperties DEF IInv, Typed, Single, HandUp, app
<1>4. /\ Count(events', Wanted) = Count(events, Wanted) + Count(engine, Wanted)
      /\ Count(events', {Over}) = Count(events, {Over}) + Count(engine, {Over})
  <2>1. /\ Count(events', Wanted)
             = Count(events, Wanted) + (IF k \in Wanted THEN 1 ELSE 0)
        /\ Count(events', {Over})
             = Count(events, {Over}) + (IF k \in {Over} THEN 1 ELSE 0)
    BY <1>2, CountAppend
  <2>2. CASE k = Over
    <3>1. Count(engine, Wanted) = 0 /\ Count(engine, {Over}) = 1
      BY <2>2, <1>1, OneOf
    <3> QED BY <2>1, <2>2, <3>1 DEF Wanted
  <2>3. CASE k # Over
    <3>1. Count(engine, Wanted) = 1 /\ Count(engine, {Over}) = 0
      BY <2>3, <1>1, OneOf
    <3> QED BY <2>1, <2>3, <3>1 DEF Wanted
  <2> QED BY <2>2, <2>3
<1>5. /\ engine' = <<>> /\ Count(<<>>, Wanted) = 0 /\ Count(<<>>, {Over}) = 0
      /\ Count(events, Wanted) \in Nat /\ Count(events, {Over}) \in Nat
      /\ Count(engine, Wanted) \in Nat /\ Count(engine, {Over}) \in Nat
  BY CountEmpty, Counted DEF HandUp, IInv
<1>6. Rising' = Rising /\ Ended' = Ended
  BY <1>4, <1>5 DEF Rising, Ended
<1>7. UNCHANGED <<Passing, Held, Settling, owed, arrived>>
  BY DEF HandUp, app, Passing, Held, Settling
<1>8. /\ Rising \in Nat /\ Passing \in Nat /\ Held \in Nat /\ Settling \in Nat
      /\ Ended \in Nat /\ owed \in Int /\ arrived \in Nat
  BY Numbers DEF IInv
<1> QED BY <1>3, <1>6, <1>7, <1>8, Balanced

LEMMA TakeCommandStep == IInv /\ TakeCommand => IInv'
<1> SUFFICES ASSUME IInv, TakeCommand PROVE IInv'
  OBVIOUS
<1> DEFINE final == Head(commands) = "final"
<1>1. /\ commands \in Seq({"final", "other"}) /\ commands # <<>>
      /\ Head(commands) \in {"final", "other"}
      /\ commands' = Tail(commands)
      /\ commands' \in Seq({"final", "other"})
  BY HeadTailProperties DEF IInv, Typed, TakeCommand
<1>2. /\ final => Settling' = Settling - 1
      /\ ~final => Settling' = Settling
  <2>1. /\ Settling = Settling' + (IF Head(commands) \in {"final"} THEN 1 ELSE 0)
        /\ Settling' \in Nat
    BY <1>1, CountTail, CountType DEF Settling
  <2>2. PICK n \in Nat : Settling' = n
    BY <2>1
  <2>3. Settling = n + (IF Head(commands) \in {"final"} THEN 1 ELSE 0)
    BY <2>1, <2>2
  <2> QED BY <2>2, <2>3
<1>3. engine = <<>> /\ (engine' = <<>> \/ (final /\ engine' = <<Over>>))
  BY DEF TakeCommand, Ends
<1>4. Typed'
  BY <1>1, <1>3 DEF IInv, Typed, Single, Kind, TakeCommand, app
<1>5. /\ Count(<<>>, Wanted) = 0 /\ Count(<<>>, {Over}) = 0
      /\ Count(<<Over>>, Wanted) = 0 /\ Count(<<Over>>, {Over}) = 1
      /\ Count(events, Wanted) \in Nat /\ Count(events, {Over}) \in Nat
      /\ events' = events
  BY CountEmpty, OneOf, Counted DEF Kind, TakeCommand, IInv
<1>6. Rising' = Rising /\ (Ended' = Ended \/ (final /\ Ended' = Ended + 1))
  BY <1>3, <1>5 DEF Rising, Ended
<1>7. UNCHANGED <<Passing, Held, arrived>>
  BY DEF TakeCommand, app, Passing, Held
<1>8. /\ Rising \in Nat /\ Passing \in Nat /\ Held \in Nat /\ Settling \in Nat
      /\ Ended \in Nat /\ owed \in Int /\ arrived \in Nat
  BY Numbers DEF IInv
<1>9. CASE final
  <2>1. owed' = owed - 1 /\ Settling' = Settling - 1
    BY <1>9, <1>2 DEF TakeCommand
  <2> QED BY <1>4, <1>6, <1>7, <1>8, <2>1, Balanced
<1>10. CASE ~final
  <2>1. owed' = owed /\ Settling' = Settling /\ Ended' = Ended
    BY <1>10, <1>2, <1>6 DEF TakeCommand
  <2> QED BY <1>4, <1>6, <1>7, <1>8, <2>1, Balanced
<1> QED BY <1>9, <1>10

-----------------------------------------------------------------------------
(* The steps of the two routers. *)

LEMMA RouterTakesStep == IInv /\ RouterTakes => IInv'
<1> SUFFICES ASSUME IInv, RouterTakes PROVE IInv'
  OBVIOUS
<1> DEFINE over == Head(events) = Over
<1>1. /\ events \in Seq(Kind) /\ events # <<>> /\ events' = Tail(events)
      /\ Head(events) \in Kind /\ events' \in Seq(Kind)
  BY HeadTailProperties DEF IInv, Typed, RouterTakes
<1>2. /\ Count(events, Wanted)
           = Count(events', Wanted) + (IF Head(events) \in Wanted THEN 1 ELSE 0)
      /\ Count(events, {Over})
           = Count(events', {Over}) + (IF Head(events) \in {Over} THEN 1 ELSE 0)
      /\ Count(events', Wanted) \in Nat /\ Count(events', {Over}) \in Nat
  BY <1>1, CountTail, CountType
<1>3. Typed'
  BY <1>1 DEF IInv, Typed, Single, Wanted, RouterTakes, app
<1>4. /\ Rising \in Nat /\ Passing \in Nat /\ Held \in Nat /\ Settling \in Nat
      /\ Ended \in Nat /\ owed \in Int /\ arrived \in Nat
      /\ Count(engine, Wanted) \in Nat /\ Count(engine, {Over}) \in Nat
      /\ Count(incoming, Wanted) \in Nat
  BY Numbers, Counted DEF IInv
<1>5. UNCHANGED <<engine, incoming, route, Held, Settling, owed, arrived>>
  BY DEF RouterTakes, app, Held, Settling
<1>6. CASE over
  <2>1. Rising' = Rising /\ Ended' = Ended - 1
    BY <1>2, <1>4, <1>5, <1>6 DEF Rising, Ended, Wanted
  <2>2. Passing' = Passing
    BY <1>5, <1>6 DEF Passing, RouterTakes
  <2> QED BY <1>3, <1>4, <1>5, <2>1, <2>2, Balanced
<1>7. CASE ~over
  <2>1. Rising' = Rising - 1 /\ Ended' = Ended
    <3>1. Head(events) \in Wanted /\ Head(events) \notin {Over}
      BY <1>1, <1>7 DEF Wanted
    <3>2. /\ Count(events, Wanted) = Count(events', Wanted) + 1
          /\ Count(events, {Over}) = Count(events', {Over})
      BY <1>2, <3>1
    <3>3. Count(engine', Wanted) = Count(engine, Wanted)
          /\ Count(engine', {Over}) = Count(engine, {Over})
      BY <1>5
    <3> QED BY <1>2, <1>4, <3>2, <3>3 DEF Rising, Ended
  <2>2. Count(router, Wanted) = 0 /\ Count(router', Wanted) = 1
    BY <1>1, <1>7, CountEmpty, OneOf DEF RouterTakes
  <2>3. Passing' = Passing + 1
    BY <2>2, <1>4, <1>5 DEF Passing
  <2> QED BY <1>3, <1>4, <1>5, <2>1, <2>3, Balanced
<1> QED BY <1>6, <1>7

LEMMA RouterPassesStep == IInv /\ RouterPasses => IInv'
<1> SUFFICES ASSUME IInv, RouterPasses PROVE IInv'
  OBVIOUS
<1>1. PICK k \in Wanted : router = <<k>>
  BY DEF IInv, Typed, Single, RouterPasses
<1>2. incoming' = Append(incoming, k) /\ incoming \in Seq(Wanted)
  BY <1>1, AppendIsConcat DEF IInv, Typed, Sent, RouterPasses
<1>3. incoming' \in Seq(Wanted)
  BY <1>2, AppendProperties
<1>4. Count(incoming', Wanted) = Count(incoming, Wanted) + 1
  BY <1>2, CountAppend
<1>5. Typed'
  BY <1>3 DEF IInv, Typed, Single, RouterPasses, app
<1>6. /\ Count(router, Wanted) = 1 /\ Count(router', Wanted) = 0
      /\ Count(incoming, Wanted) \in Nat
  BY <1>1, OneOf, CountEmpty, Counted DEF Wanted, RouterPasses, IInv
<1>7. Passing' = Passing
  <2>1. route' = route
    BY DEF RouterPasses
  <2> QED BY <2>1, <1>4, <1>6 DEF Passing
<1>8. UNCHANGED <<Rising, Ended, Held, Settling, owed, arrived>>
  BY DEF RouterPasses, app, Rising, Ended, Held, Settling
<1>9. /\ Rising \in Nat /\ Passing \in Nat /\ Held \in Nat /\ Settling \in Nat
      /\ Ended \in Nat /\ owed \in Int /\ arrived \in Nat
  BY Numbers DEF IInv
<1> QED BY <1>5, <1>7, <1>8, <1>9, Balanced

LEMMA RouteTakesStep == IInv /\ RouteTakes => IInv'
<1> SUFFICES ASSUME IInv, RouteTakes PROVE IInv'
  OBVIOUS
<1> DEFINE kind == Head(incoming)
<1>1. /\ incoming \in Seq(Wanted) /\ incoming # <<>> /\ incoming' = Tail(incoming)
      /\ kind \in Wanted /\ incoming' \in Seq(Wanted)
  BY HeadTailProperties DEF IInv, Typed, RouteTakes
<1>2. /\ Count(incoming, Wanted) = Count(incoming', Wanted) + 1
      /\ Count(incoming', Wanted) \in Nat
  BY <1>1, CountTail, CountType
<1>3. Target(kind) \in {"rest", "trying", "answering", "handing"}
  BY <1>1 DEF Target, Wanted, Kind, Over
<1>4. /\ route = Resting /\ router' = router
      /\ UNCHANGED <<Rising, Ended, Held, Settling, arrived>>
  BY DEF IInv, Typed, Stage, RouteTakes, app, Rising, Ended, Held, Settling
<1>5. /\ Rising \in Nat /\ Passing \in Nat /\ Held \in Nat /\ Settling \in Nat
      /\ Ended \in Nat /\ owed \in Int /\ arrived \in Nat
      /\ Count(router, Wanted) \in Nat
  BY Numbers, Counted DEF IInv
<1>6. CASE Target(kind) = "rest"
  <2>1. route' = Resting /\ owed' = owed - 1
    BY <1>6 DEF RouteTakes
  <2>2. Typed'
    BY <2>1, <1>1 DEF IInv, Typed, Stage, RouteTakes, app
  <2>3. Passing' = Passing - 1
    BY <2>1, <1>2, <1>4, <1>5 DEF Passing
  <2> QED BY <2>1, <2>2, <2>3, <1>4, <1>5, Balanced
<1>7. CASE Target(kind) # "rest"
  <2>1. route' = [at |-> Target(kind), kind |-> kind] /\ owed' = owed
    BY <1>7 DEF RouteTakes
  <2>2. Typed'
    BY <2>1, <1>1, <1>3, <1>7 DEF IInv, Typed, Stage, RouteTakes, app
  <2>3. route' # Resting
    BY <2>1, <1>7 DEF Resting
  <2>4. Passing' = Passing
    BY <2>3, <1>2, <1>4, <1>5 DEF Passing
  <2> QED BY <2>1, <2>2, <2>4, <1>4, <1>5, Balanced
<1> QED BY <1>6, <1>7

\* The route is somewhere on its way.
LEMMA Underway ==
    ASSUME Typed, route.at # "rest"
    PROVE  /\ route # Resting
           /\ route \in [at : {"trying", "answering", "calling", "handing"},
                         kind : Wanted]
BY DEF Typed, Stage, Resting

\* A command is appended.
LEMMA Commanded ==
    ASSUME Typed, NEW c \in {"final", "other"}, commands' = Append(commands, c)
    PROVE  /\ commands' \in Seq({"final", "other"})
           /\ c = "final" => Settling' = Settling + 1
           /\ c = "other" => Settling' = Settling
<1>1. commands \in Seq({"final", "other"}) /\ Settling \in Nat
  BY Numbers DEF Typed
<1>2. commands' \in Seq({"final", "other"})
  BY <1>1, AppendProperties
<1>3. Settling' = Settling + (IF c \in {"final"} THEN 1 ELSE 0)
  BY <1>1, CountAppend DEF Settling
<1> QED BY <1>1, <1>2, <1>3

LEMMA RouteStep ==
    IInv /\ (RouteAnswers \/ RouteTries \/ RouteCalls \/ RouteHands) => IInv'
<1> SUFFICES ASSUME IInv, RouteAnswers \/ RouteTries \/ RouteCalls \/ RouteHands
             PROVE  IInv'
  OBVIOUS
<1>1. /\ Rising \in Nat /\ Passing \in Nat /\ Held \in Nat /\ Settling \in Nat
      /\ Ended \in Nat /\ owed \in Int /\ arrived \in Nat
      /\ Count(router, Wanted) \in Nat /\ Count(incoming, Wanted) \in Nat
      /\ calls \in Nat /\ inbox \in Nat /\ hands \in Nat
  BY Numbers, Counted DEF IInv, Typed
<1>2. /\ route # Resting
      /\ UNCHANGED <<engine, events, router, incoming, arrived, hands>>
  BY Underway DEF IInv, RouteAnswers, RouteTries, RouteCalls, RouteHands, down, app
<1>3. UNCHANGED <<Rising, Ended>>
  BY <1>2 DEF Rising, Ended
<1>4. route' = Resting => Passing' = Passing - 1
  BY <1>1, <1>2 DEF Passing
<1>5. CASE RouteAnswers
  <2>1. commands' \in Seq({"final", "other"}) /\ Settling' = Settling + 1
    BY <1>5, Commanded DEF IInv, RouteAnswers
  <2>2. Typed'
    BY <1>5, <2>1 DEF IInv, Typed, Stage, RouteAnswers, down, app
  <2>3. Passing' = Passing - 1 /\ Held' = Held /\ owed' = owed
    BY <1>4, <1>5 DEF RouteAnswers, app, Held
  <2> QED BY <1>1, <1>2, <1>3, <2>1, <2>2, <2>3, Balanced
<1>6. CASE RouteTries
  <2>1. commands' \in Seq({"final", "other"}) /\ Settling' = Settling
    BY <1>6, Commanded DEF IInv, RouteTries
  <2>2. route' # Resting /\ route' \in Stage
    BY <1>6, Underway DEF IInv, Resting, Stage, RouteTries
  <2>3. Typed'
    BY <1>6, <2>1, <2>2 DEF IInv, Typed, RouteTries, down, app
  <2>4. Passing' = Passing
    BY <1>1, <1>2, <2>2 DEF Passing
  <2>5. Held' = Held /\ owed' = owed
    BY <1>6 DEF RouteTries, app, Held
  <2> QED BY <1>1, <1>2, <1>3, <2>1, <2>3, <2>4, <2>5, Balanced
<1>7. CASE RouteCalls
  <2>1. Typed'
    BY <1>7 DEF IInv, Typed, Stage, RouteCalls, down, app
  <2>2. Passing' = Passing - 1
    BY <1>4, <1>7 DEF RouteCalls
  <2>3. Held' = Held + 1 /\ Settling' = Settling /\ owed' = owed
    BY <1>1, <1>7 DEF RouteCalls, app, Held, Settling
  <2> QED BY <1>1, <1>2, <1>3, <2>1, <2>2, <2>3, Balanced
<1>8. CASE RouteHands
  <2>1. Typed'
    BY <1>8 DEF IInv, Typed, Stage, RouteHands, down, app
  <2>2. Passing' = Passing - 1 /\ Settling' = Settling
    BY <1>4, <1>8 DEF RouteHands, Settling
  <2>3. \/ Held' = Held + 1 /\ owed' = owed
        \/ Held' = Held /\ owed' = owed - 1
    BY <1>1, <1>8 DEF RouteHands, Held
  <2> QED BY <1>1, <1>2, <1>3, <2>1, <2>2, <2>3, Balanced
<1> QED BY <1>5, <1>6, <1>7, <1>8

-----------------------------------------------------------------------------
(* The application's steps. *)

LEMMA StreamStep ==
    IInv /\ (OptIn \/ OptOut \/ Close \/ TakeRequest \/ TakeCall \/ Forget) => IInv'
<1> SUFFICES ASSUME IInv, OptIn \/ OptOut \/ Close \/ TakeRequest \/ TakeCall \/ Forget
             PROVE  IInv'
  OBVIOUS
<1>1. /\ Rising \in Nat /\ Passing \in Nat /\ Held \in Nat /\ Settling \in Nat
      /\ Ended \in Nat /\ owed \in Int /\ arrived \in Nat
      /\ calls \in Nat /\ inbox \in Nat /\ hands \in Nat
  BY Numbers DEF IInv, Typed
<1>2. UNCHANGED <<engine, events, router, incoming, route, commands, arrived>>
  BY DEF OptIn, OptOut, Close, TakeRequest, TakeCall, Forget, down
<1>3. UNCHANGED <<Rising, Ended, Passing, Settling>>
  BY <1>2 DEF Rising, Ended, Passing, Settling
<1>4. CASE OptIn \/ OptOut \/ TakeRequest \/ TakeCall
  <2>1. Typed'
    BY <1>4 DEF IInv, Typed, OptIn, OptOut, TakeRequest, TakeCall, down
  <2>2. Held' = Held /\ owed' = owed
    BY <1>1, <1>4 DEF OptIn, OptOut, TakeRequest, TakeCall, Held
  <2> QED BY <1>1, <1>2, <1>3, <2>1, <2>2, Balanced
<1>5. CASE Close
  <2>1. Typed'
    BY <1>5 DEF IInv, Typed, Close, down
  <2>2. Held' = Held - inbox /\ owed' = owed - inbox
    BY <1>1, <1>5 DEF Close, Held
  <2> QED BY <1>1, <1>2, <1>3, <2>1, <2>2, Balanced
<1>6. CASE Forget
  <2>1. Typed'
    BY <1>6 DEF IInv, Typed, Forget, down
  <2>2. Held' = Held - 1 /\ owed' = owed - 1
    BY <1>1, <1>6 DEF Forget, Held
  <2> QED BY <1>1, <1>2, <1>3, <2>1, <2>2, Balanced
<1> QED BY <1>4, <1>5, <1>6

LEMMA CommandStep == IInv /\ (Respond \/ Own) => IInv'
<1> SUFFICES ASSUME IInv, Respond \/ Own PROVE IInv'
  OBVIOUS
<1>1. /\ Rising \in Nat /\ Passing \in Nat /\ Held \in Nat /\ Settling \in Nat
      /\ Ended \in Nat /\ owed \in Int /\ arrived \in Nat
      /\ calls \in Nat /\ inbox \in Nat /\ hands \in Nat
  BY Numbers DEF IInv, Typed
<1>2. UNCHANGED <<engine, events, router, incoming, route, arrived, owed>>
  BY DEF Respond, Own, down
<1>3. UNCHANGED <<Rising, Ended, Passing>>
  BY <1>2 DEF Rising, Ended, Passing
<1>4. CASE Respond
  <2>1. commands' \in Seq({"final", "other"}) /\ Settling' = Settling + 1
    BY <1>4, Commanded DEF IInv, Respond
  <2>2. Typed'
    BY <1>4, <2>1 DEF IInv, Typed, Respond, down
  <2>3. Held' = Held - 1
    BY <1>1, <1>4 DEF Respond, Held
  <2> QED BY <1>1, <1>2, <1>3, <2>1, <2>2, <2>3, Balanced
<1>5. CASE Own
  <2>1. commands' \in Seq({"final", "other"}) /\ Settling' = Settling
    BY <1>5, Commanded DEF IInv, Own
  <2>2. Typed'
    BY <1>5, <2>1 DEF IInv, Typed, Own, down, app
  <2>3. Held' = Held
    BY <1>5 DEF Own, app, Held
  <2> QED BY <1>1, <1>2, <1>3, <2>1, <2>2, <2>3, Balanced
<1> QED BY <1>4, <1>5

-----------------------------------------------------------------------------
LEMMA StepIInv == IInv /\ [Next]_vars => IInv'
<1> SUFFICES ASSUME IInv, [Next]_vars PROVE IInv'
  OBVIOUS
<1>1. CASE \E kind \in Kind : Arrive(kind)
  BY <1>1, ArriveStep
<1>2. CASE HandUp \/ TakeCommand
  BY <1>2, HandUpStep, TakeCommandStep
<1>3. CASE RouterTakes \/ RouterPasses \/ RouteTakes
  BY <1>3, RouterTakesStep, RouterPassesStep, RouteTakesStep
<1>4. CASE RouteAnswers \/ RouteTries \/ RouteCalls \/ RouteHands
  BY <1>4, RouteStep
<1>5. CASE OptIn \/ OptOut \/ Close \/ TakeRequest \/ TakeCall \/ Forget
  BY <1>5, StreamStep
<1>6. CASE Respond \/ Own
  BY <1>6, CommandStep
<1>7. CASE UNCHANGED vars
  <2>1. UNCHANGED <<Rising, Passing, Held, Settling, Ended>>
    BY <1>7 DEF vars, app, Rising, Passing, Held, Settling, Ended
  <2> QED BY <2>1, <1>7 DEF vars, app, IInv, Typed, NoneLost, Raised
<1> QED BY <1>1, <1>2, <1>3, <1>4, <1>5, <1>6, <1>7 DEF Next

\* No channel loses a request and none is settled twice, whatever the capacities
\* and however the tasks interleave.
THEOREM RequestsAreKept == Spec => []NoneLost
<1>1. IInv => NoneLost
  BY DEF IInv
<1> QED BY InitIInv, StepIInv, <1>1, PTL DEF Spec

LEMMA JamIsFull == IInv => JamTakesAll
<1> SUFFICES ASSUME IInv, Jammed PROVE arrived >= EventRoom + IncomingRoom + 3
  BY DEF JamTakesAll
<1>1. PICK k \in Kind : engine = <<k>>
  BY DEF IInv, Typed, Single, Jammed
<1>2. Count(engine, Wanted) + Count(engine, {Over}) = 1
  <2>1. CASE k = Over
    BY <2>1, <1>1, OneOf
  <2>2. CASE k # Over
    BY <2>2, <1>1, OneOf
  <2> QED BY <2>1, <2>2
<1>3. Count(events, Wanted) + Count(events, {Over}) = EventRoom
  BY CountSplit DEF IInv, Typed, Wanted, Jammed
<1>4. Rising + Ended = 1 + EventRoom
  BY <1>2, <1>3, Counted DEF Rising, Ended, IInv
<1>5. Count(router, Wanted) = 1
  BY OneOf DEF IInv, Typed, Single, Jammed, Wanted
<1>6. Count(incoming, Wanted) = IncomingRoom
  <2>1. Wanted \ {} = Wanted /\ Count(incoming, {}) = 0
    <3>1. {i \in DOMAIN incoming : incoming[i] \in {}} = {}
      OBVIOUS
    <3> QED BY <3>1, FS_EmptySet DEF Count
  <2>2. Count(incoming, Wanted \ {}) + Count(incoming, {}) = Len(incoming)
    BY CountSplit DEF IInv, Typed
  <2> QED BY <2>1, <2>2, Counted DEF Jammed, IInv
<1>7. Passing = 2 + IncomingRoom
  <2>1. route # Resting
    BY DEF Jammed, Resting
  <2> QED BY <2>1, <1>5, <1>6, RoutingAssumption DEF Passing, RoutingAssumption
<1>8. EventRoom \in Nat /\ IncomingRoom \in Nat
  BY RoutingAssumption DEF RoutingAssumption
<1>9. /\ arrived \in Nat /\ owed \in Int /\ Rising \in Nat /\ Held \in Nat
      /\ Settling \in Nat /\ Ended \in Nat
  BY Numbers DEF IInv
<1> QED BY <1>4, <1>7, <1>8, <1>9 DEF IInv, NoneLost, Raised

\* The ring of waits closes on no fewer events than fill the engine's channel and
\* the router's, and the three tasks of the ring.
THEOREM JamNeedsAll == Spec => []JamTakesAll
BY InitIInv, StepIInv, JamIsFull, PTL DEF Spec

=============================================================================
