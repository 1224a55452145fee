------------------------- MODULE AmbientAccessProofs -------------------------
(***************************************************************************)
(* Proofs about the Ambient-IoT simulation, for any number of nodes and     *)
(* base stations, any gains, durations, schedule and energy.  AmbientInv is *)
(* what a step relies on:                                                   *)
(*                                                                         *)
(*   AmbientTypes       the types, and that a process has one wake-up at    *)
(*                      most;                                               *)
(*   SamplesHold        what a node has to send was processed by the time   *)
(*                      it wakes, and was not sent before;                  *)
(*   LogIsSound         what was sent was processed, and sent once;         *)
(*   BuffersHold        a packet is once in a buffer, and not while it      *)
(*                      waits for the next window;                          *)
(*   HeardHolds         a station decides once on a packet at an instant,   *)
(*                      because its own next turn lies behind;              *)
(*   RegistrationHolds  whom a station will acknowledge, and who is         *)
(*                      registered, was decoded.                            *)
(*                                                                         *)
(* A sample is sent once although the controller looks at it in every round *)
(* because it goes from the node in the step that puts it on the air        *)
(* (Pending); it becomes one event because receptions of one sample are of  *)
(* one transmission, and of those decided at one instant with one strength  *)
(* the first station's is preferred, which decides once.                    *)
(***************************************************************************)
EXTENDS AmbientAccess, FiniteSetTheorems, SequenceTheorems, WellFoundedInduction, TLAPS

----------------------------------------------------------------------------
(* Numbers.                                                                 *)

\* A set of naturals that is not empty has a least member.
LEMMA NatMin ==
    ASSUME NEW T, T \subseteq Nat, T # {}
    PROVE  \E x \in T : \A y \in T : x <= y
<1> DEFINE R == {ss \in Nat \X Nat : ss[1] < ss[2]}
<1>1. IsWellFoundedOn(R, Nat)
  BY NatLessThanWellFounded DEF OpToRel
<1>2. \E x \in T : \A y \in T : ~(<<y, x>> \in R)
  <2> HIDE DEF R
  <2> QED
    BY <1>1, WFMin
<1>3. \A x, y \in Nat : ~(<<y, x>> \in R) => x <= y
  BY DEF R
<1> HIDE DEF R
<1> QED
  BY <1>2, <1>3

\* Induction over the naturals up to n, for a set of those that are reached.
LEMMA UpTo ==
    ASSUME NEW n \in Nat, NEW A, 0 \in A, \A i \in 0..n - 1 : i \in A => i + 1 \in A
    PROVE  \A i \in 0..n : i \in A
<1> SUFFICES ASSUME \E i \in 0..n : i \notin A PROVE FALSE
  OBVIOUS
<1> DEFINE T == {i \in 0..n : i \notin A}
<1>1. T \subseteq Nat /\ T # {}
  OBVIOUS
<1>2. PICK k \in T : \A y \in T : k <= y
  <2> HIDE DEF T
  <2> QED
    BY <1>1, NatMin
<1>3. k - 1 \in 0..n - 1 /\ k - 1 \notin T
  BY <1>2
<1> QED
  BY <1>2, <1>3

\* The least of integers that are bounded below.
LEMMA LeastInt ==
    ASSUME NEW S, S \subseteq Int, S # {}, NEW a \in Int, \A x \in S : a <= x
    PROVE  Min(S) \in S /\ \A y \in S : Min(S) <= y
<1> DEFINE T == {x - a : x \in S}
<1>0. \A x \in S : x \in Int /\ x - a \in Nat
  OBVIOUS
<1>1. T \subseteq Nat /\ T # {}
  <2>1. T \subseteq Nat
    BY <1>0
  <2>2. T # {}
    OBVIOUS
  <2> QED
    BY <2>1, <2>2
<1>2. PICK t \in T : \A y \in T : t <= y
  <2> HIDE DEF T
  <2> QED
    BY <1>1, NatMin
<1>3. PICK x \in S : t = x - a
  BY <1>2
<1>4. \A y \in S : y - a \in T
  OBVIOUS
<1>5. \A y \in S : x <= y
  <2> SUFFICES ASSUME NEW y \in S PROVE x <= y
    OBVIOUS
  <2>1. x - a <= y - a
    BY <1>2, <1>3, <1>4
  <2> HIDE DEF T
  <2> QED
    BY <1>0, <2>1
<1> QED
  BY <1>3, <1>5 DEF Min

\* The lesser of two integers, as Min of the set of both.
LEMMA LeastOfTwo ==
    ASSUME NEW a \in Int, NEW b \in Int
    PROVE  Min({a, b}) = (IF a <= b THEN a ELSE b)
BY DEF Min

\* The greater of two integers, as Max of the set of both.
LEMMA MostOfTwo ==
    ASSUME NEW a \in Int, NEW b \in Int
    PROVE  Max({a, b}) = (IF a >= b THEN a ELSE b)
BY DEF Max

\* The greatest of integers that are bounded above.
LEMMA GreatestInt ==
    ASSUME NEW S, S \subseteq Int, S # {}, NEW a \in Int, \A x \in S : x <= a
    PROVE  Max(S) \in S /\ \A y \in S : y <= Max(S)
<1> DEFINE T == {a - x : x \in S}
<1>0. \A x \in S : x \in Int /\ a - x \in Nat
  OBVIOUS
<1>1. T \subseteq Nat /\ T # {}
  <2>1. T \subseteq Nat
    BY <1>0
  <2>2. T # {}
    OBVIOUS
  <2> QED
    BY <2>1, <2>2
<1>2. PICK t \in T : \A y \in T : t <= y
  <2> HIDE DEF T
  <2> QED
    BY <1>1, NatMin
<1>3. PICK x \in S : t = a - x
  BY <1>2
<1>4. \A y \in S : a - y \in T
  OBVIOUS
<1>5. \A y \in S : x >= y
  <2> SUFFICES ASSUME NEW y \in S PROVE x >= y
    OBVIOUS
  <2>1. a - x <= a - y
    BY <1>2, <1>3, <1>4
  <2> HIDE DEF T
  <2> QED
    BY <1>0, <2>1
<1>6. Max(S) \in S /\ \A y \in S : Max(S) >= y
  BY <1>3, <1>5 DEF Max
<1> HIDE DEF T
<1> QED
  BY <1>0, <1>6

\* f begins with base and goes on by one step after the other.
GoesBy(f, n, V, base, step) ==
    /\ f \in [0..n -> V] /\ f[0] = base
    /\ \A i \in 1..n : f[i] = step[i][f[i - 1]]

\* There is such a function.
LEMMA StepByStep ==
    ASSUME NEW n \in Nat, NEW V, NEW base, base \in V, NEW step, step \in [1..n -> [V -> V]]
    PROVE  \E f : GoesBy(f, n, V, base, step)
<1> DEFINE Is(f, k) == f[0] = base /\ \A i \in 1..k : f[i] = step[i][f[i - 1]]
           A == {k \in 0..n : \E f \in [0..k -> V] : Is(f, k)}
<1>1. 0 \in A
  <2> DEFINE f == [i \in 0..0 |-> base]
  <2>1. f \in [0..0 -> V] /\ Is(f, 0)
    OBVIOUS
  <2>2. 0 \in 0..n
    OBVIOUS
  <2> HIDE DEF f, Is
  <2> QED
    BY <2>1, <2>2
<1>2. ASSUME NEW k \in 0..n - 1, k \in A PROVE k + 1 \in A
  <2>1. PICK f \in [0..k -> V] : Is(f, k)
    BY <1>2
  <2>2. k \in 0..k /\ f[k] \in V /\ k + 1 \in 1..n /\ k + 1 \in 0..n
    OBVIOUS
  <2> DEFINE next == step[k + 1][f[k]]
             g == [i \in 0..k + 1 |-> IF i = k + 1 THEN next ELSE f[i]]
  <2>3. next \in V
    BY <2>2
  <2> HIDE DEF next
  <2>4. g \in [0..k + 1 -> V]
    <3>1. ASSUME NEW i \in 0..k + 1 PROVE (IF i = k + 1 THEN next ELSE f[i]) \in V
      <4>1. i # k + 1 => i \in 0..k
        OBVIOUS
      <4> QED
        BY <2>3, <4>1
    <3> QED
      BY <3>1
  <2>5. Is(g, k + 1)
    <3>1. g[0] = base
      BY <2>1
    <3>2. ASSUME NEW i \in 1..k + 1 PROVE g[i] = step[i][g[i - 1]]
      <4>1. i - 1 \in 0..k /\ g[i - 1] = f[i - 1]
        OBVIOUS
      <4>2. CASE i = k + 1
        <5>1. g[i] = next /\ i - 1 = k
          BY <4>2
        <5> QED
          BY <4>1, <4>2, <5>1 DEF next
      <4>3. CASE i # k + 1
        <5>1. i \in 1..k /\ g[i] = f[i]
          BY <4>3
        <5> HIDE DEF g
        <5> QED
          BY <2>1, <4>1, <5>1
      <4> QED
        BY <4>2, <4>3
    <3> QED
      BY <3>1, <3>2
  <2> HIDE DEF g, Is
  <2> QED
    BY <2>2, <2>4, <2>5
<1>3. n \in A
  <2> HIDE DEF A
  <2>1. \A k \in 0..n : k \in A
    BY <1>1, <1>2, UpTo
  <2> QED
    BY <2>1
<1> QED
  BY <1>3 DEF GoesBy

----------------------------------------------------------------------------
(* Sequences without what is not in a set.                                  *)

\* Only, as the last value of the function it is defined by.
LEMMA OnlyIs ==
    ASSUME NEW X, NEW s \in Seq(X), NEW S
    PROVE  \E only :
            /\ only = [i \in 0..Len(s) |->
                  IF i = 0 THEN <<>>
                  ELSE IF s[i] \in S THEN Append(only[i - 1], s[i]) ELSE only[i - 1]]
            /\ Only(s, S) = only[Len(s)]
<1> DEFINE Step(f, i) == IF i = 0 THEN <<>>
                         ELSE IF s[i] \in S THEN Append(f[i - 1], s[i]) ELSE f[i - 1]
           Is(f, n) == \A i \in 0..n : f[i] = Step(f, i)
           A == {n \in 0..Len(s) : \E f : Is(f, n)}
<1>0. Len(s) \in Nat
  BY LenProperties
<1>1. 0 \in A
  <2> DEFINE f == [i \in 0..0 |-> <<>>]
  <2>1. Is(f, 0)
    OBVIOUS
  <2>2. 0 \in 0..Len(s)
    BY <1>0
  <2> HIDE DEF f, Is
  <2> QED
    BY <2>1, <2>2
<1>2. ASSUME NEW n \in 0..Len(s) - 1, n \in A PROVE n + 1 \in A
  <2>1. PICK f : Is(f, n)
    BY <1>2
  <2> DEFINE g == [i \in 0..n + 1 |-> IF i = n + 1 THEN Step(f, n + 1) ELSE f[i]]
  <2>2. ASSUME NEW i \in 0..n + 1 PROVE g[i] = Step(g, i)
    <3>1. i # 0 => g[i - 1] = f[i - 1]
      BY <1>0
    <3>2. CASE i = n + 1
      BY <1>0, <3>1, <3>2
    <3>3. CASE i # n + 1
      <4>1. i \in 0..n /\ g[i] = f[i]
        BY <1>0, <3>3
      <4>2. f[i] = Step(f, i)
        BY <2>1, <4>1
      <4>3. Step(g, i) = Step(f, i)
        <5> HIDE DEF g
        <5> QED
          BY <3>1
      <4> QED
        BY <4>1, <4>2, <4>3
    <3> QED
      BY <3>2, <3>3
  <2>3. n + 1 \in 0..Len(s)
    BY <1>0
  <2> HIDE DEF g, Step
  <2> QED
    BY <2>2, <2>3
<1>3. Len(s) \in A
  <2> HIDE DEF A
  <2>1. Len(s) \in 0..Len(s)
    BY <1>0
  <2> QED
    BY <1>0, <1>1, <1>2, <2>1, UpTo
<1>4. PICK f : Is(f, Len(s))
  BY <1>3
<1> DEFINE h == [i \in 0..Len(s) |-> f[i]]
<1>5. h = [i \in 0..Len(s) |-> Step(h, i)]
  <2>1. ASSUME NEW i \in 0..Len(s) PROVE f[i] = Step(h, i)
    <3>1. i # 0 => h[i - 1] = f[i - 1]
      BY <1>0
    <3>2. f[i] = Step(f, i)
      BY <1>4
    <3> HIDE DEF h
    <3> QED
      BY <3>1, <3>2
  <2>2. h = [i \in 0..Len(s) |-> f[i]]
    OBVIOUS
  <2> HIDE DEF h, Step
  <2> QED
    BY <2>1, <2>2
<1> HIDE DEF h
<1> DEFINE only == CHOOSE k : k = [i \in 0..Len(s) |-> Step(k, i)]
<1>6. only = [i \in 0..Len(s) |-> Step(only, i)]
  <2> HIDE DEF Step
  <2> QED
    BY <1>5
<1>7. Only(s, S) = only[Len(s)]
  BY DEF Only
<1> HIDE DEF only
<1> QED
  BY <1>6, <1>7

\* What Only keeps of a sequence was in it, is in the set, and is kept once.
LEMMA OnlyRules ==
    ASSUME NEW X, NEW s \in Seq(X), NEW S
    PROVE  /\ Only(s, S) \in Seq(X)
           /\ DOMAIN Only(s, S) = 1..Len(Only(s, S)) /\ Len(Only(s, S)) \in Nat
           /\ \A i \in 1..Len(Only(s, S)) : Only(s, S)[i] \in S
                /\ \E k \in 1..Len(s) : Only(s, S)[i] = s[k]
           /\ (\A i, j \in 1..Len(s) : s[i] = s[j] => i = j) =>
                \A i, j \in 1..Len(Only(s, S)) : Only(s, S)[i] = Only(s, S)[j] => i = j
<1>0. Len(s) \in Nat /\ \A i \in 1..Len(s) : s[i] \in X
  BY LenProperties, ElementOfSeq
<1>1. PICK only :
        /\ only = [i \in 0..Len(s) |->
              IF i = 0 THEN <<>>
              ELSE IF s[i] \in S THEN Append(only[i - 1], s[i]) ELSE only[i - 1]]
        /\ Only(s, S) = only[Len(s)]
  BY OnlyIs
<1> DEFINE Apart == \A i, j \in 1..Len(s) : s[i] = s[j] => i = j
           Right(o, n) == /\ o \in Seq(X)
                          /\ \A i \in 1..Len(o) : o[i] \in S /\ \E k \in 1..n : o[i] = s[k]
                          /\ Apart => \A i, j \in 1..Len(o) : o[i] = o[j] => i = j
           A == {n \in 0..Len(s) : Right(only[n], n)}
<1>2. 0 \in A
  <2>1. only[0] = <<>>
    BY <1>0, <1>1
  <2>2. <<>> \in Seq(X) /\ Len(<<>>) = 0
    BY EmptySeq
  <2>3. Right(<<>>, 0)
    BY <2>2
  <2>4. 0 \in 0..Len(s)
    BY <1>0
  <2> HIDE DEF Right
  <2> QED
    BY <2>1, <2>3, <2>4
<1>3. ASSUME NEW n \in 0..Len(s) - 1, n \in A PROVE n + 1 \in A
  <2> DEFINE o == only[n]
             x == s[n + 1]
  <2>0. n + 1 \in 1..Len(s) /\ n + 1 \in 0..Len(s) /\ n + 1 # 0 /\ n + 1 - 1 = n /\ n \in Nat
    BY <1>0
  <2>1. only[n + 1] = IF x \in S THEN Append(o, x) ELSE o
    <3>1. only[n + 1] = IF s[n + 1] \in S THEN Append(only[n + 1 - 1], s[n + 1]) ELSE only[n + 1 - 1]
      <4>1. \A i \in 0..Len(s) : only[i] =
              IF i = 0 THEN <<>>
              ELSE IF s[i] \in S THEN Append(only[i - 1], s[i]) ELSE only[i - 1]
        <5> HIDE DEF A
        <5> QED
          BY <1>1
      <4> QED
        BY <2>0, <4>1
    <3> QED
      BY <2>0, <3>1
  <2>2. Right(o, n)
    BY <1>3
  <2>3. x \in X /\ Len(o) \in Nat
    BY <1>0, <2>0, <2>2, LenProperties
  <2>4. \A k \in 1..n : k \in 1..n + 1 /\ k \in 1..Len(s) /\ k # n + 1
    BY <1>0, <2>0
  <2> HIDE DEF o, x, A
  <2>5. CASE x \notin S
    <3>1. Right(only[n + 1], n + 1)
      BY <2>1, <2>2, <2>4, <2>5
    <3> QED
      BY <2>0, <3>1 DEF A
  <2>6. CASE x \in S
    <3> DEFINE p == Append(o, x)
    <3>1. /\ p \in Seq(X) /\ Len(p) = Len(o) + 1
          /\ \A i \in 1..Len(o) : p[i] = o[i]
          /\ p[Len(o) + 1] = x
      BY <2>2, <2>3, AppendProperties
    <3> HIDE DEF p
    <3>2. ASSUME NEW i \in 1..Len(p) PROVE p[i] \in S /\ \E k \in 1..n + 1 : p[i] = s[k]
      <4>1. CASE i \in 1..Len(o)
        BY <2>2, <2>4, <3>1, <4>1
      <4>2. CASE i = Len(o) + 1
        BY <2>0, <2>6, <3>1, <4>2 DEF x
      <4> QED
        BY <2>3, <3>1, <4>1, <4>2
    <3>3. ASSUME Apart, NEW i \in 1..Len(p), NEW j \in 1..Len(p), p[i] = p[j] PROVE i = j
      <4>1. \A k \in 1..Len(o) : o[k] # x
        <5> SUFFICES ASSUME NEW k \in 1..Len(o), o[k] = x PROVE FALSE
          OBVIOUS
        <5>1. PICK l \in 1..n : o[k] = s[l]
          BY <2>2
        <5> QED
          BY <2>0, <2>4, <3>3, <5>1 DEF x
      <4>2. CASE i \in 1..Len(o) /\ j \in 1..Len(o)
        BY <2>2, <3>1, <3>3, <4>2
      <4>3. CASE i = Len(o) + 1 \/ j = Len(o) + 1
        BY <2>3, <3>1, <3>3, <4>1, <4>3
      <4> QED
        BY <2>3, <3>1, <4>2, <4>3
    <3>4. Right(only[n + 1], n + 1)
      BY <2>1, <2>6, <3>1, <3>2, <3>3 DEF p
    <3> QED
      BY <2>0, <3>4 DEF A
  <2> QED
    BY <2>5, <2>6
<1>4. Len(s) \in A
  <2> HIDE DEF A
  <2>1. Len(s) \in 0..Len(s)
    BY <1>0
  <2> QED
    BY <1>0, <1>2, <1>3, <2>1, UpTo
<1>5. Right(Only(s, S), Len(s))
  BY <1>1, <1>4
<1>6. DOMAIN Only(s, S) = 1..Len(Only(s, S)) /\ Len(Only(s, S)) \in Nat
  BY <1>5, LenProperties
<1> QED
  BY <1>5, <1>6

----------------------------------------------------------------------------
(* The agenda.                                                              *)

Processes == [kind : {"node", "station", "packet"}, id : Nat, tx : Nat]
WakeUps   == [at : Int, who : Processes]

\* No process has two wake-ups.
AgendaHolds(ag) ==
    /\ ag \in Seq(WakeUps)
    /\ \A i, j \in DOMAIN ag : ag[i].who = ag[j].who => i = j

\* The processes of the simulation are told apart.
LEMMA WhoIsWho ==
    /\ \A n, tx \in Nat : /\ Wakes(n) \in Processes /\ Turns(n) \in Processes
                           /\ Late(n, tx) \in Processes
    /\ \A n, b, tx : Wakes(n) # Turns(b) /\ Wakes(n) # Late(b, tx) /\ Turns(n) # Late(b, tx)
    /\ \A n, m : (Wakes(n) = Wakes(m) => n = m) /\ (Turns(n) = Turns(m) => n = m)
    /\ \A b, c, tx, ty : Late(b, tx) = Late(c, ty) => b = c /\ tx = ty
<1>1. \A n, tx : Wakes(n).kind = "node" /\ Turns(n).kind = "station" /\ Late(n, tx).kind = "packet"
  BY DEF Wakes, Turns, Late
<1>2. \A n, tx : Wakes(n).id = n /\ Turns(n).id = n /\ Late(n, tx).id = n /\ Late(n, tx).tx = tx
  BY DEF Wakes, Turns, Late
<1>3. \A n, tx \in Nat : /\ Wakes(n) \in Processes /\ Turns(n) \in Processes
                         /\ Late(n, tx) \in Processes
  BY DEF Wakes, Turns, Late, Processes
<1>4. \A n, b, tx : Wakes(n) # Turns(b) /\ Wakes(n) # Late(b, tx) /\ Turns(n) # Late(b, tx)
  <2> SUFFICES ASSUME NEW n, NEW b, NEW tx
               PROVE  Wakes(n) # Turns(b) /\ Wakes(n) # Late(b, tx) /\ Turns(n) # Late(b, tx)
    OBVIOUS
  <2>1. Wakes(n).kind = "node" /\ Turns(b).kind = "station" /\ Turns(n).kind = "station"
        /\ Late(b, tx).kind = "packet"
    BY <1>1
  <2> QED
    BY <2>1
<1>5. \A n, m : (Wakes(n) = Wakes(m) => n = m) /\ (Turns(n) = Turns(m) => n = m)
  <2> SUFFICES ASSUME NEW n, NEW m
               PROVE  (Wakes(n) = Wakes(m) => n = m) /\ (Turns(n) = Turns(m) => n = m)
    OBVIOUS
  <2>1. Wakes(n).id = n /\ Wakes(m).id = m /\ Turns(n).id = n /\ Turns(m).id = m
    BY <1>2
  <2> QED
    BY <2>1
<1>6. \A b, c, tx, ty : Late(b, tx) = Late(c, ty) => b = c /\ tx = ty
  <2> SUFFICES ASSUME NEW b, NEW c, NEW tx, NEW ty, Late(b, tx) = Late(c, ty) PROVE b = c /\ tx = ty
    OBVIOUS
  <2>1. /\ Late(b, tx).id = b /\ Late(c, ty).id = c
        /\ Late(b, tx).tx = tx /\ Late(c, ty).tx = ty
    BY <1>2
  <2> QED
    BY <2>1
<1> QED
  BY <1>3, <1>4, <1>5, <1>6

\* What is in an agenda is a wake-up of a process.
LEMMA WakeUpsAre ==
    ASSUME NEW ag, AgendaHolds(ag), NEW e \in ToSet(ag)
    PROVE  e.at \in Int /\ e.who \in Processes
<1>1. ag \in Seq(WakeUps) /\ DOMAIN ag = 1..Len(ag)
  BY LenProperties DEF AgendaHolds
<1>2. e \in WakeUps
  BY <1>1, ElementOfSeq DEF ToSet
<1> QED
  BY <1>2 DEF WakeUps

\* The process that runs leaves the agenda.
LEMMA TailOfAgenda ==
    ASSUME NEW ag, AgendaHolds(ag), ag # <<>>
    PROVE  /\ AgendaHolds(Tail(ag))
           /\ ToSet(Tail(ag)) \subseteq ToSet(ag)
           /\ Head(ag) \in ToSet(ag) /\ Head(ag) \in WakeUps
           /\ \A e \in ToSet(Tail(ag)) : e.who # Head(ag).who
<1>1. ag \in Seq(WakeUps) /\ Len(ag) \in Nat /\ DOMAIN ag = 1..Len(ag)
      /\ \A i, j \in 1..Len(ag) : ag[i].who = ag[j].who => i = j
  BY LenProperties DEF AgendaHolds
<1>2. Len(ag) >= 1 /\ Head(ag) = ag[1] /\ Head(ag) \in WakeUps
  BY <1>1, EmptySeq, HeadTailProperties
<1>3. /\ Tail(ag) \in Seq(WakeUps) /\ Len(Tail(ag)) = Len(ag) - 1
      /\ DOMAIN Tail(ag) = 1..Len(ag) - 1
      /\ \A i \in 1..Len(ag) - 1 : Tail(ag)[i] = ag[i + 1]
  BY <1>1, HeadTailProperties, LenProperties
<1>4. \A i, j \in 1..Len(ag) - 1 : i + 1 \in 1..Len(ag) /\ i + 1 # 1 /\ (i + 1 = j + 1 => i = j)
  BY <1>1
<1>5. AgendaHolds(Tail(ag))
  BY <1>1, <1>3, <1>4 DEF AgendaHolds
<1>6. 1 \in 1..Len(ag)
  BY <1>1, <1>2
<1>7. Head(ag) \in ToSet(ag)
  BY <1>1, <1>2, <1>6 DEF ToSet
<1>8. ASSUME NEW e \in ToSet(Tail(ag)) PROVE e \in ToSet(ag) /\ e.who # Head(ag).who
  <2>1. PICK i \in 1..Len(ag) - 1 : e = ag[i + 1]
    BY <1>3 DEF ToSet
  <2> QED
    BY <1>1, <1>2, <1>4, <1>6, <2>1 DEF ToSet
<1> QED
  BY <1>2, <1>5, <1>7, <1>8

\* A process that has no wake-up may be entered.
LEMMA EnterInto ==
    ASSUME NEW ag, AgendaHolds(ag), NEW at \in Int, NEW who \in Processes,
           \A e \in ToSet(ag) : e.who # who
    PROVE  /\ AgendaHolds(Enter(ag, at, who))
           /\ ToSet(Enter(ag, at, who)) \subseteq ToSet(ag) \cup {[at |-> at, who |-> who]}
<1> DEFINE e == [at |-> at, who |-> who]
           ahead == {i \in DOMAIN ag : ag[i].at <= at}
           k == Cardinality(ahead) + 1
           n == Len(ag)
           new == Enter(ag, at, who)
<1>1. ag \in Seq(WakeUps) /\ n \in Nat /\ DOMAIN ag = 1..n /\ e \in WakeUps /\ e.who = who
      /\ \A i, j \in 1..n : ag[i].who = ag[j].who => i = j
  BY LenProperties DEF AgendaHolds, WakeUps
<1>2. k \in 1..n + 1
  <2>1. ahead \subseteq 1..n /\ IsFiniteSet(1..n) /\ Cardinality(1..n) = n
    BY <1>1, FS_Interval
  <2>2. Cardinality(ahead) \in Nat /\ Cardinality(ahead) <= n
    BY <2>1, FS_Subset, FS_CardinalityType
  <2> QED
    BY <1>1, <2>2
<1>3. new = SubSeq(ag, 1, k - 1) \o <<e>> \o SubSeq(ag, k, n)
  BY DEF Enter, InsertAt
<1> HIDE DEF k, new, e, ahead
<1>4. \A i \in 1..n : ag[i] \in WakeUps
  BY <1>1, ElementOfSeq
<1> DEFINE lo == SubSeq(ag, 1, k - 1)
           hi == SubSeq(ag, k, n)
<1>5. /\ lo \in Seq(WakeUps) /\ Len(lo) = k - 1
      /\ \A i \in 1..k - 1 : lo[i] = ag[i]
  <2>1. \A i \in 1..k - 1 : ag[i] \in WakeUps /\ 1 + i - 1 = i
    BY <1>1, <1>2, <1>4
  <2>2. 1 \in Int /\ k - 1 \in Int /\ (IF 1 <= k - 1 THEN k - 1 - 1 + 1 ELSE 0) = k - 1
        /\ k - 1 - 1 + 1 = k - 1
    BY <1>1, <1>2
  <2>3. /\ lo \in Seq(WakeUps) /\ Len(lo) = IF 1 <= k - 1 THEN k - 1 - 1 + 1 ELSE 0
        /\ \A i \in 1..k - 1 - 1 + 1 : lo[i] = ag[1 + i - 1]
    BY <2>1, <2>2, SubSeqProperties
  <2> HIDE DEF lo
  <2> QED
    BY <2>1, <2>2, <2>3
<1>6. /\ hi \in Seq(WakeUps) /\ Len(hi) = n - k + 1
      /\ \A i \in 1..n - k + 1 : hi[i] = ag[k + i - 1]
  <2>1. \A i \in k..n : ag[i] \in WakeUps
    BY <1>1, <1>2, <1>4
  <2>2. k \in Int /\ n \in Int /\ (IF k <= n THEN n - k + 1 ELSE 0) = n - k + 1
    BY <1>1, <1>2
  <2>3. /\ hi \in Seq(WakeUps) /\ Len(hi) = IF k <= n THEN n - k + 1 ELSE 0
        /\ \A i \in 1..n - k + 1 : hi[i] = ag[k + i - 1]
    BY <2>1, <2>2, SubSeqProperties
  <2> HIDE DEF hi
  <2> QED
    BY <2>2, <2>3
<1> HIDE DEF lo, hi
<1> DEFINE one == <<e>>
           front == lo \o one
<1>7. /\ front \in Seq(WakeUps) /\ Len(front) = k
      /\ \A i \in 1..k - 1 : front[i] = ag[i]
      /\ front[k] = e
  <2>1. one \in Seq(WakeUps) /\ Len(one) = 1 /\ one[1] = e
    BY <1>1
  <2> HIDE DEF one
  <2>2. /\ front \in Seq(WakeUps) /\ Len(front) = Len(lo) + Len(one)
        /\ \A i \in 1..Len(lo) + Len(one) :
              front[i] = IF i <= Len(lo) THEN lo[i] ELSE one[i - Len(lo)]
    BY <1>5, <2>1, ConcatProperties
  <2>3. k - 1 + 1 = k /\ k \in 1..k /\ k - (k - 1) = 1 /\ ~(k <= k - 1)
        /\ \A i \in 1..k - 1 : i \in 1..k /\ i <= k - 1
    BY <1>1, <1>2
  <2> HIDE DEF front
  <2>4. Len(lo) + Len(one) = k
    BY <1>5, <2>1, <2>3
  <2>5. front[k] = one[1]
    <3>1. front[k] = IF k <= Len(lo) THEN lo[k] ELSE one[k - Len(lo)]
      BY <2>2, <2>3, <2>4
    <3>2. ~(k <= Len(lo)) /\ k - Len(lo) = 1
      BY <1>5, <2>3
    <3> QED
      BY <3>1, <3>2
  <2>6. \A i \in 1..k - 1 : front[i] = ag[i]
    BY <1>5, <2>2, <2>3, <2>4
  <2> QED
    BY <2>1, <2>2, <2>4, <2>5, <2>6
<1> HIDE DEF front
<1>8. /\ new \in Seq(WakeUps) /\ Len(new) = n + 1
      /\ \A i \in 1..n + 1 : new[i] = IF i <= k THEN front[i] ELSE hi[i - k]
  <2>1. new = front \o hi
    BY <1>3 DEF front, one, lo, hi
  <2>2. k + (n - k + 1) = n + 1
    BY <1>1, <1>2
  <2> HIDE DEF hi, lo, one
  <2>3. /\ front \o hi \in Seq(WakeUps) /\ Len(front \o hi) = Len(front) + Len(hi)
        /\ \A i \in 1..Len(front) + Len(hi) :
              (front \o hi)[i] = IF i <= Len(front) THEN front[i] ELSE hi[i - Len(front)]
    BY <1>6, <1>7, ConcatProperties
  <2>4. Len(front) = k /\ Len(front) + Len(hi) = n + 1
    BY <1>6, <1>7, <2>2
  <2> QED
    BY <2>1, <2>3, <2>4
<1>9. /\ new[k] = e
      /\ \A i \in 1..n + 1 : i < k => i \in 1..n /\ new[i] = ag[i]
      /\ \A i \in 1..n + 1 : i > k => i - 1 \in 1..n /\ new[i] = ag[i - 1]
  <2>1. k \in 1..n + 1 /\ k <= k
    BY <1>1, <1>2
  <2>2. ASSUME NEW i \in 1..n + 1, i < k PROVE i \in 1..n /\ new[i] = ag[i]
    <3>1. i \in 1..n /\ i \in 1..k - 1 /\ i <= k
      BY <1>1, <1>2, <2>2
    <3> QED
      BY <1>7, <1>8, <3>1
  <2>3. ASSUME NEW i \in 1..n + 1, i > k PROVE i - 1 \in 1..n /\ new[i] = ag[i - 1]
    <3>1. i - 1 \in 1..n /\ i - k \in 1..n - k + 1 /\ ~(i <= k) /\ k + (i - k) - 1 = i - 1
      BY <1>1, <1>2, <2>3
    <3> QED
      BY <1>6, <1>8, <3>1
  <2> QED
    BY <1>7, <1>8, <2>1, <2>2, <2>3
<1>10. DOMAIN new = 1..n + 1
  BY <1>8, LenProperties
<1>11. ASSUME NEW i \in 1..n + 1 PROVE i = k \/ i < k \/ i > k
  BY <1>1, <1>2
<1>12. \A i \in 1..n : ag[i].who # who /\ ag[i] \in ToSet(ag)
  BY <1>1 DEF ToSet
<1>13. \A i, j \in 1..n + 1 : new[i].who = new[j].who => i = j
  <2> SUFFICES ASSUME NEW i \in 1..n + 1, NEW j \in 1..n + 1, new[i].who = new[j].who PROVE i = j
    OBVIOUS
  <2>1. CASE i = k \/ j = k
    BY <1>1, <1>9, <1>11, <1>12, <2>1
  <2>2. CASE i # k /\ j # k
    <3> DEFINE At(x) == IF x < k THEN x ELSE x - 1
    <3>1. \A x \in 1..n + 1 : x # k => At(x) \in 1..n /\ new[x] = ag[At(x)]
      BY <1>9, <1>11
    <3>2. At(i) = At(j)
      <4> HIDE DEF At
      <4> QED
        BY <1>1, <2>2, <3>1
    <3> QED
      BY <1>1, <1>2, <2>2, <3>2
  <2> QED
    BY <2>1, <2>2
<1>14. AgendaHolds(new)
  BY <1>8, <1>10, <1>13 DEF AgendaHolds
<1>15. ToSet(new) \subseteq ToSet(ag) \cup {e}
  <2> SUFFICES ASSUME NEW x \in ToSet(new) PROVE x \in ToSet(ag) \/ x = e
    OBVIOUS
  <2>1. PICK i \in 1..n + 1 : x = new[i]
    BY <1>10 DEF ToSet
  <2> QED
    BY <1>9, <1>11, <1>12, <2>1
<1> QED
  BY <1>14, <1>15 DEF new, e

\* Deferred, as the last value of the function it is defined by.
LEMMA DeferredIs ==
    ASSUME NEW packet, NEW tx, NEW t, NEW ag
    PROVE  \E behind :
            /\ behind = [b \in 0..NumStations |->
                  IF b = 0 THEN ag
                  ELSE IF b \in Seen(packet.node) /\ Defers(station[b], packet, t)
                  THEN Enter(behind[b - 1], t, Late(b, tx)) ELSE behind[b - 1]]
            /\ Deferred(packet, tx, t, ag) = behind[NumStations]
<1> DEFINE Step(f, b) == IF b = 0 THEN ag
                         ELSE IF b \in Seen(packet.node) /\ Defers(station[b], packet, t)
                         THEN Enter(f[b - 1], t, Late(b, tx)) ELSE f[b - 1]
           Is(f, n) == \A b \in 0..n : f[b] = Step(f, b)
           A == {n \in 0..NumStations : \E f : Is(f, n)}
<1>0. NumStations \in Nat
  BY AmbientAssumption
<1>1. 0 \in A
  <2> DEFINE f == [b \in 0..0 |-> ag]
  <2>1. Is(f, 0)
    OBVIOUS
  <2>2. 0 \in 0..NumStations
    BY <1>0
  <2> HIDE DEF f, Is
  <2> QED
    BY <2>1, <2>2
<1>2. ASSUME NEW n \in 0..NumStations - 1, n \in A PROVE n + 1 \in A
  <2>1. PICK f : Is(f, n)
    BY <1>2
  <2> DEFINE g == [b \in 0..n + 1 |-> IF b = n + 1 THEN Step(f, n + 1) ELSE f[b]]
  <2>2. ASSUME NEW b \in 0..n + 1 PROVE g[b] = Step(g, b)
    <3>1. b # 0 => g[b - 1] = f[b - 1]
      BY <1>0
    <3>2. CASE b = n + 1
      BY <1>0, <3>1, <3>2
    <3>3. CASE b # n + 1
      <4>1. b \in 0..n /\ g[b] = f[b]
        BY <1>0, <3>3
      <4>2. f[b] = Step(f, b)
        BY <2>1, <4>1
      <4>3. Step(g, b) = Step(f, b)
        <5> HIDE DEF g
        <5> QED
          BY <3>1
      <4> QED
        BY <4>1, <4>2, <4>3
    <3> QED
      BY <3>2, <3>3
  <2>3. n + 1 \in 0..NumStations
    BY <1>0
  <2> HIDE DEF g, Step
  <2> QED
    BY <2>2, <2>3
<1>3. NumStations \in A
  <2> HIDE DEF A
  <2>1. NumStations \in 0..NumStations
    BY <1>0
  <2> QED
    BY <1>0, <1>1, <1>2, <2>1, UpTo
<1>4. PICK f : Is(f, NumStations)
  BY <1>3
<1> DEFINE h == [b \in 0..NumStations |-> f[b]]
<1>5. h = [b \in 0..NumStations |-> Step(h, b)]
  <2>1. ASSUME NEW b \in 0..NumStations PROVE f[b] = Step(h, b)
    <3>1. b # 0 => h[b - 1] = f[b - 1]
      BY <1>0
    <3>2. f[b] = Step(f, b)
      BY <1>4
    <3> HIDE DEF h
    <3> QED
      BY <3>1, <3>2
  <2>2. h = [b \in 0..NumStations |-> f[b]]
    OBVIOUS
  <2> HIDE DEF h, Step
  <2> QED
    BY <2>1, <2>2
<1> HIDE DEF h
<1> DEFINE behind == CHOOSE k : k = [b \in 0..NumStations |-> Step(k, b)]
<1>6. behind = [b \in 0..NumStations |-> Step(behind, b)]
  <2> HIDE DEF Step
  <2> QED
    BY <1>5
<1>7. Deferred(packet, tx, t, ag) = behind[NumStations]
  BY DEF Deferred
<1> HIDE DEF behind
<1> QED
  BY <1>6, <1>7

\* Of every station that defers the packet there is one wake-up more.
LEMMA DeferredAgenda ==
    ASSUME NEW packet, NEW tx \in Nat, NEW t \in Int, NEW ag, AgendaHolds(ag),
           \A b \in Stations : \A e \in ToSet(ag) : e.who # Late(b, tx)
    PROVE  /\ AgendaHolds(Deferred(packet, tx, t, ag))
           /\ \A e \in ToSet(Deferred(packet, tx, t, ag)) :
                \/ e \in ToSet(ag)
                \/ \E b \in Stations : /\ Defers(station[b], packet, t)
                                       /\ e = [at |-> t, who |-> Late(b, tx)]
<1>0. NumStations \in Nat
  BY AmbientAssumption
<1>1. PICK behind :
        /\ behind = [b \in 0..NumStations |->
              IF b = 0 THEN ag
              ELSE IF b \in Seen(packet.node) /\ Defers(station[b], packet, t)
              THEN Enter(behind[b - 1], t, Late(b, tx)) ELSE behind[b - 1]]
        /\ Deferred(packet, tx, t, ag) = behind[NumStations]
  BY DeferredIs
<1> DEFINE Right(x, n) ==
              /\ AgendaHolds(x)
              /\ \A e \in ToSet(x) :
                   \/ e \in ToSet(ag)
                   \/ \E b \in 1..n : /\ Defers(station[b], packet, t)
                                      /\ e = [at |-> t, who |-> Late(b, tx)]
           A == {n \in 0..NumStations : Right(behind[n], n)}
<1>2. \A b \in 0..NumStations : behind[b] =
              IF b = 0 THEN ag
              ELSE IF b \in Seen(packet.node) /\ Defers(station[b], packet, t)
              THEN Enter(behind[b - 1], t, Late(b, tx)) ELSE behind[b - 1]
  <2> HIDE DEF A
  <2> QED
    BY <1>1
<1>3. 0 \in A
  <2>1. behind[0] = ag /\ 0 \in 0..NumStations
    BY <1>0, <1>2
  <2>2. Right(ag, 0)
    OBVIOUS
  <2> HIDE DEF Right
  <2> QED
    BY <2>1, <2>2
<1>4. ASSUME NEW n \in 0..NumStations - 1, n \in A PROVE n + 1 \in A
  <2> DEFINE x == behind[n]
             b == n + 1
             e == [at |-> t, who |-> Late(b, tx)]
  <2>0. b \in 1..NumStations /\ b \in 0..NumStations /\ b # 0 /\ b - 1 = n /\ b \in Nat
        /\ b \in 1..b /\ \A c \in 1..n : c \in 1..b /\ c # b /\ c \in Nat
    BY <1>0
  <2>1. behind[b] = IF b \in Seen(packet.node) /\ Defers(station[b], packet, t)
                    THEN Enter(x, t, Late(b, tx)) ELSE x
    <3> HIDE DEF b
    <3> QED
      BY <1>2, <2>0
  <2>2. Right(x, n)
    BY <1>4
  <2> HIDE DEF x, A, b
  <2>3. CASE ~(b \in Seen(packet.node) /\ Defers(station[b], packet, t))
    <3>1. Right(behind[b], b)
      BY <2>0, <2>1, <2>2, <2>3
    <3> QED
      BY <2>0, <3>1 DEF A, b
  <2>4. CASE b \in Seen(packet.node) /\ Defers(station[b], packet, t)
    <3>1. Late(b, tx) \in Processes /\ b \in Stations
      BY <2>0, WhoIsWho DEF Stations
    <3>2. \A y \in ToSet(x) : y.who # Late(b, tx)
      <4> SUFFICES ASSUME NEW y \in ToSet(x), y.who = Late(b, tx) PROVE FALSE
        OBVIOUS
      <4>1. y \notin ToSet(ag)
        BY <3>1
      <4>2. PICK c \in 1..n : y = [at |-> t, who |-> Late(c, tx)]
        BY <2>2, <4>1
      <4>3. Late(c, tx) = Late(b, tx)
        BY <4>2
      <4> QED
        BY <2>0, <4>3, WhoIsWho
    <3>3. AgendaHolds(Enter(x, t, Late(b, tx))) /\ ToSet(Enter(x, t, Late(b, tx))) \subseteq ToSet(x) \cup {e}
      BY <2>2, <3>1, <3>2, EnterInto
    <3>4. Right(behind[b], b)
      <4> HIDE DEF e
      <4>1. behind[b] = Enter(x, t, Late(b, tx))
        BY <2>1, <2>4
      <4>2. ASSUME NEW y \in ToSet(behind[b])
            PROVE  y \in ToSet(ag) \/ \E c \in 1..b : /\ Defers(station[c], packet, t)
                                                      /\ y = [at |-> t, who |-> Late(c, tx)]
        <5>1. CASE y \in ToSet(x)
          BY <2>0, <2>2, <5>1
        <5>2. CASE y = e
          BY <2>0, <2>4, <5>2 DEF e
        <5> QED
          BY <3>3, <4>1, <5>1, <5>2
      <4> QED
        BY <3>3, <4>1, <4>2
    <3> QED
      BY <2>0, <3>4 DEF A, b
  <2> QED
    BY <2>3, <2>4
<1>5. NumStations \in A
  <2> HIDE DEF A
  <2>1. NumStations \in 0..NumStations
    BY <1>0
  <2> QED
    BY <1>0, <1>3, <1>4, <2>1, UpTo
<1> QED
  BY <1>1, <1>5 DEF Stations

----------------------------------------------------------------------------
(* Schedules.                                                               *)

Entries ==
    {e \in [mode : {"tx", "rx"}, ms : Nat \ {0},
            cmd : {"none", "send_data", "send_id", "ack", "aloha_frame"}, target : Nat] :
        (e.mode = "tx" => e.cmd # "none") /\ (Static => e.cmd # "aloha_frame")}

AirSlots == [start : Int, end : Int]

ProtocolHolds == protocol.name \in Protocols

\* A base station is at an entry of its frame, once it has one.
StationHolds(st) ==
    /\ DOMAIN st = {"mode", "settling", "frame", "size", "idx", "frameStart", "rxStart",
                    "rxEnd", "expect", "buffer", "pendingAck", "outcomes"}
    /\ st.frame \in Seq(Entries) /\ st.idx \in 0..Len(st.frame)
    /\ st.frame # <<>> => st.idx >= 1
    /\ st.size \in Nat /\ st.frameStart \in Int

\* Commands and slots are entries of a schedule.
LEMMA EntriesAre ==
    /\ \A x \in Nat : Listen(x) \in Entries
    /\ \A x \in Nat, c \in {"send_data", "send_id", "ack"} : Command(c, x) \in Entries
    /\ ~Static => Command("aloha_frame", Everyone) \in Entries
<1>1. RxMs \in Nat \ {0} /\ TxMs \in Nat \ {0} /\ Everyone \in Nat
  BY AmbientAssumption DEF Everyone
<1>2. ASSUME NEW x \in Nat PROVE Listen(x) \in Entries
  BY <1>1 DEF Listen, Entries
<1>3. ASSUME NEW x \in Nat, NEW c \in {"send_data", "send_id", "ack"} PROVE Command(c, x) \in Entries
  BY <1>1 DEF Command, Entries
<1>4. ASSUME ~Static PROVE Command("aloha_frame", Everyone) \in Entries
  BY <1>1, <1>4 DEF Command, Entries
<1> QED
  BY <1>2, <1>3, <1>4

\* A run of slots is a schedule.
LEMMA ListenAnyIs ==
    ASSUME NEW n \in Nat
    PROVE  ListenAny(n) \in Seq(Entries)
<1>1. Listen(Everyone) \in Entries
  BY EntriesAre DEF Everyone
<1> QED
  BY <1>1 DEF ListenAny

\* What is put in front of a schedule.
LEMMA Joined ==
    ASSUME NEW X, NEW a \in X, NEW s \in Seq(X)
    PROVE  <<a>> \o s \in Seq(X) /\ <<a>> \o s # <<>>
<1> DEFINE one == <<a>>
<1>1. one \in Seq(X) /\ Len(one) = 1
  OBVIOUS
<1> HIDE DEF one
<1>2. one \o s \in Seq(X) /\ Len(one \o s) = 1 + Len(s) /\ Len(s) \in Nat
  BY <1>1, ConcatProperties, LenProperties
<1>3. 1 + Len(s) # 0
  BY <1>2
<1>4. one \o s # <<>>
  BY <1>2, <1>3, EmptySeq
<1> QED
  BY <1>2, <1>4 DEF one

\* The static schedules are sequences of entries, and not empty.
LEMMA SchedulesAre ==
    /\ Broadcast \in Seq(Entries) /\ Broadcast # <<>>
    /\ Unicast \in Seq(Entries) /\ Unicast # <<>>
<1>1. Slots \in Nat /\ NumNodes \in Nat /\ NumNodes # 0 /\ Everyone \in Nat
  BY AmbientAssumption DEF Everyone
<1>2. Broadcast \in Seq(Entries) /\ Broadcast # <<>>
  <2>1. ListenAny(Slots) \in Seq(Entries) /\ Command("send_data", Everyone) \in Entries
    BY <1>1, ListenAnyIs, EntriesAre
  <2> QED
    BY <2>1, Joined DEF Broadcast
<1>3. ASSUME NEW i \in 1..2 * NumNodes
      PROVE  (IF i % 2 = 1 THEN Command("send_data", (i + 1) \div 2) ELSE Listen(i \div 2)) \in Entries
  <2>1. (i + 1) \div 2 \in Nat /\ i \div 2 \in Nat
    BY <1>1
  <2> QED
    BY <2>1, EntriesAre
<1>4. 2 * NumNodes \in Nat /\ 2 * NumNodes # 0
  BY <1>1
<1> DEFINE m == 2 * NumNodes
           entry(i) == IF i % 2 = 1 THEN Command("send_data", (i + 1) \div 2) ELSE Listen(i \div 2)
<1>5. Unicast = [i \in 1..m |-> entry(i)]
  BY DEF Unicast
<1>6. \A i \in 1..m : entry(i) \in Entries
  BY <1>3
<1>7. m \in Nat /\ m # 0
  BY <1>4
<1> HIDE DEF m, entry
<1>8. Unicast \in Seq(Entries) /\ Len(Unicast) = m
  BY <1>5, <1>6, <1>7
<1> QED
  BY <1>2, <1>7, <1>8, EmptySeq

\* Registration in front of a schedule is a schedule.
LEMMA RegisteringIs ==
    ASSUME NEW s \in Seq(Entries), s # <<>>
    PROVE  WithRegistration(s) \in Seq(Entries) /\ WithRegistration(s) # <<>>
<1>1. CASE protocol.preRegistered
  BY <1>1 DEF WithRegistration
<1>2. CASE ~protocol.preRegistered
  <2>1. /\ ListenAny(RegistrationSlots) \in Seq(Entries)
        /\ Command("send_id", Everyone) \in Entries /\ Command("ack", Everyone) \in Entries
    BY ListenAnyIs, EntriesAre, AmbientAssumption DEF Everyone
  <2> DEFINE one == <<Command("send_id", Everyone)>>
             two == ListenAny(RegistrationSlots)
             three == <<Command("ack", Everyone)>>
  <2>2. WithRegistration(s) = one \o two \o three \o s
    BY <1>2 DEF WithRegistration
  <2>3. one \o two \in Seq(Entries) /\ one \o two # <<>>
    BY <2>1, Joined
  <2>4. three \in Seq(Entries)
    BY <2>1
  <2> HIDE DEF one, two, three
  <2>5. one \o two \o three \in Seq(Entries) /\ one \o two \o three # <<>>
    BY <2>3, <2>4, ConcatProperties, ConcatEqualIffEmpty, EmptySeq
  <2>6. one \o two \o three \o s \in Seq(Entries) /\ one \o two \o three \o s # <<>>
    BY <2>5, ConcatProperties, ConcatEqualIffEmpty, EmptySeq
  <2> QED
    BY <2>2, <2>6
<1> QED
  BY <1>1, <1>2

\* Every frame has an entry.
LEMMA FramesAre ==
    ASSUME ProtocolHolds, NEW size \in Nat
    PROVE  FrameOf(size) \in Seq(Entries) /\ FrameOf(size) # <<>>
<1>1. protocol.name \in {"broadcast", "unicast", "adaptive_aloha"}
  BY AmbientAssumption DEF ProtocolHolds
<1>2. CASE protocol.name = "broadcast"
  BY <1>2, SchedulesAre, RegisteringIs DEF FrameOf
<1>3. CASE protocol.name = "unicast"
  BY <1>3, SchedulesAre, RegisteringIs DEF FrameOf
<1>4. CASE protocol.name = "adaptive_aloha"
  <2>1. Command("aloha_frame", Everyone) \in Entries /\ ListenAny(size) \in Seq(Entries)
    BY <1>4, EntriesAre, ListenAnyIs DEF Static
  <2>2. FrameOf(size) = <<Command("aloha_frame", Everyone)>> \o ListenAny(size)
    BY <1>4 DEF FrameOf, AdaptiveFrame
  <2> QED
    BY <2>1, <2>2, Joined
<1> QED
  BY <1>1, <1>2, <1>3, <1>4

\* The sizes of adaptive frames are naturals.
LEMMA SizesAre ==
    /\ FirstSize \in Nat
    /\ \A size \in Nat : \A outcomes : NextSize(size, outcomes) \in Nat
<1>1. MinSlots \in Nat /\ MaxSlots \in Nat /\ Slots \in Nat
  BY AmbientAssumption
<1>2. FirstSize \in Nat
  <2>1. Min({MaxSlots, Slots}) \in Nat
    BY <1>1, LeastOfTwo
  <2> QED
    BY <1>1, <2>1, MostOfTwo DEF FirstSize
<1>3. ASSUME NEW size \in Nat, NEW outcomes PROVE NextSize(size, outcomes) \in Nat
  <2>1. 2 * size \in Nat /\ size \div 2 \in Nat
    OBVIOUS
  <2>2. Min({MaxSlots, 2 * size}) \in Nat
    BY <1>1, <2>1, LeastOfTwo
  <2>3. Max({MinSlots, size \div 2}) \in Nat
    BY <1>1, <2>1, MostOfTwo
  <2> QED
    BY <2>2, <2>3 DEF NextSize
<1> QED
  BY <1>2, <1>3

\* The next entry is an entry of the station's frame.
LEMMA AdvanceHolds ==
    ASSUME ProtocolHolds, NEW st, StationHolds(st), NEW t \in Int
    PROVE  LET new == Advance(st, t)
           IN  /\ StationHolds(new) /\ new.frame # <<>> /\ new.frame[new.idx] \in Entries
               /\ new.buffer = st.buffer /\ new.pendingAck = st.pendingAck
               /\ new.mode = st.mode
<1> DEFINE new == Advance(st, t)
<1>0. Len(st.frame) \in Nat /\ st.idx \in Nat
  BY LenProperties DEF StationHolds
<1>1. CASE st.idx < Len(st.frame)
  <2>1. new = [st EXCEPT !.idx = @ + 1]
    BY <1>1 DEF Advance
  <2>2. new.frame = st.frame /\ new.idx = st.idx + 1 /\ DOMAIN new = DOMAIN st
        /\ new.size = st.size /\ new.frameStart = st.frameStart
        /\ new.buffer = st.buffer /\ new.pendingAck = st.pendingAck /\ new.mode = st.mode
    BY <2>1 DEF StationHolds
  <2>3. st.idx + 1 \in 1..Len(st.frame) /\ st.idx + 1 \in 0..Len(st.frame) /\ st.idx + 1 >= 1
    BY <1>0, <1>1
  <2>4. StationHolds(new)
    BY <2>2, <2>3 DEF StationHolds
  <2>5. new.frame[new.idx] \in Entries
    BY <2>2, <2>3, ElementOfSeq DEF StationHolds
  <2>6. new.frame # <<>>
    BY <1>0, <1>1, <2>2, EmptySeq
  <2> QED
    BY <2>2, <2>4, <2>5, <2>6
<1>2. CASE ~(st.idx < Len(st.frame))
  <2> DEFINE size == IF st.frame = <<>> THEN FirstSize
                     ELSE IF protocol.name = "adaptive_aloha" THEN NextSize(st.size, st.outcomes)
                     ELSE st.size
  <2>1. new = [st EXCEPT !.frame = FrameOf(size), !.size = size, !.idx = 1,
                        !.frameStart = t, !.outcomes = <<>>]
    BY <1>2 DEF Advance
  <2>2. size \in Nat
    BY SizesAre DEF StationHolds
  <2> HIDE DEF size
  <2>3. FrameOf(size) \in Seq(Entries) /\ FrameOf(size) # <<>>
    BY <2>2, FramesAre
  <2>4. Len(FrameOf(size)) \in Nat \ {0}
    BY <2>3, EmptySeq
  <2>5. new.frame = FrameOf(size) /\ new.idx = 1 /\ DOMAIN new = DOMAIN st
        /\ new.size = size /\ new.frameStart = t
        /\ new.buffer = st.buffer /\ new.pendingAck = st.pendingAck /\ new.mode = st.mode
    BY <2>1 DEF StationHolds
  <2>6. 1 \in 1..Len(FrameOf(size)) /\ 1 \in 0..Len(FrameOf(size)) /\ 1 >= 1
    BY <2>4
  <2>7. StationHolds(new)
    BY <2>2, <2>3, <2>5, <2>6 DEF StationHolds
  <2>8. new.frame[new.idx] \in Entries
    BY <2>3, <2>5, <2>6, ElementOfSeq
  <2> QED
    BY <2>3, <2>5, <2>7, <2>8
<1> QED
  BY <1>1, <1>2

\* The duration of entries is an integer.
LEMMA SpanIs ==
    ASSUME NEW frame, NEW k \in Nat
    PROVE  Span(frame, k) \in Int
<1>1. Cardinality({i \in 1..k : frame[i].mode = "rx"}) \in Nat
  <2>1. {i \in 1..k : frame[i].mode = "rx"} \subseteq 1..k /\ IsFiniteSet(1..k)
    BY FS_Interval
  <2> QED
    BY <2>1, FS_Subset, FS_CardinalityType
<1>2. \A x, y, r, s \in Int : x * r + (y - x) * s \in Int
  OBVIOUS
<1>3. RxMs \in Int /\ TxMs \in Int
  BY AmbientAssumption
<1> QED
  BY <1>1, <1>2, <1>3 DEF Span

\* The coming slots of a station are slots on the air.
LEMMA SlotsAre ==
    ASSUME NEW st, StationHolds(st), st.frame # <<>>, NEW after
    PROVE  NextRxSlots(st, after) \in Seq(AirSlots)
<1> DEFINE size == Len(st.frame)
           Place(k) == (st.idx - 1 + k) % size
           Start(k) == st.frameStart + ((st.idx - 1 + k) \div size) * Span(st.frame, size)
                         + Span(st.frame, Place(k))
           numbers == [k \in 1..2 * size |-> k]
           S == {k \in 1..2 * size : st.frame[Place(k) + 1].mode = "rx" /\ Start(k) >= after}
           offered == Only(numbers, S)
<1>1. size \in Nat \ {0} /\ st.idx \in Nat /\ st.idx >= 1 /\ st.frameStart \in Int
  BY EmptySeq DEF StationHolds
<1>2. \A k \in Nat : Start(k) \in Int
  <2> HIDE DEF size
  <2> SUFFICES ASSUME NEW k \in Nat PROVE Start(k) \in Int
    OBVIOUS
  <2>1. Place(k) \in Nat
    BY <1>1
  <2>2. Span(st.frame, size) \in Int /\ Span(st.frame, Place(k)) \in Int
    BY <1>1, <2>1, SpanIs
  <2>3. (st.idx - 1 + k) \div size \in Int
    BY <1>1
  <2>4. \A a, x, y, z \in Int : a + x * y + z \in Int
    OBVIOUS
  <2> HIDE DEF Place
  <2> QED
    BY <1>1, <2>2, <2>3, <2>4
<1>3. NextRxSlots(st, after) = [i \in DOMAIN offered |->
            [start |-> Start(offered[i]), end |-> Start(offered[i]) + RxMs]]
  BY DEF NextRxSlots
<1> HIDE DEF Start
<1>4. numbers \in Seq(Nat)
  <2>1. 2 * size \in Nat
    BY <1>1
  <2> QED
    BY <2>1
<1> HIDE DEF numbers, S
<1>5. offered \in Seq(Nat)
  BY <1>4, OnlyRules
<1>6. Len(offered) \in Nat /\ DOMAIN offered = 1..Len(offered)
      /\ \A i \in 1..Len(offered) : offered[i] \in Nat
  BY <1>5, LenProperties, ElementOfSeq
<1> HIDE DEF offered
<1>7. \A i \in 1..Len(offered) :
         [start |-> Start(offered[i]), end |-> Start(offered[i]) + RxMs] \in AirSlots
  <2> SUFFICES ASSUME NEW i \in 1..Len(offered)
               PROVE  [start |-> Start(offered[i]), end |-> Start(offered[i]) + RxMs] \in AirSlots
    OBVIOUS
  <2>0. RxMs \in Int
    BY AmbientAssumption
  <2>1. offered[i] \in Nat /\ Start(offered[i]) \in Int
    BY <1>2, <1>6
  <2> DEFINE from == Start(offered[i])
  <2> HIDE DEF from
  <2>2. from \in Int
    BY <2>1 DEF from
  <2>3. [start |-> from, end |-> from + RxMs] \in AirSlots
    BY <2>0, <2>2 DEF AirSlots
  <2> QED
    BY <2>3 DEF from
<1> QED
  BY <1>3, <1>6, <1>7

\* So are the slots that a command advertises.
LEMMA AdvertisedIs ==
    ASSUME NEW st, StationHolds(st), st.frame # <<>>, NEW e, NEW t
    PROVE  /\ Advertised(st, e, t) \in Seq(AirSlots)
           /\ 1..Max({1, Len(Advertised(st, e, t))}) \subseteq Nat
<1> DEFINE slots == NextRxSlots(st, t + e.ms)
           given == Advertised(st, e, t)
<1>1. slots \in Seq(AirSlots)
  BY SlotsAre
<1> HIDE DEF slots
<1>2. Len(slots) \in Nat /\ \A i \in 1..Len(slots) : slots[i] \in AirSlots
  BY <1>1, LenProperties, ElementOfSeq
<1> DEFINE m == Min({1, Len(slots)})
<1>3. m \in Int /\ m <= Len(slots)
  BY <1>2, LeastOfTwo
<1>4. SubSeq(slots, 1, m) \in Seq(AirSlots)
  <2> HIDE DEF m
  <2>1. \A i \in 1..m : slots[i] \in AirSlots
    BY <1>2, <1>3
  <2> QED
    BY <1>3, <2>1, SubSeqProperties
<1>5. <<>> \in Seq(AirSlots)
  BY EmptySeq
<1>6. given = IF e.cmd = "ack" THEN <<>> ELSE IF e.target = Everyone THEN slots ELSE SubSeq(slots, 1, m)
  BY DEF Advertised, slots
<1>7. given \in Seq(AirSlots)
  <2> HIDE DEF given, m
  <2> QED
    BY <1>1, <1>4, <1>5, <1>6
<1>8. Max({1, Len(given)}) \in Int
  <2> HIDE DEF given
  <2>1. Len(given) \in Nat
    BY <1>7, LenProperties
  <2> QED
    BY <2>1, MostOfTwo
<1> QED
  BY <1>7, <1>8

----------------------------------------------------------------------------
(* The controller of a node.                                                *)

NodeFields ==
    {"active", "startup", "state", "deadline", "sample", "born", "count", "airing",
     "opportunities", "current", "nextOpp", "brownouts", "proto", "slots", "chosen", "cmdTime"}

\* A node senses, and has a sample, only when it is registered; it has the
\* last sample that it took, until it was sent.
NodeHolds(nd) ==
    /\ DOMAIN nd = NodeFields
    /\ nd.startup \in Int /\ nd.deadline \in Int /\ nd.born \in Int /\ nd.nextOpp \in Int
    /\ nd.count \in Nat /\ nd.chosen \in Nat /\ nd.slots \in Seq(AirSlots)
    /\ nd.sample \in {0, nd.count}
    /\ nd.sample # 0 => nd.state \in {"processing", "wait_slot", "transmitting"}
    /\ (nd.sample # 0 \/ nd.state = "sensing") => nd.proto = "registered"
    /\ nd.sample # 0 /\ nd.state = "processing" => nd.deadline = nd.born + ProcessingMs

\* A sample that was processed was processed for long enough.
Ready(nd, t) ==
    nd.sample # 0 /\ nd.state \in {"wait_slot", "transmitting"} => nd.born + ProcessingMs <= t

Pending(nd) == nd.sample # 0 /\ nd.state # "transmitting"

\* What comes of a node: what it has to send it had to send before, or has
\* sensed since.
Carries(nd, new) ==
    /\ new.count >= nd.count
    /\ Pending(new) => (Pending(nd) /\ new.sample = nd.sample) \/ new.sample > nd.count
    /\ new.proto = nd.proto

Follows(nd, new, t) == NodeHolds(new) /\ Ready(new, t) /\ Carries(nd, new)

\* Durations are positive.
LEMMA DurationsAre ==
    /\ SensingMs \in Nat \ {0} /\ ProcessingMs \in Nat \ {0} /\ TransmittingMs \in Nat \ {0}
    /\ Dt \in Nat \ {0} /\ Interval \in Nat \ {0} /\ Horizon \in Nat \ {0}
    /\ Never \in Int
<1>1. /\ SensingMs \in Nat \ {0} /\ ProcessingMs \in Nat \ {0} /\ TransmittingMs \in Nat \ {0}
      /\ Dt \in Nat \ {0} /\ Interval \in Nat \ {0} /\ Horizon \in Nat \ {0}
  BY AmbientAssumption
<1> QED
  BY <1>1 DEF Never

\* Clearing its slot leaves the rest of a node alone.
LEMMA ClearedSlot ==
    ASSUME NEW nd, DOMAIN nd = NodeFields
    PROVE  /\ DOMAIN ClearSlot(nd) = NodeFields
           /\ ClearSlot(nd).slots = <<>> /\ ClearSlot(nd).chosen = 0
           /\ \A f \in NodeFields \ {"slots", "chosen", "cmdTime"} : ClearSlot(nd)[f] = nd[f]
BY DEF ClearSlot, NodeFields

\* Gaining or losing power leaves a node in order.
LEMMA PowerFollows ==
    ASSUME NEW nd, NodeHolds(nd), NEW t \in Int, Ready(nd, t), NEW n, NEW power
    PROVE  Follows(nd, PowerState(nd, n, t, power), t)
<1> DEFINE new == PowerState(nd, n, t, power)
<1> SUFFICES Follows(nd, new, t)
  OBVIOUS
<1>0. nd.count \in Nat /\ nd.count >= nd.count
  BY DEF NodeHolds
<1>1. CASE Powered(nd, n, t, power)
  <2>1. new = [nd EXCEPT !.active = TRUE]
    BY <1>1 DEF PowerState
  <2>2. DOMAIN new = NodeFields /\ \A f \in NodeFields \ {"active"} : new[f] = nd[f]
    BY <2>1 DEF NodeHolds, NodeFields
  <2> HIDE DEF new
  <2> QED
    BY <1>0, <2>2 DEF NodeHolds, NodeFields, Follows, Ready, Carries, Pending
<1>2. CASE ~Powered(nd, n, t, power) /\ ~BrownsOut(nd, n, power)
  <2>1. new = nd
    BY <1>2 DEF PowerState
  <2> HIDE DEF new
  <2> QED
    BY <1>0, <2>1 DEF Follows, Carries, Pending
<1>3. CASE ~Powered(nd, n, t, power) /\ BrownsOut(nd, n, power)
  <2> DEFINE out == IF nd.current # 0 /\ nd.opportunities[nd.current] = "sensing_started"
                    THEN [nd.opportunities EXCEPT ![nd.current] = "sensing_energy_failure"]
                    ELSE nd.opportunities
             off == [nd EXCEPT !.active = FALSE, !.brownouts = @ + 1, !.sample = 0, !.airing = 0,
                               !.state = "listening", !.deadline = Never, !.opportunities = out]
  <2>1. new = ClearSlot(off)
    BY <1>3 DEF PowerState
  <2> HIDE DEF out
  <2>2. /\ DOMAIN off = NodeFields
        /\ off.sample = 0 /\ off.state = "listening" /\ off.deadline = Never
        /\ \A f \in {"startup", "born", "count", "nextOpp", "proto"} : off[f] = nd[f]
    BY DEF NodeHolds, NodeFields
  <2> HIDE DEF off, new
  <2>3. /\ DOMAIN new = NodeFields
        /\ new.sample = 0 /\ new.state = "listening" /\ new.deadline = Never
        /\ new.slots = <<>> /\ new.chosen = 0
        /\ \A f \in {"startup", "born", "count", "nextOpp", "proto"} : new[f] = nd[f]
    BY <2>1, <2>2, ClearedSlot DEF NodeFields
  <2>4. <<>> \in Seq(AirSlots) /\ 0 \in Nat
    BY EmptySeq
  <2> QED
    BY <1>0, <2>3, <2>4, DurationsAre DEF NodeHolds, Follows, Ready, Carries, Pending
<1> QED
  BY <1>1, <1>2, <1>3

\* So does the end of its state,
LEMMA CompleteFollows ==
    ASSUME NEW nd, NodeHolds(nd), NEW t \in Int, Ready(nd, t)
    PROVE  Follows(nd, CompleteState(nd, t), t)
<1> DEFINE new == CompleteState(nd, t)
<1> SUFFICES Follows(nd, new, t)
  OBVIOUS
<1>0. nd.count \in Nat /\ nd.count >= nd.count
  BY DEF NodeHolds
<1>1. CASE ~StateIsOver(nd, t) \/ nd.state \notin {"sensing", "processing", "transmitting"}
  <2>1. new = nd
    BY <1>1 DEF CompleteState
  <2> HIDE DEF new
  <2> QED
    BY <1>0, <2>1 DEF Follows, Carries, Pending
<1>2. CASE StateIsOver(nd, t) /\ nd.state = "sensing"
  <2>1. new = [nd EXCEPT !.sample = nd.count + 1, !.born = t, !.count = @ + 1,
                         !.opportunities[nd.current] = "generated",
                         !.state = "processing", !.deadline = t + ProcessingMs]
    BY <1>2 DEF CompleteState
  <2>2. /\ DOMAIN new = NodeFields
        /\ new.sample = nd.count + 1 /\ new.born = t /\ new.count = nd.count + 1
        /\ new.state = "processing" /\ new.deadline = t + ProcessingMs
        /\ \A f \in {"startup", "nextOpp", "proto", "slots", "chosen"} : new[f] = nd[f]
    BY <2>1 DEF NodeHolds, NodeFields
  <2> HIDE DEF new
  <2>3. t + ProcessingMs \in Int /\ nd.count + 1 \in Nat /\ nd.count + 1 > nd.count
    BY <1>0, DurationsAre
  <2> QED
    BY <1>0, <1>2, <2>2, <2>3 DEF NodeHolds, Follows, Ready, Carries, Pending
<1>3. CASE StateIsOver(nd, t) /\ nd.state = "processing"
  <2>1. new = [nd EXCEPT !.state = "wait_slot", !.deadline = Never]
    BY <1>3 DEF CompleteState
  <2>2. /\ DOMAIN new = NodeFields
        /\ new.state = "wait_slot" /\ new.deadline = Never
        /\ \A f \in NodeFields \ {"state", "deadline"} : new[f] = nd[f]
    BY <2>1 DEF NodeHolds, NodeFields
  <2>3. nd.sample # 0 => nd.born + ProcessingMs <= t
    BY <1>3, DurationsAre DEF NodeHolds, StateIsOver
  <2> HIDE DEF new
  <2> QED
    BY <1>0, <1>3, <2>2, <2>3, DurationsAre DEF NodeHolds, NodeFields, Follows, Ready, Carries,
         Pending
<1>4. CASE StateIsOver(nd, t) /\ nd.state = "transmitting"
  <2>1. new = [nd EXCEPT !.airing = 0, !.sample = 0, !.state = "listening", !.deadline = Never]
    BY <1>4 DEF CompleteState
  <2>2. /\ DOMAIN new = NodeFields
        /\ new.sample = 0 /\ new.state = "listening" /\ new.deadline = Never
        /\ \A f \in NodeFields \ {"airing", "sample", "state", "deadline"} : new[f] = nd[f]
    BY <2>1 DEF NodeHolds, NodeFields
  <2> HIDE DEF new
  <2> QED
    BY <1>0, <2>2, DurationsAre DEF NodeHolds, NodeFields, Follows, Ready, Carries, Pending
<1> QED
  BY <1>1, <1>2, <1>3, <1>4

\* a sensing opportunity,
LEMMA SenseFollows ==
    ASSUME NEW nd, NodeHolds(nd), NEW t \in Int, Ready(nd, t)
    PROVE  Follows(nd, SenseOpportunity(nd, t), t)
<1> DEFINE new == SenseOpportunity(nd, t)
           outcome == OpportunityOutcome(nd, t)
           noted == [nd EXCEPT !.opportunities = Append(@, outcome), !.nextOpp = @ + Interval]
<1> SUFFICES Follows(nd, new, t)
  OBVIOUS
<1>0. nd.count \in Nat /\ nd.count >= nd.count
  BY DEF NodeHolds
<1>1. /\ DOMAIN noted = NodeFields
      /\ noted.nextOpp = nd.nextOpp + Interval
      /\ \A f \in NodeFields \ {"opportunities", "nextOpp"} : noted[f] = nd[f]
  BY DEF NodeHolds, NodeFields
<1>2. nd.nextOpp + Interval \in Int
  BY DurationsAre DEF NodeHolds
<1>3. new = IF t < nd.nextOpp THEN nd
            ELSE IF outcome # "sensing_started" THEN noted
            ELSE [noted EXCEPT !.state = "sensing", !.deadline = t + SensingMs,
                               !.current = Len(noted.opportunities)]
  BY DEF SenseOpportunity
<1>4. CASE t < nd.nextOpp
  <2>1. new = nd
    BY <1>3, <1>4
  <2> HIDE DEF new
  <2> QED
    BY <1>0, <2>1 DEF Follows, Carries, Pending
<1>5. CASE ~(t < nd.nextOpp) /\ outcome # "sensing_started"
  <2>1. new = noted
    BY <1>3, <1>5
  <2> HIDE DEF new, noted
  <2> QED
    BY <1>0, <1>1, <1>2, <2>1 DEF NodeHolds, NodeFields, Follows, Ready, Carries, Pending
<1>6. CASE ~(t < nd.nextOpp) /\ outcome = "sensing_started"
  <2>1. nd.proto = "registered" /\ nd.state = "listening" /\ nd.sample = 0
    BY <1>6 DEF OpportunityOutcome
  <2>2. new = [noted EXCEPT !.state = "sensing", !.deadline = t + SensingMs,
                            !.current = Len(noted.opportunities)]
    BY <1>3, <1>6
  <2> HIDE DEF noted
  <2>3. /\ DOMAIN new = NodeFields
        /\ new.state = "sensing" /\ new.deadline = t + SensingMs
        /\ \A f \in NodeFields \ {"state", "deadline", "current"} : new[f] = noted[f]
    BY <1>1, <2>2 DEF NodeFields
  <2> HIDE DEF new
  <2>4. t + SensingMs \in Int
    BY DurationsAre
  <2> QED
    BY <1>0, <1>1, <1>2, <2>1, <2>3, <2>4
       DEF NodeHolds, NodeFields, Follows, Ready, Carries, Pending
<1> QED
  BY <1>4, <1>5, <1>6

\* and one of these after the other.
LEMMA FollowsOn ==
    ASSUME NEW nd, NEW mid, NEW new, NodeHolds(nd), NEW t \in Int,
           Follows(nd, mid, t), Follows(mid, new, t)
    PROVE  Follows(nd, new, t)
<1>1. nd.count \in Int /\ mid.count \in Int /\ new.count \in Int
  BY DEF Follows, NodeHolds
<1>2. new.count >= nd.count /\ mid.count >= nd.count
  BY <1>1 DEF Follows, Carries
<1>3. new.sample \in Int
  BY <1>1 DEF Follows, NodeHolds
<1>4. Pending(new) => (Pending(nd) /\ new.sample = nd.sample) \/ new.sample > nd.count
  <2> SUFFICES ASSUME Pending(new) PROVE (Pending(nd) /\ new.sample = nd.sample) \/ new.sample > nd.count
    OBVIOUS
  <2>1. CASE Pending(mid) /\ new.sample = mid.sample
    BY <2>1 DEF Follows, Carries
  <2>2. CASE new.sample > mid.count
    BY <1>1, <1>2, <1>3, <2>2
  <2> QED
    BY <2>1, <2>2 DEF Follows, Carries
<1> QED
  BY <1>2, <1>4 DEF Follows, Carries

\* A node that starts to transmit has no sample to send any more; the one it sends was processed.
LEMMA TransmissionFollows ==
    ASSUME NEW nd, NodeHolds(nd), NEW t \in Int, Ready(nd, t), Transmits(nd, t), NEW tx
    PROVE  /\ Follows(nd, StartTransmission(nd, t, tx), t)
           /\ ~Pending(StartTransmission(nd, t, tx))
           /\ nd.sample # 0 => nd.proto = "registered" /\ nd.born + ProcessingMs <= t /\ Pending(nd)
           /\ nd.proto = "registered" => nd.sample # 0
<1> DEFINE new == StartTransmission(nd, t, tx)
           up == [nd EXCEPT !.state = "transmitting", !.deadline = t + TransmittingMs, !.airing = tx]
<1>0. nd.count \in Nat /\ nd.count >= nd.count
  BY DEF NodeHolds
<1>1. new = ClearSlot(up)
  BY DEF StartTransmission
<1>2. /\ DOMAIN up = NodeFields
      /\ up.state = "transmitting" /\ up.deadline = t + TransmittingMs
      /\ \A f \in NodeFields \ {"state", "deadline", "airing"} : up[f] = nd[f]
  BY DEF NodeHolds, NodeFields
<1> HIDE DEF up, new
<1>3. /\ DOMAIN new = NodeFields
      /\ new.state = "transmitting" /\ new.deadline = t + TransmittingMs
      /\ new.slots = <<>> /\ new.chosen = 0
      /\ \A f \in {"startup", "sample", "born", "count", "nextOpp", "proto"} : new[f] = nd[f]
  BY <1>1, <1>2, ClearedSlot DEF NodeFields
<1>4. <<>> \in Seq(AirSlots) /\ 0 \in Nat /\ t + TransmittingMs \in Int
  BY EmptySeq, DurationsAre
<1>5. nd.state \in {"listening", "wait_slot"}
  BY DEF Transmits
<1>6. nd.sample # 0 => nd.state = "wait_slot" /\ nd.born + ProcessingMs <= t
  BY <1>5 DEF NodeHolds, Ready
<1>7. Follows(nd, new, t) /\ ~Pending(new)
  BY <1>0, <1>3, <1>4, <1>6 DEF NodeHolds, Follows, Ready, Carries, Pending
<1>8. nd.sample # 0 => nd.proto = "registered" /\ Pending(nd)
  BY <1>6 DEF NodeHolds, Pending
<1>9. nd.proto = "registered" => nd.sample # 0
  BY DEF Transmits
<1> QED
  BY <1>6, <1>7, <1>8, <1>9 DEF new

\* The next wake-up lies ahead.
LEMMA WakesLater ==
    ASSUME NEW nd, NodeHolds(nd), NEW t \in Int, ~SlotIsGone(nd)
    PROVE  NextWake(nd, t) \in Int /\ NextWake(nd, t) > t
<1> DEFINE slot == IF nd.chosen = 0 THEN {} ELSE {nd.slots[nd.chosen].start}
           targets == {t + Dt, nd.nextOpp, nd.deadline, nd.startup} \cup slot
           S == {at \in targets : at > t}
<1>1. slot \subseteq Int
  <2>1. CASE nd.chosen # 0
    <3>1. nd.chosen \in 1..Len(nd.slots)
      BY <2>1, LenProperties DEF NodeHolds, SlotIsGone
    <3>2. nd.slots[nd.chosen] \in AirSlots
      BY <3>1, ElementOfSeq DEF NodeHolds
    <3> QED
      BY <3>2 DEF AirSlots
  <2> QED
    BY <2>1
<1>2. targets \subseteq Int
  BY <1>1, DurationsAre DEF NodeHolds
<1>3. t + Dt \in S
  BY DurationsAre
<1>4. NextWake(nd, t) = Min(S)
  BY DEF NextWake
<1> HIDE DEF targets
<1>5. S \subseteq Int /\ S # {} /\ \A x \in S : t <= x /\ x > t
  <2>1. \A x \in S : x \in Int /\ x > t
    BY <1>2
  <2>2. \A x \in Int : x > t => t <= x
    OBVIOUS
  <2> HIDE DEF S
  <2> QED
    BY <1>3, <2>1, <2>2
<1> HIDE DEF S
<1>6. Min(S) \in S
  BY <1>5, LeastInt
<1> QED
  BY <1>4, <1>5, <1>6

\* A command says where to send, and may register the node.
LEMMA CommandFollows ==
    ASSUME NEW nd, NodeHolds(nd), NEW n, NEW e \in Entries, e.mode = "tx",
           NEW slots \in Seq(AirSlots), NEW draw \in Nat, NEW t
    PROVE  LET new == ReceiveCommand(nd, n, e, slots, draw, t)
           IN  /\ NodeHolds(new)
               /\ \A f \in {"state", "sample", "born", "count"} : new[f] = nd[f]
               /\ new.proto = "registered" /\ Static => nd.proto = "registered" \/ e.cmd = "ack"
<1> DEFINE new == ReceiveCommand(nd, n, e, slots, draw, t)
           told == [nd EXCEPT !.slots = slots]
<1>1. CASE ~Hears(nd, n)
  <2>1. new = nd
    BY <1>1 DEF ReceiveCommand
  <2> HIDE DEF new
  <2> QED
    BY <2>1 DEF new
<1>2. CASE Hears(nd, n)
  <2>1. new = HandleCommand(told, n, e, draw, t)
    BY <1>2 DEF ReceiveCommand
  <2>2. /\ DOMAIN told = NodeFields /\ told.slots = slots
        /\ \A f \in NodeFields \ {"slots"} : told[f] = nd[f]
    BY DEF NodeHolds, NodeFields
  <2> HIDE DEF told
  <2>3. NodeHolds(told)
    BY <2>2 DEF NodeHolds, NodeFields
  <2>4. e.cmd \in {"send_data", "send_id", "ack", "aloha_frame"} /\ (Static => e.cmd # "aloha_frame")
    BY DEF Entries
  <2> DEFINE Fine(x) == /\ DOMAIN x = NodeFields
                        /\ x.chosen \in Nat /\ x.slots \in Seq(AirSlots)
                        /\ \A f \in NodeFields \ {"slots", "chosen", "proto", "cmdTime"} : x[f] = told[f]
                        /\ told.proto = "registered" => x.proto = "registered"
                        /\ x.proto = "registered" /\ Static => told.proto = "registered" \/ e.cmd = "ack"
  <2>5. Fine(new)
    <3>1. CASE e.cmd = "send_id" /\ told.proto = "registered"
      <4> DEFINE none == <<>>
      <4>1. new = [told EXCEPT !.chosen = 0, !.slots = none]
        BY <2>1, <3>1 DEF HandleCommand
      <4>2. none \in Seq(AirSlots) /\ 0 \in Nat
        BY EmptySeq
      <4> HIDE DEF none
      <4> QED
        BY <2>2, <2>3, <3>1, <4>1, <4>2 DEF NodeFields
    <3>2. CASE e.cmd = "send_id" /\ told.proto # "registered"
      <4>1. new = [told EXCEPT !.chosen = draw, !.proto = "wait_ack", !.cmdTime = t]
        BY <2>1, <3>2 DEF HandleCommand
      <4> QED
        BY <2>2, <2>3, <3>2, <4>1 DEF NodeFields, NodeHolds
    <3>3. CASE e.cmd = "ack"
      <4>1. new = [told EXCEPT !.proto = IF @ = "wait_ack" THEN "registered" ELSE @]
        BY <2>1, <3>3 DEF HandleCommand
      <4> QED
        BY <2>2, <2>3, <3>3, <4>1 DEF NodeFields, NodeHolds
    <3>4. CASE e.cmd = "send_data" /\ told.proto = "registered"
      <4> DEFINE c == IF e.target = n THEN 1 ELSE draw
      <4>1. new = [told EXCEPT !.chosen = c, !.cmdTime = t]
        BY <2>1, <3>4 DEF HandleCommand
      <4>2. c \in Nat
        OBVIOUS
      <4> HIDE DEF c
      <4> QED
        BY <2>2, <2>3, <3>4, <4>1, <4>2 DEF NodeFields, NodeHolds
    <3>5. CASE e.cmd = "send_data" /\ told.proto # "registered"
      <4>1. new = told
        BY <2>1, <3>5 DEF HandleCommand
      <4> QED
        BY <2>2, <2>3, <3>5, <4>1 DEF NodeFields, NodeHolds
    <3>6. CASE e.cmd = "aloha_frame"
      <4>1. new = [told EXCEPT !.proto = "registered", !.chosen = draw, !.cmdTime = t]
        BY <2>1, <3>6 DEF HandleCommand
      <4> QED
        BY <2>2, <2>3, <2>4, <3>6, <4>1 DEF NodeFields, NodeHolds
    <3> QED
      BY <2>4, <3>1, <3>2, <3>3, <3>4, <3>5, <3>6
  <2> HIDE DEF new
  <2>6. NodeHolds(new)
    BY <2>3, <2>5 DEF NodeHolds, NodeFields
  <2> QED
    BY <2>2, <2>5, <2>6 DEF new, NodeFields
<1> QED
  BY <1>1, <1>2

----------------------------------------------------------------------------
(* The invariant.                                                           *)

SentRecords ==
    [node : Nodes, type : {"data", "id"}, sample : Nat, born : Int, start : Int, end : Int,
     state : {"flying", "complete", "interrupted"}]

AmbientTypes ==
    /\ ProtocolHolds
    /\ DOMAIN node = Nodes /\ \A n \in Nodes : NodeHolds(node[n])
    /\ DOMAIN station = Stations /\ \A b \in Stations : StationHolds(station[b])
    /\ sent \in Seq(SentRecords)
    /\ AgendaHolds(agenda)

\* What a node has to send is new, and was processed by the time it wakes.
SamplesHold ==
    /\ \A n \in Nodes : \A e \in ToSet(agenda) : e.who = Wakes(n) => Ready(node[n], e.at)
    /\ \A i \in DOMAIN sent :
        /\ sent[i].sample <= node[sent[i].node].count
        /\ Pending(node[sent[i].node]) => sent[i].sample # node[sent[i].node].sample

\* What was sent.
LogIsSound(log) ==
    /\ \A i \in DOMAIN log :
        IF log[i].type = "data" THEN log[i].sample > 0 /\ log[i].born + ProcessingMs <= log[i].start
        ELSE log[i].sample = 0
    /\ \A i, j \in DOMAIN log :
        log[i].node = log[j].node /\ log[i].sample = log[j].sample /\ log[i].sample > 0 => i = j

Distinct(s) == \A i, j \in DOMAIN s : s[i] = s[j] => i = j

\* A packet is once in a buffer, and not while it waits for the next window.
BuffersHold ==
    \A b \in Stations :
        /\ station[b].buffer \in Seq(DOMAIN sent)
        /\ Distinct(station[b].buffer)
        /\ \A e \in ToSet(agenda), tx \in Nat :
              e.who = Late(b, tx) => tx \in DOMAIN sent /\ tx \notin ToSet(station[b].buffer)

\* A station decides once on a packet at an instant, and before its next turn.
HeardHolds ==
    /\ \A r \in heard :
        /\ r.station \in Stations /\ r.tx \in DOMAIN sent /\ r.at \in Int
        /\ \A e \in ToSet(agenda) : e.who = Turns(r.station) => r.at < e.at
    /\ \A r, q \in heard : r.station = q.station /\ r.tx = q.tx /\ r.at = q.at => r = q

\* A station knows the node.
Known(n) ==
    \E r \in heard : sent[r.tx].node = n /\ sent[r.tx].type = "id" /\ Decodes(r.outcome)

RegistrationHolds ==
    Static /\ ~protocol.preRegistered =>
        /\ \A n \in Nodes : node[n].proto = "registered" => Known(n)
        /\ \A b \in Stations : \A n \in station[b].pendingAck : Known(n)

AmbientInv ==
    AmbientTypes /\ SamplesHold /\ LogIsSound(sent) /\ BuffersHold /\ HeardHolds /\ RegistrationHolds

----------------------------------------------------------------------------
(* What happens to the log and to the agenda in a step.                     *)

\* What was said of a packet when it went on the air stands.
LogGrows(log, new) ==
    /\ DOMAIN log \subseteq DOMAIN new
    /\ \A i \in DOMAIN log : \A f \in {"node", "type", "sample", "born", "start"} :
          new[i][f] = log[i][f]

\* No station comes to its turn earlier than it would have.
TurnsLater(ag, new) ==
    \A b \in Stations : \A e \in ToSet(new) : e.who = Turns(b) =>
        \E f \in ToSet(ag) : f.who = Turns(b) /\ f.at <= e.at

\* The end of a transmission changes its end and its state in the log.
LEMMA CompletedLog ==
    ASSUME NEW log \in Seq(SentRecords), NEW tx, NEW t \in Int, NEW how \in {"complete", "interrupted"}
    PROVE  /\ Completed(log, tx, t, how) \in Seq(SentRecords)
           /\ Len(Completed(log, tx, t, how)) = Len(log)
           /\ LogGrows(log, Completed(log, tx, t, how))
<1> DEFINE new == Completed(log, tx, t, how)
           n == Len(log)
<1>1. n \in Nat /\ log \in [1..n -> SentRecords] /\ DOMAIN log = 1..n
  BY LenProperties
<1> HIDE DEF n
<1>2. new = [i \in 1..n |-> IF i = tx THEN [log[i] EXCEPT !.end = t, !.state = how] ELSE log[i]]
  BY <1>1 DEF Completed
<1>3. ASSUME NEW i \in 1..n
      PROVE  /\ new[i] \in SentRecords
             /\ \A f \in {"node", "type", "sample", "born", "start"} : new[i][f] = log[i][f]
  <2>1. log[i] \in SentRecords
    BY <1>1
  <2>2. CASE i = tx
    <3> DEFINE old == log[i]
               rec == [old EXCEPT !.end = t, !.state = how]
    <3>1. new[i] = rec
      BY <1>2, <2>2
    <3> HIDE DEF old, new
    <3>2. old \in SentRecords
      BY <2>1 DEF old
    <3>3. rec \in SentRecords /\ \A f \in {"node", "type", "sample", "born", "start"} : rec[f] = old[f]
      BY <3>2 DEF SentRecords
    <3> QED
      BY <3>1, <3>3 DEF old
  <2>3. CASE i # tx
    <3>1. new[i] = log[i]
      BY <1>2, <2>3
    <3> QED
      BY <2>1, <3>1
  <2> QED
    BY <2>2, <2>3
<1>4. new \in [1..n -> SentRecords] /\ DOMAIN new = 1..n
  <2>1. \A i \in 1..n : (IF i = tx THEN [log[i] EXCEPT !.end = t, !.state = how] ELSE log[i]) \in SentRecords
    BY <1>2, <1>3
  <2> QED
    BY <1>2, <2>1
<1> HIDE DEF new
<1>5. new \in Seq(SentRecords)
  BY <1>1, <1>4, SeqDef
<1>6. Len(new) = n
  BY <1>1, <1>4, <1>5, LenProperties
<1>7. LogGrows(log, new)
  BY <1>1, <1>3, <1>4 DEF LogGrows
<1> QED
  BY <1>5, <1>6, <1>7 DEF new, n

\* A log whose entries stand stays sound.
LEMMA SoundLogStays ==
    ASSUME NEW log, NEW new, LogGrows(log, new), DOMAIN new = DOMAIN log, LogIsSound(log)
    PROVE  LogIsSound(new)
BY DEF LogGrows, LogIsSound

\* A transmission is put behind the others.
LEMMA AppendedLog ==
    ASSUME NEW log \in Seq(SentRecords), NEW packet \in SentRecords
    PROVE  /\ Append(log, packet) \in Seq(SentRecords)
           /\ DOMAIN Append(log, packet) = DOMAIN log \cup {Len(log) + 1}
           /\ Len(log) + 1 \in Nat \ {0} /\ Len(log) + 1 \notin DOMAIN log
           /\ \A i \in DOMAIN log : Append(log, packet)[i] = log[i]
           /\ Append(log, packet)[Len(log) + 1] = packet
           /\ LogGrows(log, Append(log, packet))
<1> DEFINE new == Append(log, packet)
           n == Len(log)
<1>1. n \in Nat /\ DOMAIN log = 1..n
  BY LenProperties
<1>2. /\ new \in Seq(SentRecords) /\ Len(new) = n + 1
      /\ \A i \in 1..n : new[i] = log[i]
      /\ new[n + 1] = packet
  BY AppendProperties
<1>3. DOMAIN new = 1..n + 1
  BY <1>2, LenProperties
<1>4. 1..n + 1 = (1..n) \cup {n + 1} /\ n + 1 \in Nat \ {0} /\ n + 1 \notin 1..n
  BY <1>1
<1> HIDE DEF new, n
<1>5. LogGrows(log, new)
  BY <1>1, <1>2, <1>3, <1>4 DEF LogGrows
<1> QED
  BY <1>1, <1>2, <1>3, <1>4, <1>5 DEF new, n

\* What a station knows, it knows for good.
LEMMA KnownStays ==
    ASSUME HeardHolds, heard \subseteq heard', LogGrows(sent, sent'), NEW n, Known(n)
    PROVE  Known(n)'
<1>1. PICK r \in heard : sent[r.tx].node = n /\ sent[r.tx].type = "id" /\ Decodes(r.outcome)
  BY DEF Known
<1>2. r \in heard' /\ r.tx \in DOMAIN sent
  BY DEF HeardHolds
<1>3. sent'[r.tx].node = n /\ sent'[r.tx].type = "id"
  BY <1>1, <1>2 DEF LogGrows
<1> QED
  BY <1>1, <1>2, <1>3 DEF Known

\* What was heard stays heard while no station comes to its turn earlier.
LEMMA HeardStays ==
    ASSUME AmbientTypes, HeardHolds, heard' = heard, LogGrows(sent, sent'), TurnsLater(agenda, agenda'),
           AgendaHolds(agenda')
    PROVE  HeardHolds'
<1>1. ASSUME NEW r \in heard
      PROVE  /\ r.station \in Stations /\ r.tx \in DOMAIN sent' /\ r.at \in Int
             /\ \A e \in ToSet(agenda') : e.who = Turns(r.station) => r.at < e.at
  <2>1. r.station \in Stations /\ r.tx \in DOMAIN sent' /\ r.at \in Int
    BY DEF HeardHolds, LogGrows
  <2>2. ASSUME NEW e \in ToSet(agenda'), e.who = Turns(r.station) PROVE r.at < e.at
    <3>1. PICK f \in ToSet(agenda) : f.who = Turns(r.station) /\ f.at <= e.at
      BY <2>1, <2>2 DEF TurnsLater
    <3>2. r.at < f.at
      BY <3>1 DEF HeardHolds
    <3>3. f.at \in Int /\ e.at \in Int
      BY WakeUpsAre DEF AmbientTypes
    <3> QED
      BY <2>1, <3>1, <3>2, <3>3
  <2> QED
    BY <2>1, <2>2
<1>2. \A r, q \in heard : r.station = q.station /\ r.tx = q.tx /\ r.at = q.at => r = q
  BY DEF HeardHolds
<1> QED
  BY <1>1, <1>2 DEF HeardHolds

----------------------------------------------------------------------------
(* A node wakes.                                                            *)

\* The process whose turn it is leaves the agenda at its instant.
LEMMA TurnIs ==
    ASSUME AmbientTypes, NEW who, TurnOf(who)
    PROVE  /\ now \in Int /\ AgendaHolds(Tail(agenda))
           /\ ToSet(Tail(agenda)) \subseteq ToSet(agenda)
           /\ \A e \in ToSet(Tail(agenda)) : e.who # who
           /\ [at |-> now, who |-> who] \in ToSet(agenda)
<1>1. agenda # <<>> /\ Head(agenda).who = who /\ AgendaHolds(agenda)
  BY DEF TurnOf, AmbientTypes
<1>2. now = Head(agenda).at
  BY <1>1 DEF now
<1>3. /\ AgendaHolds(Tail(agenda)) /\ ToSet(Tail(agenda)) \subseteq ToSet(agenda)
      /\ Head(agenda) \in ToSet(agenda) /\ Head(agenda) \in WakeUps
      /\ \A e \in ToSet(Tail(agenda)) : e.who # Head(agenda).who
  BY <1>1, TailOfAgenda
<1>4. Head(agenda) = [at |-> now, who |-> who] /\ now \in Int
  BY <1>1, <1>2, <1>3 DEF WakeUps
<1> QED
  BY <1>1, <1>3, <1>4

\* What a node is when it goes to sleep again, and what it sends.
LEMMA RoundFollows ==
    ASSUME NEW nd, NodeHolds(nd), NEW t \in Int, Ready(nd, t), NEW n \in Nodes, NEW power, NEW tx
    PROVE  LET sensed == SenseOpportunity(CompleteState(PowerState(nd, n, t, power), t), t)
               starts == Transmits(sensed, t)
               packet == Airtime(sensed, n, t)
               after  == IF starts THEN StartTransmission(sensed, t, tx) ELSE sensed
           IN  /\ Follows(nd, after, t)
               /\ starts =>
                    /\ packet \in SentRecords /\ packet.node = n
                    /\ ~Pending(after)
                    /\ packet.sample <= after.count
                    /\ IF packet.type = "data"
                       THEN /\ packet.sample > 0 /\ packet.born + ProcessingMs <= packet.start
                            /\ (Pending(nd) /\ packet.sample = nd.sample) \/ packet.sample > nd.count
                       ELSE packet.sample = 0
<1> DEFINE powered == PowerState(nd, n, t, power)
           over == CompleteState(powered, t)
           sensed == SenseOpportunity(over, t)
           starts == Transmits(sensed, t)
           packet == Airtime(sensed, n, t)
           started == StartTransmission(sensed, t, tx)
           after == IF starts THEN started ELSE sensed
<1>1. Follows(nd, powered, t)
  BY PowerFollows
<1> HIDE DEF powered
<1>2. Follows(powered, over, t)
  BY <1>1, CompleteFollows DEF Follows
<1> HIDE DEF over
<1>3. Follows(over, sensed, t)
  BY <1>2, SenseFollows DEF Follows
<1> HIDE DEF sensed
<1>4. Follows(nd, sensed, t)
  <2>1. Follows(nd, over, t)
    BY <1>1, <1>2, FollowsOn
  <2> QED
    BY <1>3, <2>1, FollowsOn
<1>5. NodeHolds(sensed) /\ Ready(sensed, t)
  BY <1>4 DEF Follows
<1>6. CASE ~starts
  <2>1. after = sensed
    BY <1>6
  <2>2. Follows(nd, after, t)
    BY <1>4, <2>1
  <2> HIDE DEF starts, after, packet
  <2> QED
    BY <1>6, <2>2 DEF starts, after, packet, sensed, over, powered
<1>7. CASE starts
  <2>1. /\ Follows(sensed, started, t) /\ ~Pending(started)
        /\ sensed.sample # 0 => sensed.proto = "registered" /\ sensed.born + ProcessingMs <= t /\ Pending(sensed)
        /\ sensed.proto = "registered" => sensed.sample # 0
    BY <1>5, <1>7, TransmissionFollows
  <2> HIDE DEF started
  <2>2. after = started
    BY <1>7
  <2>3. Follows(nd, after, t)
    BY <1>4, <2>1, <2>2, FollowsOn
  <2>4. /\ packet.node = n /\ packet.type = (IF sensed.proto = "registered" THEN "data" ELSE "id")
        /\ packet.sample = sensed.sample /\ packet.born = sensed.born /\ packet.start = t
    BY DEF Airtime
  <2>5. sensed.count \in Nat /\ sensed.sample \in {0, sensed.count} /\ sensed.sample \in Nat /\ sensed.born \in Int
    BY <1>5 DEF NodeHolds
  <2>6. packet \in SentRecords
    <3>1. t + TransmittingMs \in Int
      BY DurationsAre
    <3> QED
      BY <2>5, <3>1 DEF Airtime, SentRecords
  <2>7. packet.sample <= after.count
    <3>1. started.count \in Nat /\ started.count >= sensed.count
      BY <2>1 DEF Follows, NodeHolds, Carries
    <3> QED
      BY <2>2, <2>4, <2>5, <3>1
  <2>8. IF packet.type = "data"
        THEN /\ packet.sample > 0 /\ packet.born + ProcessingMs <= packet.start
             /\ (Pending(nd) /\ packet.sample = nd.sample) \/ packet.sample > nd.count
        ELSE packet.sample = 0
    <3>1. CASE sensed.proto = "registered"
      <4>1. packet.sample > 0 /\ packet.born + ProcessingMs <= packet.start /\ Pending(sensed)
        BY <2>1, <2>4, <2>5, <3>1
      <4>2. (Pending(nd) /\ sensed.sample = nd.sample) \/ sensed.sample > nd.count
        BY <1>4, <4>1 DEF Follows, Carries
      <4> QED
        BY <2>4, <3>1, <4>1, <4>2
    <3>2. CASE sensed.proto # "registered"
      BY <2>1, <2>4, <3>2
    <3> QED
      BY <3>1, <3>2
  <2>9. ~Pending(after)
    BY <2>1, <2>2
  <2> HIDE DEF starts, after, packet
  <2> QED
    BY <2>3, <2>4, <2>6, <2>7, <2>8, <2>9 DEF starts, after, packet, started, sensed, over,
         powered
<1> QED
  BY <1>6, <1>7

\* A packet goes to the buffers of stations that do not defer it, and changes nothing else of them.
LEMMA BroadcastsTo ==
    ASSUME AmbientTypes, NEW packet, NEW tx, NEW t
    PROVE  LET new == Broadcasts(packet, tx, t)
           IN  /\ DOMAIN new = Stations
               /\ \A b \in Stations :
                    /\ StationHolds(new[b]) /\ new[b].pendingAck = station[b].pendingAck
                    /\ \/ new[b].buffer = station[b].buffer
                       \/ /\ new[b].buffer = Append(station[b].buffer, tx)
                          /\ ~Defers(station[b], packet, t)
<1> DEFINE new == Broadcasts(packet, tx, t)
<1>1. DOMAIN new = Stations
  BY DEF Broadcasts
<1>2. ASSUME NEW b \in Stations
      PROVE  /\ StationHolds(new[b]) /\ new[b].pendingAck = station[b].pendingAck
             /\ \/ new[b].buffer = station[b].buffer
                \/ /\ new[b].buffer = Append(station[b].buffer, tx)
                   /\ ~Defers(station[b], packet, t)
  <2> DEFINE st == station[b]
             full == [st EXCEPT !.buffer = Append(@, tx)]
  <2>1. new[b] = IF b \in Seen(packet.node) /\ Buffers(st, packet, t) THEN full ELSE st
    BY DEF Broadcasts
  <2>2. StationHolds(st)
    BY DEF AmbientTypes
  <2> HIDE DEF st, new
  <2>3. /\ full.buffer = Append(st.buffer, tx) /\ full.pendingAck = st.pendingAck /\ StationHolds(full)
    BY <2>2 DEF StationHolds
  <2>4. Buffers(st, packet, t) => ~Defers(st, packet, t)
    BY DEF Buffers
  <2> HIDE DEF full
  <2> QED
    BY <2>1, <2>2, <2>3, <2>4 DEF st
<1> QED
  BY <1>1, <1>2

\* One more packet in a buffer.
LEMMA BufferGrows ==
    ASSUME NEW T, NEW buffer \in Seq(T), NEW U, T \subseteq U, NEW tx \in U, tx \notin ToSet(buffer),
           Distinct(buffer)
    PROVE  /\ Append(buffer, tx) \in Seq(U)
           /\ Distinct(Append(buffer, tx))
           /\ ToSet(Append(buffer, tx)) \subseteq ToSet(buffer) \cup {tx}
<1> DEFINE new == Append(buffer, tx)
           n == Len(buffer)
<1>1. buffer \in Seq(U) /\ n \in Nat /\ DOMAIN buffer = 1..n
  BY SeqMonotonic, LenProperties
<1>2. /\ new \in Seq(U) /\ Len(new) = n + 1
      /\ \A i \in 1..n : new[i] = buffer[i]
      /\ new[n + 1] = tx
  BY <1>1, AppendProperties
<1>3. DOMAIN new = 1..n + 1
  BY <1>2, LenProperties
<1>4. \A i \in 1..n + 1 : i \in 1..n \/ i = n + 1
  BY <1>1
<1>5. \A i \in 1..n : buffer[i] # tx
  BY <1>1 DEF ToSet
<1> HIDE DEF new, n
<1>6. \A i, j \in 1..n + 1 : new[i] = new[j] => i = j
  BY <1>1, <1>2, <1>4, <1>5 DEF Distinct
<1>7. ToSet(new) \subseteq ToSet(buffer) \cup {tx}
  BY <1>1, <1>2, <1>3, <1>4 DEF ToSet
<1> QED
  BY <1>2, <1>3, <1>6, <1>7 DEF new, Distinct

\* What a round of a controller does to the state: packet is what it sends,
\* if it sends, as transmission tx.
Rounds(n, after, starts, packet, tx, log) ==
    /\ DOMAIN node' = Nodes /\ node'[n] = after
    /\ \A m \in Nodes \ {n} : node'[m] = node[m]
    /\ log \in Seq(SentRecords) /\ DOMAIN log = DOMAIN sent /\ Len(log) = Len(sent)
    /\ LogGrows(sent, log)
    /\ sent' = IF starts THEN Append(log, packet) ELSE log
    /\ station' = IF starts THEN Broadcasts(packet, tx, now) ELSE station
    /\ protocol' = protocol /\ heard' = heard
    /\ Follows(node[n], after, now)
    /\ starts =>
         /\ packet \in SentRecords /\ packet.node = n
         /\ ~Pending(after)
         /\ packet.sample <= after.count
         /\ IF packet.type = "data"
            THEN /\ packet.sample > 0 /\ packet.born + ProcessingMs <= packet.start
                 /\ (Pending(node[n]) /\ packet.sample = node[n].sample) \/ packet.sample > node[n].count
            ELSE packet.sample = 0
    /\ AgendaHolds(agenda')
    /\ \A e \in ToSet(agenda') :
         \/ e \in ToSet(Tail(agenda))
         \/ starts /\ \E b \in Stations : Defers(station[b], packet, now) /\ e = [at |-> now, who |-> Late(b, tx)]
         \/ e.who = Wakes(n) /\ e.at > now

\* A round of a controller is one in the sense of Rounds.
LEMMA NodeRounds ==
    ASSUME AmbientInv, NEW n \in Nodes, NodeWakes(n)
    PROVE  \E after, packet, log : \E starts \in BOOLEAN :
              Rounds(n, after, starts, packet, Len(sent) + 1, log)
<1> DEFINE t == now
           before == node[n]
           tx == Len(sent) + 1
<1>0. TurnOf(Wakes(n)) /\ UNCHANGED <<protocol, heard>>
  BY DEF NodeWakes
<1>1. PICK power \in PowerLevels(n) :
        LET powered == PowerState(before, n, t, power)
            over    == CompleteState(powered, t)
            sensed  == SenseOpportunity(over, t)
            starts  == Transmits(sensed, t)
            packet  == Airtime(sensed, n, t)
            after   == IF starts THEN StartTransmission(sensed, t, tx) ELSE sensed
            log     == CASE before.airing # 0 /\ powered.airing = 0 ->
                               Completed(sent, before.airing, t, "interrupted")
                         [] powered.airing # 0 /\ over.airing = 0 ->
                               Completed(sent, before.airing, t, "complete")
                         [] OTHER -> sent
            rest    == IF starts THEN Deferred(packet, tx, t, Tail(agenda)) ELSE Tail(agenda)
        IN  /\ node' = [node EXCEPT ![n] = after]
            /\ sent' = IF starts THEN Append(log, packet) ELSE log
            /\ station' = IF starts THEN Broadcasts(packet, tx, t) ELSE station
            /\ IF SlotIsGone(after)
               THEN agenda' = rest /\ ending' = "crashed"
               ELSE agenda' = Enter(rest, NextWake(after, t), Wakes(n)) /\ ending' = ending
  BY DEF NodeWakes
<1> DEFINE powered == PowerState(before, n, t, power)
           over    == CompleteState(powered, t)
           sensed  == SenseOpportunity(over, t)
           starts  == Transmits(sensed, t)
           packet  == Airtime(sensed, n, t)
           after   == IF starts THEN StartTransmission(sensed, t, tx) ELSE sensed
           log     == CASE before.airing # 0 /\ powered.airing = 0 ->
                              Completed(sent, before.airing, t, "interrupted")
                        [] powered.airing # 0 /\ over.airing = 0 ->
                              Completed(sent, before.airing, t, "complete")
                        [] OTHER -> sent
           rest    == IF starts THEN Deferred(packet, tx, t, Tail(agenda)) ELSE Tail(agenda)
<1>2. /\ node' = [node EXCEPT ![n] = after]
      /\ sent' = IF starts THEN Append(log, packet) ELSE log
      /\ station' = IF starts THEN Broadcasts(packet, tx, t) ELSE station
      /\ IF SlotIsGone(after)
         THEN agenda' = rest /\ ending' = "crashed"
         ELSE agenda' = Enter(rest, NextWake(after, t), Wakes(n)) /\ ending' = ending
  BY <1>1
<1>3. AmbientTypes /\ n \in Nat /\ NodeHolds(before)
  BY AmbientAssumption DEF AmbientInv, AmbientTypes, Nodes
<1>4. /\ t \in Int /\ AgendaHolds(Tail(agenda)) /\ ToSet(Tail(agenda)) \subseteq ToSet(agenda)
      /\ \A e \in ToSet(Tail(agenda)) : e.who # Wakes(n)
      /\ [at |-> t, who |-> Wakes(n)] \in ToSet(agenda)
  BY <1>0, <1>3, TurnIs
<1>5. Ready(before, t)
  <2>1. \A e \in ToSet(agenda) : e.who = Wakes(n) => Ready(node[n], e.at)
    BY DEF AmbientInv, SamplesHold
  <2> QED
    BY <1>4, <2>1
<1>6. sent \in Seq(SentRecords) /\ Len(sent) \in Nat /\ DOMAIN sent = 1..Len(sent)
  BY <1>3, LenProperties DEF AmbientTypes
<1>7. log \in Seq(SentRecords) /\ Len(log) = Len(sent) /\ LogGrows(sent, log) /\ DOMAIN log = DOMAIN sent
  <2>1. log \in {sent, Completed(sent, before.airing, t, "interrupted"),
                 Completed(sent, before.airing, t, "complete")}
    <3> HIDE DEF powered, over
    <3> QED
      OBVIOUS
  <2> HIDE DEF log
  <2>2. LogGrows(sent, sent)
    BY DEF LogGrows
  <2>3. log \in Seq(SentRecords) /\ Len(log) = Len(sent) /\ LogGrows(sent, log)
    BY <1>4, <1>6, <2>1, <2>2, CompletedLog
  <2> QED
    BY <1>6, <2>3, LenProperties
<1>8. /\ Follows(before, after, t)
      /\ starts =>
           /\ packet \in SentRecords /\ packet.node = n
           /\ ~Pending(after)
           /\ packet.sample <= after.count
           /\ IF packet.type = "data"
              THEN /\ packet.sample > 0 /\ packet.born + ProcessingMs <= packet.start
                   /\ (Pending(before) /\ packet.sample = before.sample) \/ packet.sample > before.count
              ELSE packet.sample = 0
  <2> HIDE DEF before, t, tx
  <2> QED
    BY <1>3, <1>4, <1>5, RoundFollows
<1> HIDE DEF log, after, packet, starts
<1>9. /\ DOMAIN node' = Nodes /\ node'[n] = after
      /\ \A m \in Nodes \ {n} : node'[m] = node[m]
  BY <1>2, <1>3 DEF AmbientTypes
<1> DEFINE Put(e) == starts /\ \E b \in Stations :
                        Defers(station[b], packet, now) /\ e = [at |-> now, who |-> Late(b, tx)]
<1>10. AgendaHolds(rest) /\ \A e \in ToSet(rest) : e \in ToSet(Tail(agenda)) \/ Put(e)
  <2>1. \A b \in Stations : \A e \in ToSet(Tail(agenda)) : e.who # Late(b, tx)
    <3> SUFFICES ASSUME NEW b \in Stations, NEW e \in ToSet(Tail(agenda)), e.who = Late(b, tx) PROVE FALSE
      OBVIOUS
    <3>1. tx \in DOMAIN sent
      BY <1>4, <1>6 DEF AmbientInv, BuffersHold
    <3> QED
      BY <1>6, <3>1
  <2>2. tx \in Nat
    BY <1>6
  <2>3. CASE starts
    <3>1. rest = Deferred(packet, tx, t, Tail(agenda))
      BY <2>3
    <3> HIDE DEF tx
    <3>2. AgendaHolds(Deferred(packet, tx, t, Tail(agenda)))
          /\ \A e \in ToSet(Deferred(packet, tx, t, Tail(agenda))) :
                \/ e \in ToSet(Tail(agenda))
                \/ \E b \in Stations : /\ Defers(station[b], packet, t)
                                       /\ e = [at |-> t, who |-> Late(b, tx)]
      BY <1>4, <2>1, <2>2, DeferredAgenda
    <3> QED
      BY <2>3, <3>1, <3>2
  <2>4. CASE ~starts
    <3>1. rest = Tail(agenda)
      BY <2>4
    <3> HIDE DEF rest, Put
    <3> QED
      BY <1>4, <3>1
  <2> QED
    BY <2>3, <2>4
<1> HIDE DEF rest
<1>11. AgendaHolds(agenda') /\ \A e \in ToSet(agenda') :
          e \in ToSet(Tail(agenda)) \/ Put(e) \/ (e.who = Wakes(n) /\ e.at > now)
  <2>1. CASE SlotIsGone(after)
    BY <1>2, <1>10, <2>1
  <2>2. CASE ~SlotIsGone(after)
    <3> DEFINE at == NextWake(after, t)
    <3>1. at \in Int /\ at > t
      BY <1>4, <1>8, <2>2, WakesLater DEF Follows
    <3> HIDE DEF at
    <3>2. \A e \in ToSet(rest) : e.who # Wakes(n)
      <4> SUFFICES ASSUME NEW e \in ToSet(rest), e.who = Wakes(n) PROVE FALSE
        OBVIOUS
      <4>1. Put(e)
        BY <1>4, <1>10
      <4>2. PICK b \in Stations : e = [at |-> now, who |-> Late(b, tx)]
        BY <4>1
      <4>3. b \in Nat /\ tx \in Nat
        BY <1>6, AmbientAssumption DEF Stations
      <4>4. Wakes(n) = Late(b, tx)
        BY <4>2
      <4> HIDE DEF tx
      <4> QED
        BY <1>3, <4>3, <4>4, WhoIsWho
    <3>3. Wakes(n) \in Processes
      BY <1>3, WhoIsWho
    <3>4. /\ AgendaHolds(Enter(rest, at, Wakes(n)))
          /\ ToSet(Enter(rest, at, Wakes(n))) \subseteq ToSet(rest) \cup {[at |-> at, who |-> Wakes(n)]}
      BY <1>10, <3>1, <3>2, <3>3, EnterInto
    <3>5. agenda' = Enter(rest, at, Wakes(n))
      BY <1>2, <2>2 DEF at
    <3> HIDE DEF Put
    <3>6. ASSUME NEW e \in ToSet(agenda')
          PROVE  e \in ToSet(Tail(agenda)) \/ Put(e) \/ (e.who = Wakes(n) /\ e.at > now)
      <4>1. CASE e \in ToSet(rest)
        BY <1>10, <4>1
      <4>2. CASE e = [at |-> at, who |-> Wakes(n)]
        BY <3>1, <4>2
      <4> QED
        BY <3>4, <3>5, <4>1, <4>2
    <3> QED
      BY <3>4, <3>5, <3>6
  <2> QED
    BY <2>1, <2>2
<1>12. starts \in BOOLEAN
  BY DEF starts, Transmits
<1>13. Rounds(n, after, starts, packet, tx, log)
  BY <1>0, <1>2, <1>7, <1>8, <1>9, <1>11 DEF Rounds
<1> QED
  BY <1>12, <1>13

\* Stations and nodes are numbered.
LEMMA StationsAndNodes ==
    Stations \subseteq Nat /\ Nodes \subseteq Nat
<1>1. NumStations \in Nat /\ NumNodes \in Nat
  BY AmbientAssumption
<1> QED
  BY <1>1 DEF Stations, Nodes

\* What is in a buffer was sent.
LEMMA BufferContents ==
    ASSUME AmbientTypes, BuffersHold, NEW b \in Stations
    PROVE  ToSet(station[b].buffer) \subseteq DOMAIN sent
<1>1. station[b].buffer \in Seq(DOMAIN sent)
  BY DEF BuffersHold
<1> QED
  BY <1>1, LenProperties, ElementOfSeq DEF ToSet

\* A round of a controller keeps the invariant.
LEMMA NodeWakesKeeps ==
    ASSUME AmbientInv, NEW n \in Nodes, NodeWakes(n)
    PROVE  AmbientInv'
<1> DEFINE tx == Len(sent) + 1
<1>1. PICK after, packet, log : \E starts \in BOOLEAN : Rounds(n, after, starts, packet, tx, log)
  BY NodeRounds
<1>2. PICK starts \in BOOLEAN : Rounds(n, after, starts, packet, tx, log)
  BY <1>1
<1>3. AmbientTypes /\ SamplesHold /\ LogIsSound(sent) /\ BuffersHold /\ HeardHolds /\ RegistrationHolds
  BY DEF AmbientInv
<1>4. Stations \subseteq Nat /\ Nodes \subseteq Nat
  BY StationsAndNodes
<1>5. Len(sent) \in Nat /\ DOMAIN sent = 1..Len(sent) /\ tx \in Nat /\ tx \notin DOMAIN sent
  BY <1>3, LenProperties DEF AmbientTypes
<1>6. /\ log \in Seq(SentRecords) /\ DOMAIN log = DOMAIN sent /\ Len(log) + 1 = tx /\ LogGrows(sent, log)
      /\ LogIsSound(log)
  BY <1>2, <1>3, SoundLogStays DEF Rounds
<1>7. /\ LogGrows(sent, sent') /\ sent' \in Seq(SentRecords)
      /\ \A i \in DOMAIN sent' : i \in DOMAIN sent \/ (starts /\ i = tx)
      /\ starts => tx \in DOMAIN sent' /\ sent'[tx] = packet
  <2>1. CASE starts
    <3>1. sent' = Append(log, packet) /\ packet \in SentRecords
      BY <1>2, <2>1 DEF Rounds
    <3>2. /\ Append(log, packet) \in Seq(SentRecords)
          /\ DOMAIN Append(log, packet) = DOMAIN log \cup {Len(log) + 1}
          /\ \A i \in DOMAIN log : Append(log, packet)[i] = log[i]
          /\ Append(log, packet)[Len(log) + 1] = packet
      BY <1>6, <3>1, AppendedLog
    <3> HIDE DEF tx
    <3>3. LogGrows(sent, sent')
      BY <1>6, <3>1, <3>2 DEF LogGrows
    <3> QED
      BY <1>6, <2>1, <3>1, <3>2, <3>3
  <2>2. CASE ~starts
    <3>1. sent' = log
      BY <1>2, <2>2 DEF Rounds
    <3> QED
      BY <1>6, <2>2, <3>1
  <2> QED
    BY <2>1, <2>2
<1> HIDE DEF tx
<1> DEFINE Put(e) == starts /\ \E b \in Stations :
                        Defers(station[b], packet, now) /\ e = [at |-> now, who |-> Late(b, tx)]
<1>8. \A e \in ToSet(agenda') : e \in ToSet(Tail(agenda)) \/ Put(e) \/ (e.who = Wakes(n) /\ e.at > now)
  BY <1>2 DEF Rounds
<1>9. \A e : Put(e) => /\ starts
                       /\ \E b \in Stations : Defers(station[b], packet, now) /\ e.who = Late(b, tx)
  OBVIOUS
<1> HIDE DEF Put
<1>10. /\ now \in Int /\ ToSet(Tail(agenda)) \subseteq ToSet(agenda)
       /\ \A e \in ToSet(Tail(agenda)) : e.who # Wakes(n)
  BY <1>3, TurnIs DEF NodeWakes
<1>11. /\ \A m \in Nodes \ {n} : node'[m] = node[m]
       /\ node'[n] = after /\ Follows(node[n], after, now)
       /\ node[n].count \in Nat /\ after.count \in Nat /\ after.count >= node[n].count
  BY <1>2, <1>3 DEF Rounds, Follows, Carries, NodeHolds, AmbientTypes
<1>12. AmbientTypes'
  <2>1. ProtocolHolds'
    BY <1>2, <1>3 DEF Rounds, AmbientTypes, ProtocolHolds
  <2>2. DOMAIN node' = Nodes /\ \A m \in Nodes : NodeHolds(node'[m])
    BY <1>2, <1>3, <1>11 DEF Rounds, AmbientTypes, Follows
  <2>3. Entries' = Entries
    BY <1>2 DEF Rounds, Entries, Static
  <2>4. DOMAIN station' = Stations /\ \A b \in Stations : StationHolds(station'[b])
    <3>1. CASE starts
      BY <1>2, <1>3, <3>1, BroadcastsTo DEF Rounds
    <3>2. CASE ~starts
      BY <1>2, <1>3, <3>2 DEF Rounds, AmbientTypes
    <3> QED
      BY <3>1, <3>2
  <2>5. \A b \in Stations : StationHolds(station[b])'
    BY <2>3, <2>4 DEF StationHolds
  <2>6. AgendaHolds(agenda)'
    BY <1>2 DEF Rounds, AgendaHolds
  <2>7. \A m \in Nodes : NodeHolds(node[m])'
    BY <2>2 DEF NodeHolds
  <2> QED
    BY <1>7, <2>1, <2>2, <2>4, <2>5, <2>6, <2>7 DEF AmbientTypes
<1>13. SamplesHold'
  <2>1. ASSUME NEW m \in Nodes, NEW e \in ToSet(agenda'), e.who = Wakes(m) PROVE Ready(node'[m], e.at)
    <3>1. ~Put(e)
      <4> SUFFICES ASSUME Put(e) PROVE FALSE
        OBVIOUS
      <4>1. PICK b \in Stations : e.who = Late(b, tx)
        BY <1>9
      <4> QED
        BY <1>4, <1>5, <2>1, <4>1, WhoIsWho
    <3>2. CASE m = n
      <4>1. e.at > now /\ e.at \in Int
        BY <1>8, <1>10, <1>12, <2>1, <3>1, <3>2, WakeUpsAre DEF AmbientTypes
      <4>2. Ready(after, now) /\ after.born \in Int
        BY <1>11 DEF Follows, NodeHolds
      <4>3. Ready(after, e.at)
        BY <1>10, <4>1, <4>2, DurationsAre DEF Ready
      <4> QED
        BY <1>11, <3>2, <4>3
    <3>3. CASE m # n
      <4>1. Wakes(m) # Wakes(n)
        BY <1>4, <3>3, WhoIsWho
      <4>2. e \in ToSet(agenda)
        BY <1>8, <1>10, <2>1, <3>1, <4>1
      <4>3. Ready(node[m], e.at)
        BY <1>3, <2>1, <4>2 DEF SamplesHold
      <4> QED
        BY <1>11, <3>3, <4>3
    <3> QED
      BY <3>2, <3>3
  <2>2. ASSUME NEW i \in DOMAIN sent'
        PROVE  /\ sent'[i].sample <= node'[sent'[i].node].count
               /\ Pending(node'[sent'[i].node]) => sent'[i].sample # node'[sent'[i].node].sample
    <3>1. CASE i \in DOMAIN sent
      <4> DEFINE m == sent[i].node
      <4>1. sent'[i].node = m /\ sent'[i].sample = sent[i].sample
        BY <1>7, <3>1 DEF LogGrows
      <4>2. m \in Nodes /\ sent[i].sample \in Nat
        <5>1. sent[i] \in SentRecords
          BY <1>3, <1>5, <3>1, ElementOfSeq DEF AmbientTypes
        <5> QED
          BY <5>1 DEF SentRecords
      <4>3. /\ sent[i].sample <= node[m].count
            /\ Pending(node[m]) => sent[i].sample # node[m].sample
        BY <1>3, <3>1 DEF SamplesHold
      <4> HIDE DEF m
      <4>4. CASE m # n
        <5>1. node'[m] = node[m]
          BY <1>11, <4>2, <4>4
        <5> QED
          BY <4>1, <4>3, <5>1
      <4>5. CASE m = n
        <5>1. sent[i].sample <= after.count
          BY <1>11, <4>2, <4>3, <4>5
        <5>2. after.sample \in Int
          BY <1>11 DEF Follows, NodeHolds
        <5>3. Pending(after) => sent[i].sample # after.sample
          BY <1>11, <4>2, <4>3, <4>5, <5>2 DEF Follows, Carries
        <5> QED
          BY <1>11, <4>1, <4>5, <5>1, <5>3
      <4> QED
        BY <4>4, <4>5
    <3>2. CASE starts /\ i = tx
      <4>1. sent'[i] = packet /\ packet.node = n /\ ~Pending(after) /\ packet.sample <= after.count
        BY <1>2, <1>7, <3>2 DEF Rounds
      <4> QED
        BY <1>11, <4>1
    <3> QED
      BY <1>7, <3>1, <3>2
  <2> QED
    BY <2>1, <2>2 DEF SamplesHold, Ready, Pending
<1>14. LogIsSound(sent)'
  <2>1. LogIsSound(sent')
    <3>1. CASE ~starts
      <4>1. sent' = log
        BY <1>2, <3>1 DEF Rounds
      <4> QED
        BY <1>6, <4>1
    <3>2. CASE starts
      <4>1. sent' = Append(log, packet) /\ packet \in SentRecords /\ packet.node = n
        BY <1>2, <3>2 DEF Rounds
      <4>2. /\ DOMAIN sent' = DOMAIN log \cup {tx} /\ tx \notin DOMAIN log
            /\ \A i \in DOMAIN log : sent'[i] = log[i]
            /\ sent'[tx] = packet
        BY <1>6, <4>1, AppendedLog
      <4>3. IF packet.type = "data"
            THEN /\ packet.sample > 0 /\ packet.born + ProcessingMs <= packet.start
                 /\ (Pending(node[n]) /\ packet.sample = node[n].sample) \/ packet.sample > node[n].count
            ELSE packet.sample = 0
        BY <1>2, <3>2 DEF Rounds
      <4>4. ASSUME NEW i \in DOMAIN log, log[i].node = n, log[i].sample = packet.sample, packet.sample > 0
            PROVE  FALSE
        <5>1. i \in DOMAIN sent /\ sent[i].node = n /\ sent[i].sample = packet.sample
          BY <1>6, <4>4 DEF LogGrows
        <5>2. /\ sent[i].sample <= node[n].count
              /\ Pending(node[n]) => sent[i].sample # node[n].sample
          BY <1>3, <5>1 DEF SamplesHold
        <5>3. packet.sample \in Nat
          BY <4>1 DEF SentRecords
        <5> QED
          BY <1>11, <4>3, <4>4, <5>1, <5>2, <5>3
      <4>5. ASSUME NEW i \in DOMAIN sent'
            PROVE  IF sent'[i].type = "data"
                   THEN sent'[i].sample > 0 /\ sent'[i].born + ProcessingMs <= sent'[i].start
                   ELSE sent'[i].sample = 0
        BY <1>6, <4>2, <4>3 DEF LogIsSound
      <4>6. ASSUME NEW i \in DOMAIN sent', NEW j \in DOMAIN sent',
                   sent'[i].node = sent'[j].node, sent'[i].sample = sent'[j].sample, sent'[i].sample > 0
            PROVE  i = j
        <5>1. CASE i \in DOMAIN log /\ j \in DOMAIN log
          BY <1>6, <4>2, <4>6, <5>1 DEF LogIsSound
        <5>2. CASE i = tx \/ j = tx
          BY <4>1, <4>2, <4>4, <4>6, <5>2
        <5> QED
          BY <4>2, <5>1, <5>2
      <4> QED
        BY <4>5, <4>6 DEF LogIsSound
    <3> QED
      BY <3>1, <3>2
  <2> QED
    BY <2>1 DEF LogIsSound
<1>15. BuffersHold'
  <2> SUFFICES ASSUME NEW b \in Stations
               PROVE  /\ station'[b].buffer \in Seq(DOMAIN sent')
                      /\ Distinct(station'[b].buffer)
                      /\ \A e \in ToSet(agenda'), ty \in Nat :
                            e.who = Late(b, ty) => ty \in DOMAIN sent' /\ ty \notin ToSet(station'[b].buffer)
    BY DEF BuffersHold, Distinct
  <2> DEFINE old == station[b].buffer
             new == station'[b].buffer
  <2>1. /\ old \in Seq(DOMAIN sent) /\ ToSet(old) \subseteq DOMAIN sent /\ DOMAIN sent \subseteq DOMAIN sent'
        /\ Distinct(old)
    BY <1>3, <1>7, BufferContents DEF BuffersHold, LogGrows
  <2>2. new = old \/ (starts /\ new = Append(old, tx) /\ ~Defers(station[b], packet, now))
    <3>1. CASE starts
      BY <1>2, <1>3, <3>1, BroadcastsTo DEF Rounds
    <3>2. CASE ~starts
      BY <1>2, <3>2 DEF Rounds
    <3> QED
      BY <3>1, <3>2
  <2>3. ASSUME NEW e \in ToSet(agenda'), NEW ty \in Nat, e.who = Late(b, ty)
        PROVE  /\ ty \in DOMAIN sent' /\ ty \notin ToSet(old)
               /\ new # old => ty # tx
    <3>1. e.who # Wakes(n)
      BY <1>4, <2>3, WhoIsWho
    <3>2. CASE e \in ToSet(Tail(agenda))
      <4>1. ty \in DOMAIN sent /\ ty \notin ToSet(old)
        BY <1>3, <1>10, <2>3, <3>2 DEF BuffersHold
      <4> QED
        BY <1>5, <2>1, <4>1
    <3>3. CASE Put(e)
      <4>1. PICK c \in Stations : starts /\ Defers(station[c], packet, now) /\ e.who = Late(c, tx)
        BY <1>9, <3>3
      <4>2. Late(c, tx) = Late(b, ty)
        BY <2>3, <4>1
      <4>3. c = b /\ ty = tx
        BY <4>2, WhoIsWho
      <4> QED
        BY <1>5, <1>7, <2>1, <2>2, <4>1, <4>3
    <3> QED
      BY <1>8, <3>1, <3>2, <3>3
  <2> HIDE DEF old, new
  <2>4. CASE new = old
    <3>1. new \in Seq(DOMAIN sent')
      BY <2>1, <2>4, SeqMonotonic
    <3>2. Distinct(new)
      BY <2>1, <2>4
    <3> QED
      BY <2>3, <2>4, <3>1, <3>2 DEF new, old
  <2>5. CASE new # old
    <3>1. starts /\ new = Append(old, tx) /\ tx \in DOMAIN sent' /\ tx \notin ToSet(old)
      BY <1>5, <1>7, <2>1, <2>2, <2>5
    <3> DEFINE more == Append(old, tx)
    <3>2. /\ more \in Seq(DOMAIN sent')
          /\ Distinct(more)
          /\ ToSet(more) \subseteq ToSet(old) \cup {tx}
      <4> DEFINE T == DOMAIN sent
                 U == DOMAIN sent'
      <4>1. old \in Seq(T) /\ T \subseteq U /\ tx \in U /\ tx \notin ToSet(old)
        BY <2>1, <3>1
      <4> HIDE DEF T, U, more
      <4>2. /\ more \in Seq(U)
            /\ Distinct(more)
            /\ ToSet(more) \subseteq ToSet(old) \cup {tx}
        BY <2>1, <4>1, BufferGrows DEF more
      <4> QED
        BY <4>2 DEF U
    <3>4. new = more
      BY <3>1
    <3> HIDE DEF more
    <3>3. \A e \in ToSet(agenda'), ty \in Nat :
             e.who = Late(b, ty) => ty \in DOMAIN sent' /\ ty \notin ToSet(new)
      BY <2>3, <2>5, <3>2, <3>4
    <3> QED
      BY <3>2, <3>3, <3>4 DEF new
  <2> QED
    BY <2>4, <2>5
<1>16. HeardHolds'
  <2>1. TurnsLater(agenda, agenda')
    <3> SUFFICES ASSUME NEW b \in Stations, NEW e \in ToSet(agenda'), e.who = Turns(b)
                 PROVE  \E f \in ToSet(agenda) : f.who = Turns(b) /\ f.at <= e.at
      BY DEF TurnsLater
    <3>1. e.who # Wakes(n)
      BY <1>4, WhoIsWho
    <3>2. ~Put(e)
      <4> SUFFICES ASSUME Put(e) PROVE FALSE
        OBVIOUS
      <4>1. PICK c \in Stations : e.who = Late(c, tx)
        BY <1>9
      <4> QED
        BY <1>4, <1>5, <4>1, WhoIsWho
    <3>3. e \in ToSet(agenda)
      BY <1>8, <1>10, <3>1, <3>2
    <3>4. e.at <= e.at
      BY <1>3, <3>3, WakeUpsAre DEF AmbientTypes
    <3> QED
      BY <3>3, <3>4
  <2>2. heard' = heard /\ AgendaHolds(agenda')
    BY <1>2 DEF Rounds
  <2> QED
    BY <1>3, <1>7, <2>1, <2>2, HeardStays
<1>17. RegistrationHolds'
  <2>1. Static' = Static /\ protocol' = protocol /\ heard' = heard
    BY <1>2 DEF Rounds, Static
  <2>2. ASSUME Static, ~protocol.preRegistered
        PROVE  /\ \A m \in Nodes : node'[m].proto = "registered" => Known(m)'
               /\ \A b \in Stations : \A m \in station'[b].pendingAck : Known(m)'
    <3>1. /\ \A m \in Nodes : node[m].proto = "registered" => Known(m)
          /\ \A b \in Stations : \A m \in station[b].pendingAck : Known(m)
      BY <1>3, <2>2 DEF RegistrationHolds
    <3>2. \A m : Known(m) => Known(m)'
      BY <1>3, <1>7, <2>1, KnownStays
    <3>3. \A m \in Nodes : node'[m].proto = node[m].proto
      BY <1>11 DEF Follows, Carries
    <3>4. \A b \in Stations : station'[b].pendingAck = station[b].pendingAck
      <4>1. CASE starts
        BY <1>2, <1>3, <4>1, BroadcastsTo DEF Rounds
      <4>2. CASE ~starts
        BY <1>2, <4>2 DEF Rounds
      <4> QED
        BY <4>1, <4>2
    <3> QED
      BY <3>1, <3>2, <3>3, <3>4
  <2> QED
    BY <2>1, <2>2 DEF RegistrationHolds
<1> QED
  BY <1>12, <1>13, <1>14, <1>15, <1>16, <1>17 DEF AmbientInv

----------------------------------------------------------------------------
(* A station comes to its next entry.                                       *)

\* What is left of station b, which came out of its last entry as from.
Begins(b, from) ==
    /\ AgendaHolds(agenda')
    /\ \A e \in ToSet(agenda') : e \in ToSet(Tail(agenda)) \/ (e.who = Turns(b) /\ e.at > now)
    /\ DOMAIN station' = Stations /\ \A c \in Stations \ {b} : station'[c] = station[c]
    /\ StationHolds(station'[b])
    /\ station'[b].buffer = <<>> \/ station'[b].buffer = from.buffer
    /\ station'[b].pendingAck \subseteq from.pendingAck
    /\ DOMAIN node' = Nodes
    /\ \A n \in Nodes :
        /\ NodeHolds(node'[n])
        /\ \A f \in {"state", "sample", "born", "count"} : node'[n][f] = node[n][f]
        /\ node'[n].proto = "registered" /\ Static => node[n].proto = "registered" \/ n \in from.pendingAck

\* The beginning of an entry is one in the sense of Begins.
LEMMA EntryBegins ==
    ASSUME AmbientTypes, NEW b \in Stations, TurnOf(Turns(b)), NEW from, StationHolds(from),
           BeginEntry(b, from)
    PROVE  Begins(b, from)
<1> DEFINE t  == now
           st == Advance(from, t)
           e  == st.frame[st.idx]
           slots == Advertised(st, e, t)
           rx == [st EXCEPT !.mode = "rx", !.settling = FALSE, !.rxStart = t,
                            !.rxEnd = t + e.ms, !.expect = e.target, !.buffer = <<>>]
           acks == IF e.cmd = "ack" THEN {} ELSE st.pendingAck
           tx == [st EXCEPT !.mode = "tx", !.settling = FALSE, !.pendingAck = acks]
           told(n, draw) == IF n \in Addressed(st, e)
                            THEN ReceiveCommand(node[n], n, e, slots, draw[n], t) ELSE node[n]
<1>1. /\ agenda' = Enter(Tail(agenda), t + e.ms, Turns(b))
      /\ \/ e.mode = "rx" /\ station' = [station EXCEPT ![b] = rx] /\ node' = node
         \/ /\ e.mode = "tx" /\ station' = [station EXCEPT ![b] = tx]
            /\ \E draw \in [Nodes -> 1..Max({1, Len(slots)})] : node' = [n \in Nodes |-> told(n, draw)]
  BY DEF BeginEntry
<1>2. /\ t \in Int /\ AgendaHolds(Tail(agenda)) /\ \A x \in ToSet(Tail(agenda)) : x.who # Turns(b)
      /\ ProtocolHolds
  BY TurnIs DEF AmbientTypes
<1>3. /\ StationHolds(st) /\ st.frame # <<>> /\ e \in Entries
      /\ st.buffer = from.buffer /\ st.pendingAck = from.pendingAck
  <2> HIDE DEF t
  <2> QED
    BY <1>2, AdvanceHolds
<1>4. e.ms \in Nat \ {0} /\ e.mode \in {"tx", "rx"}
  BY <1>3 DEF Entries
<1> HIDE DEF st, e
<1>5. /\ AgendaHolds(agenda')
      /\ \A x \in ToSet(agenda') : x \in ToSet(Tail(agenda)) \/ (x.who = Turns(b) /\ x.at > now)
  <2> DEFINE at == t + e.ms
  <2>1. at \in Int /\ at > now
    BY <1>2, <1>4
  <2>2. Turns(b) \in Processes
    BY StationsAndNodes, WhoIsWho
  <2> HIDE DEF at
  <2>3. /\ AgendaHolds(Enter(Tail(agenda), at, Turns(b)))
        /\ ToSet(Enter(Tail(agenda), at, Turns(b))) \subseteq ToSet(Tail(agenda)) \cup {[at |-> at, who |-> Turns(b)]}
    BY <1>2, <2>1, <2>2, EnterInto
  <2>4. agenda' = Enter(Tail(agenda), at, Turns(b))
    BY <1>1 DEF at
  <2>5. [at |-> at, who |-> Turns(b)].who = Turns(b) /\ [at |-> at, who |-> Turns(b)].at = at
    OBVIOUS
  <2> QED
    BY <2>1, <2>3, <2>4, <2>5
<1>6. StationHolds(rx) /\ rx.buffer = <<>> /\ rx.pendingAck = st.pendingAck
  BY <1>3 DEF StationHolds
<1>7. StationHolds(tx) /\ tx.buffer = st.buffer /\ tx.pendingAck \subseteq st.pendingAck
  <2>1. acks \subseteq st.pendingAck
    OBVIOUS
  <2> HIDE DEF acks
  <2>2. StationHolds(tx) /\ tx.buffer = st.buffer /\ tx.pendingAck = acks
    BY <1>3 DEF StationHolds
  <2> QED
    BY <2>1, <2>2
<1> HIDE DEF rx, tx
<1>8. DOMAIN station = Stations /\ DOMAIN node = Nodes /\ \A n \in Nodes : NodeHolds(node[n])
  BY DEF AmbientTypes
<1>9. /\ DOMAIN station' = Stations /\ \A c \in Stations \ {b} : station'[c] = station[c]
      /\ StationHolds(station'[b])
      /\ station'[b].buffer = <<>> \/ station'[b].buffer = from.buffer
      /\ station'[b].pendingAck \subseteq from.pendingAck
  <2>1. CASE station' = [station EXCEPT ![b] = rx]
    <3>1. station'[b] = rx
      BY <1>8, <2>1
    <3> QED
      BY <1>3, <1>6, <1>8, <2>1, <3>1
  <2>2. CASE station' = [station EXCEPT ![b] = tx]
    <3>1. station'[b] = tx
      BY <1>8, <2>2
    <3> QED
      BY <1>3, <1>7, <1>8, <2>2, <3>1
  <2> QED
    BY <1>1, <2>1, <2>2
<1>10. /\ DOMAIN node' = Nodes
       /\ \A n \in Nodes :
            /\ NodeHolds(node'[n])
            /\ \A f \in {"state", "sample", "born", "count"} : node'[n][f] = node[n][f]
            /\ node'[n].proto = "registered" /\ Static => node[n].proto = "registered" \/ n \in from.pendingAck
  <2>1. CASE node' = node
    BY <1>8, <2>1
  <2>2. CASE e.mode = "tx" /\ \E draw \in [Nodes -> 1..Max({1, Len(slots)})] : node' = [n \in Nodes |-> told(n, draw)]
    <3>1. PICK draw \in [Nodes -> 1..Max({1, Len(slots)})] : node' = [n \in Nodes |-> told(n, draw)]
      BY <2>2
    <3>2. slots \in Seq(AirSlots) /\ 1..Max({1, Len(slots)}) \subseteq Nat
      <4> HIDE DEF t
      <4> QED
        BY <1>3, AdvertisedIs
    <3> HIDE DEF slots
    <3>3. \A n \in Nodes : draw[n] \in Nat
      BY <3>2
    <3>4. ASSUME NEW n \in Nodes
          PROVE  /\ NodeHolds(node'[n])
                 /\ \A f \in {"state", "sample", "born", "count"} : node'[n][f] = node[n][f]
                 /\ node'[n].proto = "registered" /\ Static => node[n].proto = "registered" \/ n \in from.pendingAck
      <4>1. NodeHolds(node[n])
        BY <1>8
      <4>2. CASE n \notin Addressed(st, e)
        <5>1. node'[n] = node[n]
          BY <3>1, <4>2
        <5> QED
          BY <4>1, <5>1
      <4>3. CASE n \in Addressed(st, e)
        <5> DEFINE nd == node[n]
                   d == draw[n]
                   new == ReceiveCommand(nd, n, e, slots, d, t)
        <5>1. node'[n] = new
          BY <3>1, <4>3
        <5>2. d \in Nat /\ NodeHolds(nd)
          BY <3>3, <4>1
        <5> HIDE DEF nd, d, t
        <5>3. /\ NodeHolds(new)
              /\ \A f \in {"state", "sample", "born", "count"} : new[f] = nd[f]
              /\ new.proto = "registered" /\ Static => nd.proto = "registered" \/ e.cmd = "ack"
          BY <1>3, <2>2, <3>2, <5>2, CommandFollows
        <5>4. e.cmd = "ack" => n \in from.pendingAck
          BY <1>3, <4>3 DEF Addressed
        <5> HIDE DEF new
        <5> QED
          BY <5>1, <5>3, <5>4 DEF nd
      <4> QED
        BY <4>2, <4>3
    <3>5. DOMAIN node' = Nodes
      BY <3>1
    <3> QED
      BY <3>4, <3>5
  <2> QED
    BY <1>1, <2>1, <2>2
<1> QED
  BY <1>5, <1>9, <1>10 DEF Begins

\* A station that begins an entry keeps the invariant.
LEMMA BeginsKeeps ==
    ASSUME AmbientInv, NEW b \in Stations, TurnOf(Turns(b)), NEW from, from.buffer = station[b].buffer,
           Begins(b, from), UNCHANGED <<protocol, sent>>, heard \subseteq heard', HeardHolds',
           Static /\ ~protocol.preRegistered => \A n \in from.pendingAck : Known(n)'
    PROVE  AmbientInv'
<1>1. AmbientTypes /\ SamplesHold /\ LogIsSound(sent) /\ BuffersHold /\ HeardHolds /\ RegistrationHolds
  BY DEF AmbientInv
<1>2. ToSet(Tail(agenda)) \subseteq ToSet(agenda)
  BY <1>1, TurnIs
<1>3. \A e \in ToSet(agenda') : e \in ToSet(agenda) \/ e.who = Turns(b)
  BY <1>2 DEF Begins
<1>4. \A n \in Nodes : \A f \in {"state", "sample", "born", "count"} : node'[n][f] = node[n][f]
  BY DEF Begins
<1>5. AmbientTypes'
  <2>1. Entries' = Entries
    BY DEF Entries, Static
  <2>2. DOMAIN station' = Stations /\ \A c \in Stations : StationHolds(station'[c])
    BY <1>1 DEF Begins, AmbientTypes
  <2>3. \A c \in Stations : StationHolds(station[c])'
    BY <2>1, <2>2 DEF StationHolds
  <2>4. DOMAIN node' = Nodes /\ \A n \in Nodes : NodeHolds(node[n])'
    BY DEF Begins, NodeHolds
  <2>5. AgendaHolds(agenda)'
    BY DEF Begins, AgendaHolds
  <2>6. ProtocolHolds' /\ sent' \in Seq(SentRecords)
    BY <1>1 DEF AmbientTypes, ProtocolHolds
  <2> QED
    BY <2>2, <2>3, <2>4, <2>5, <2>6 DEF AmbientTypes
<1>6. SamplesHold'
  <2>1. ASSUME NEW n \in Nodes, NEW e \in ToSet(agenda'), e.who = Wakes(n) PROVE Ready(node'[n], e.at)
    <3>1. e \in ToSet(agenda)
      BY <1>3, <2>1, WhoIsWho
    <3>2. Ready(node[n], e.at)
      BY <1>1, <2>1, <3>1 DEF SamplesHold
    <3> QED
      BY <1>4, <3>2 DEF Ready
  <2>2. ASSUME NEW i \in DOMAIN sent
        PROVE  /\ sent[i].sample <= node'[sent[i].node].count
               /\ Pending(node'[sent[i].node]) => sent[i].sample # node'[sent[i].node].sample
    <3>1. sent[i].node \in Nodes
      <4>1. sent[i] \in SentRecords
        BY <1>1, LenProperties, ElementOfSeq DEF AmbientTypes
      <4> QED
        BY <4>1 DEF SentRecords
    <3> QED
      BY <1>1, <1>4, <3>1 DEF SamplesHold, Pending
  <2> QED
    BY <2>1, <2>2 DEF SamplesHold, Ready, Pending
<1>7. LogIsSound(sent)'
  BY <1>1 DEF LogIsSound
<1>8. BuffersHold'
  <2> SUFFICES ASSUME NEW c \in Stations
               PROVE  /\ station'[c].buffer \in Seq(DOMAIN sent')
                      /\ Distinct(station'[c].buffer)
                      /\ \A e \in ToSet(agenda'), tx \in Nat :
                            e.who = Late(c, tx) => tx \in DOMAIN sent' /\ tx \notin ToSet(station'[c].buffer)
    BY DEF BuffersHold, Distinct
  <2> DEFINE old == station[c].buffer
             new == station'[c].buffer
  <2>1. /\ old \in Seq(DOMAIN sent) /\ Distinct(old)
        /\ \A e \in ToSet(agenda), tx \in Nat : e.who = Late(c, tx) => tx \in DOMAIN sent /\ tx \notin ToSet(old)
    BY <1>1 DEF BuffersHold
  <2>2. new = <<>> \/ new = old
    BY DEF Begins
  <2>3. \A e \in ToSet(agenda'), tx \in Nat : e.who = Late(c, tx) => e \in ToSet(agenda)
    BY <1>3, WhoIsWho
  <2> HIDE DEF old, new
  <2>4. sent' = sent
    OBVIOUS
  <2>5. CASE new = old
    BY <2>1, <2>3, <2>4, <2>5 DEF new
  <2>6. CASE new = <<>>
    <3>1. new \in Seq(DOMAIN sent) /\ DOMAIN new = {} /\ ToSet(new) = {}
      BY <2>6 DEF ToSet
    <3>2. Distinct(new)
      BY <3>1 DEF Distinct
    <3> QED
      BY <2>1, <2>3, <2>4, <3>1, <3>2 DEF new
  <2> QED
    BY <2>2, <2>5, <2>6
<1>9. RegistrationHolds'
  <2>1. Static' = Static /\ protocol' = protocol
    BY DEF Static
  <2>2. ASSUME Static, ~protocol.preRegistered
        PROVE  /\ \A n \in Nodes : node'[n].proto = "registered" => Known(n)'
               /\ \A c \in Stations : \A n \in station'[c].pendingAck : Known(n)'
    <3>1. /\ \A n \in Nodes : node[n].proto = "registered" => Known(n)
          /\ \A c \in Stations : \A n \in station[c].pendingAck : Known(n)
      BY <1>1, <2>2 DEF RegistrationHolds
    <3>2. \A n : Known(n) => Known(n)'
      <4>1. LogGrows(sent, sent')
        BY DEF LogGrows
      <4> QED
        BY <1>1, <4>1, KnownStays
    <3>3. \A n \in from.pendingAck : Known(n)'
      BY <2>2
    <3>4. \A n \in Nodes : node'[n].proto = "registered" => Known(n)'
      BY <2>2, <3>1, <3>2, <3>3 DEF Begins
    <3>5. \A c \in Stations : \A n \in station'[c].pendingAck : Known(n)'
      BY <3>1, <3>2, <3>3 DEF Begins
    <3> QED
      BY <3>4, <3>5
  <2> QED
    BY <2>1, <2>2 DEF RegistrationHolds
<1> QED
  BY <1>5, <1>6, <1>7, <1>8, <1>9 DEF AmbientInv

\* A station enters its next turn at its present one or later.
LEMMA TurnsAfter ==
    ASSUME AmbientTypes, NEW b \in Stations, TurnOf(Turns(b)),
           \A e \in ToSet(agenda') : e \in ToSet(Tail(agenda)) \/ (e.who = Turns(b) /\ e.at >= now)
    PROVE  TurnsLater(agenda, agenda')
<1>1. /\ ToSet(Tail(agenda)) \subseteq ToSet(agenda) /\ now \in Int
      /\ [at |-> now, who |-> Turns(b)] \in ToSet(agenda)
  BY TurnIs
<1> SUFFICES ASSUME NEW c \in Stations, NEW e \in ToSet(agenda'), e.who = Turns(c)
             PROVE  \E f \in ToSet(agenda) : f.who = Turns(c) /\ f.at <= e.at
  BY DEF TurnsLater
<1>2. CASE e \in ToSet(Tail(agenda))
  <2>1. e \in ToSet(agenda) /\ e.at <= e.at
    BY <1>1, <1>2, WakeUpsAre DEF AmbientTypes
  <2> QED
    BY <2>1
<1>3. CASE e.who = Turns(b) /\ e.at >= now
  <2> DEFINE f == [at |-> now, who |-> Turns(b)]
  <2>1. f \in ToSet(agenda) /\ f.who = e.who /\ f.at = now
    BY <1>1, <1>3
  <2> QED
    BY <1>3, <2>1
<1> QED
  BY <1>2, <1>3

\* The end of a command, and the beginning of the simulation, keep the invariant.
LEMMA CommandEndsKeeps ==
    ASSUME AmbientInv, NEW b \in Stations, CommandEnds(b)
    PROVE  AmbientInv'
<1>1. AmbientTypes /\ StationHolds(station[b]) /\ TurnOf(Turns(b)) /\ HeardHolds
  BY DEF AmbientInv, AmbientTypes, CommandEnds
<1>2. Begins(b, station[b])
  BY <1>1, EntryBegins DEF CommandEnds
<1>3. UNCHANGED <<protocol, sent, heard>>
  BY DEF CommandEnds
<1>4. now \in Int
  BY <1>1, TurnIs
<1>5. \A e \in ToSet(agenda') : e \in ToSet(Tail(agenda)) \/ (e.who = Turns(b) /\ e.at >= now)
  <2>1. \A e \in ToSet(agenda') : e.at \in Int
    <3>1. AgendaHolds(agenda')
      BY <1>2 DEF Begins
    <3> QED
      BY <3>1, WakeUpsAre
  <2> QED
    BY <1>2, <1>4, <2>1 DEF Begins
<1>6. HeardHolds'
  <2>1. TurnsLater(agenda, agenda') /\ AgendaHolds(agenda')
    BY <1>1, <1>2, <1>5, TurnsAfter DEF Begins
  <2>2. LogGrows(sent, sent')
    BY <1>3 DEF LogGrows
  <2> QED
    BY <1>1, <1>3, <2>1, <2>2, HeardStays
<1>7. ASSUME Static, ~protocol.preRegistered, NEW n \in station[b].pendingAck PROVE Known(n)'
  <2>1. Known(n)
    BY <1>7 DEF AmbientInv, RegistrationHolds
  <2> QED
    BY <1>3, <2>1 DEF Known
<1> QED
  BY <1>1, <1>2, <1>3, <1>6, <1>7, BeginsKeeps

\* A step that only adds to what a station does, or to its buffer.
LEMMA SlotClosesKeeps ==
    ASSUME AmbientInv, NEW b \in Stations, SlotCloses(b)
    PROVE  AmbientInv'
<1>1. AmbientTypes /\ SamplesHold /\ LogIsSound(sent) /\ BuffersHold /\ HeardHolds /\ RegistrationHolds
      /\ TurnOf(Turns(b))
  BY DEF AmbientInv, SlotCloses
<1>2. /\ station' = [station EXCEPT ![b].settling = TRUE]
      /\ agenda' = Enter(Tail(agenda), now, Turns(b))
      /\ UNCHANGED <<protocol, node, sent, heard>>
  BY DEF SlotCloses
<1>3. /\ now \in Int /\ AgendaHolds(Tail(agenda)) /\ ToSet(Tail(agenda)) \subseteq ToSet(agenda)
      /\ \A e \in ToSet(Tail(agenda)) : e.who # Turns(b)
  BY <1>1, TurnIs
<1>4. /\ AgendaHolds(agenda')
      /\ \A e \in ToSet(agenda') : e \in ToSet(Tail(agenda)) \/ (e.who = Turns(b) /\ e.at >= now)
  <2>1. Turns(b) \in Processes
    BY StationsAndNodes, WhoIsWho
  <2>2. /\ AgendaHolds(agenda')
        /\ ToSet(agenda') \subseteq ToSet(Tail(agenda)) \cup {[at |-> now, who |-> Turns(b)]}
    BY <1>2, <1>3, <2>1, EnterInto
  <2>3. [at |-> now, who |-> Turns(b)].who = Turns(b) /\ [at |-> now, who |-> Turns(b)].at >= now
    BY <1>3
  <2> QED
    BY <2>2, <2>3
<1>5. \A e \in ToSet(agenda') : e \in ToSet(agenda) \/ e.who = Turns(b)
  BY <1>3, <1>4
<1>6. /\ DOMAIN station' = Stations
      /\ \A c \in Stations : /\ StationHolds(station'[c])
                             /\ station'[c].buffer = station[c].buffer
                             /\ station'[c].pendingAck = station[c].pendingAck
  <2> DEFINE st == station[b]
             new == [st EXCEPT !.settling = TRUE]
  <2>1. DOMAIN station = Stations /\ \A c \in Stations : StationHolds(station[c])
    BY <1>1 DEF AmbientTypes
  <2>2. DOMAIN station' = Stations /\ station'[b] = new /\ \A c \in Stations \ {b} : station'[c] = station[c]
    BY <1>2, <2>1
  <2>3. StationHolds(st)
    BY <2>1
  <2> HIDE DEF st
  <2>4. StationHolds(new) /\ new.buffer = st.buffer /\ new.pendingAck = st.pendingAck
    BY <2>3 DEF StationHolds
  <2> HIDE DEF new
  <2> QED
    BY <2>1, <2>2, <2>4 DEF st
<1>7. AmbientTypes'
  <2>1. Entries' = Entries
    BY <1>2 DEF Entries, Static
  <2>2. \A c \in Stations : StationHolds(station[c])'
    BY <1>6, <2>1 DEF StationHolds
  <2>3. DOMAIN node' = Nodes /\ \A n \in Nodes : NodeHolds(node[n])'
    BY <1>1, <1>2 DEF AmbientTypes, NodeHolds
  <2>4. AgendaHolds(agenda)'
    BY <1>4 DEF AgendaHolds
  <2>5. ProtocolHolds' /\ sent' \in Seq(SentRecords)
    BY <1>1, <1>2 DEF AmbientTypes, ProtocolHolds
  <2> QED
    BY <1>6, <2>2, <2>3, <2>4, <2>5 DEF AmbientTypes
<1>8. SamplesHold'
  <2>1. ASSUME NEW n \in Nodes, NEW e \in ToSet(agenda'), e.who = Wakes(n) PROVE Ready(node'[n], e.at)
    <3>1. e \in ToSet(agenda)
      BY <1>5, <2>1, WhoIsWho
    <3> QED
      BY <1>1, <1>2, <2>1, <3>1 DEF SamplesHold
  <2> QED
    BY <1>1, <1>2, <2>1 DEF SamplesHold, Ready, Pending
<1>9. LogIsSound(sent)'
  BY <1>1, <1>2 DEF LogIsSound
<1>10. BuffersHold'
  <2>1. \A c \in Stations, e \in ToSet(agenda'), tx \in Nat : e.who = Late(c, tx) => e \in ToSet(agenda)
    BY <1>5, WhoIsWho
  <2> QED
    BY <1>1, <1>2, <1>6, <2>1 DEF BuffersHold, Distinct
<1>11. HeardHolds'
  <2>1. TurnsLater(agenda, agenda')
    BY <1>1, <1>4, TurnsAfter
  <2>2. LogGrows(sent, sent')
    BY <1>2 DEF LogGrows
  <2> QED
    BY <1>1, <1>2, <1>4, <2>1, <2>2, HeardStays
<1>12. RegistrationHolds'
  <2>1. Static' = Static
    BY <1>2 DEF Static
  <2>2. \A n : Known(n) => Known(n)'
    BY <1>2 DEF Known
  <2> QED
    BY <1>1, <1>2, <1>6, <2>1, <2>2 DEF RegistrationHolds
<1> QED
  BY <1>7, <1>8, <1>9, <1>10, <1>11, <1>12 DEF AmbientInv

\* A packet that waited for the next window keeps the invariant.
LEMMA LatePacketKeeps ==
    ASSUME AmbientInv, NEW b \in Stations, NEW tx \in DOMAIN sent, LatePacket(b, tx)
    PROVE  AmbientInv'
<1>1. AmbientTypes /\ SamplesHold /\ LogIsSound(sent) /\ BuffersHold /\ HeardHolds /\ RegistrationHolds
      /\ TurnOf(Late(b, tx))
  BY DEF AmbientInv, LatePacket
<1> DEFINE st == station[b]
           deferred == Defers(st, sent[tx], now)
           buffered == Buffers(st, sent[tx], now)
           kept == IF buffered THEN Append(st.buffer, tx) ELSE st.buffer
<1>2. /\ station' = [station EXCEPT ![b].buffer = kept]
      /\ agenda' = IF deferred THEN Enter(Tail(agenda), now, Late(b, tx)) ELSE Tail(agenda)
      /\ UNCHANGED <<protocol, node, sent, heard>>
      /\ buffered => ~deferred
  BY DEF LatePacket, Buffers
<1>3. /\ now \in Int /\ AgendaHolds(Tail(agenda)) /\ ToSet(Tail(agenda)) \subseteq ToSet(agenda)
      /\ \A e \in ToSet(Tail(agenda)) : e.who # Late(b, tx)
      /\ [at |-> now, who |-> Late(b, tx)] \in ToSet(agenda)
  BY <1>1, TurnIs
<1>4. tx \in Nat /\ b \in Nat
  BY <1>1, LenProperties, StationsAndNodes DEF AmbientTypes
<1>5. tx \notin ToSet(st.buffer)
  <2> DEFINE e == [at |-> now, who |-> Late(b, tx)]
  <2>1. e \in ToSet(agenda) /\ e.who = Late(b, tx)
    BY <1>3
  <2> QED
    BY <1>1, <1>4, <2>1 DEF BuffersHold
<1> HIDE DEF deferred, buffered
<1>6. /\ AgendaHolds(agenda')
      /\ \A e \in ToSet(agenda') : e \in ToSet(Tail(agenda)) \/ (e.who = Late(b, tx) /\ deferred)
  <2>1. CASE deferred
    <3>1. Late(b, tx) \in Processes
      BY <1>4, WhoIsWho
    <3>2. /\ AgendaHolds(agenda')
          /\ ToSet(agenda') \subseteq ToSet(Tail(agenda)) \cup {[at |-> now, who |-> Late(b, tx)]}
      BY <1>2, <1>3, <2>1, <3>1, EnterInto
    <3>3. [at |-> now, who |-> Late(b, tx)].who = Late(b, tx)
      OBVIOUS
    <3> QED
      BY <2>1, <3>2, <3>3
  <2>2. CASE ~deferred
    BY <1>2, <1>3, <2>2
  <2> QED
    BY <2>1, <2>2
<1>7. \A e \in ToSet(agenda') : e \in ToSet(agenda) \/ e.who = Late(b, tx)
  BY <1>3, <1>6
<1>8. /\ DOMAIN station' = Stations
      /\ \A c \in Stations : /\ StationHolds(station'[c])
                             /\ station'[c].buffer = IF c = b THEN kept ELSE station[c].buffer
                             /\ station'[c].pendingAck = station[c].pendingAck
  <2> DEFINE new == [st EXCEPT !.buffer = kept]
  <2>1. DOMAIN station = Stations /\ \A c \in Stations : StationHolds(station[c])
    BY <1>1 DEF AmbientTypes
  <2> HIDE DEF kept
  <2>2. DOMAIN station' = Stations /\ station'[b] = new /\ \A c \in Stations \ {b} : station'[c] = station[c]
    BY <1>2, <2>1
  <2>3. StationHolds(st)
    BY <2>1
  <2> HIDE DEF st
  <2>4. StationHolds(new) /\ new.buffer = kept /\ new.pendingAck = st.pendingAck
    BY <2>3 DEF StationHolds
  <2> HIDE DEF new
  <2> QED
    BY <2>1, <2>2, <2>4 DEF st
<1>9. AmbientTypes'
  <2>1. Entries' = Entries
    BY <1>2 DEF Entries, Static
  <2>2. \A c \in Stations : StationHolds(station[c])'
    BY <1>8, <2>1 DEF StationHolds
  <2>3. DOMAIN node' = Nodes /\ \A n \in Nodes : NodeHolds(node[n])'
    BY <1>1, <1>2 DEF AmbientTypes, NodeHolds
  <2>4. AgendaHolds(agenda)'
    BY <1>6 DEF AgendaHolds
  <2>5. ProtocolHolds' /\ sent' \in Seq(SentRecords)
    BY <1>1, <1>2 DEF AmbientTypes, ProtocolHolds
  <2> QED
    BY <1>8, <2>2, <2>3, <2>4, <2>5 DEF AmbientTypes
<1>10. SamplesHold'
  <2>1. ASSUME NEW n \in Nodes, NEW e \in ToSet(agenda'), e.who = Wakes(n) PROVE Ready(node'[n], e.at)
    <3>1. e \in ToSet(agenda)
      BY <1>7, <2>1, WhoIsWho
    <3> QED
      BY <1>1, <1>2, <2>1, <3>1 DEF SamplesHold
  <2> QED
    BY <1>1, <1>2, <2>1 DEF SamplesHold, Ready, Pending
<1>11. LogIsSound(sent)'
  BY <1>1, <1>2 DEF LogIsSound
<1>12. BuffersHold'
  <2> SUFFICES ASSUME NEW c \in Stations
               PROVE  /\ station'[c].buffer \in Seq(DOMAIN sent)
                      /\ Distinct(station'[c].buffer)
                      /\ \A e \in ToSet(agenda'), ty \in Nat :
                            e.who = Late(c, ty) => ty \in DOMAIN sent /\ ty \notin ToSet(station'[c].buffer)
    BY <1>2 DEF BuffersHold, Distinct
  <2> DEFINE old == station[c].buffer
             new == station'[c].buffer
  <2>1. /\ old \in Seq(DOMAIN sent) /\ Distinct(old)
        /\ \A e \in ToSet(agenda), ty \in Nat : e.who = Late(c, ty) => ty \in DOMAIN sent /\ ty \notin ToSet(old)
    BY <1>1 DEF BuffersHold
  <2>2. CASE c = b /\ buffered
    <3>1. new = Append(old, tx) /\ tx \notin ToSet(old) /\ ~deferred
      BY <1>2, <1>5, <1>8, <2>2
    <3> HIDE DEF old, new
    <3>2. /\ Append(old, tx) \in Seq(DOMAIN sent) /\ Distinct(Append(old, tx))
          /\ ToSet(Append(old, tx)) \subseteq ToSet(old) \cup {tx}
      BY <2>1, <3>1, BufferGrows
    <3>3. ASSUME NEW e \in ToSet(agenda'), NEW ty \in Nat, e.who = Late(c, ty)
          PROVE  ty \in DOMAIN sent /\ ty \notin ToSet(new)
      <4>1. e \in ToSet(Tail(agenda)) /\ e.who # Late(b, tx)
        BY <1>3, <1>6, <3>1
      <4>2. ty # tx /\ e \in ToSet(agenda)
        BY <1>3, <2>2, <3>3, <4>1
      <4> QED
        BY <2>1, <3>1, <3>2, <3>3, <4>2
    <3> QED
      BY <3>1, <3>2, <3>3 DEF new
  <2>3. CASE ~(c = b /\ buffered)
    <3>1. new = old
      BY <1>8, <2>3
    <3>2. ASSUME NEW e \in ToSet(agenda'), NEW ty \in Nat, e.who = Late(c, ty)
          PROVE  ty \in DOMAIN sent /\ ty \notin ToSet(old)
      <4>1. CASE e \in ToSet(agenda)
        BY <2>1, <3>2, <4>1
      <4>2. CASE e.who = Late(b, tx)
        <5>1. Late(c, ty) = Late(b, tx)
          BY <3>2, <4>2
        <5>2. c = b /\ ty = tx
          BY <5>1, WhoIsWho
        <5> QED
          BY <1>5, <5>2
      <4> QED
        BY <1>7, <4>1, <4>2
    <3> HIDE DEF old, new
    <3> QED
      BY <2>1, <3>1, <3>2 DEF new
  <2> QED
    BY <2>2, <2>3
<1>13. HeardHolds'
  <2>1. TurnsLater(agenda, agenda')
    <3> SUFFICES ASSUME NEW c \in Stations, NEW e \in ToSet(agenda'), e.who = Turns(c)
                 PROVE  \E f \in ToSet(agenda) : f.who = Turns(c) /\ f.at <= e.at
      BY DEF TurnsLater
    <3>1. e \in ToSet(agenda)
      BY <1>7, WhoIsWho
    <3>2. e.at <= e.at
      BY <1>1, <3>1, WakeUpsAre DEF AmbientTypes
    <3> QED
      BY <3>1, <3>2
  <2>2. LogGrows(sent, sent')
    BY <1>2 DEF LogGrows
  <2> QED
    BY <1>1, <1>2, <1>6, <2>1, <2>2, HeardStays
<1>14. RegistrationHolds'
  <2>1. Static' = Static
    BY <1>2 DEF Static
  <2>2. \A n : Known(n) => Known(n)'
    BY <1>2 DEF Known
  <2> QED
    BY <1>1, <1>2, <1>8, <2>1, <2>2 DEF RegistrationHolds
<1> QED
  BY <1>9, <1>10, <1>11, <1>12, <1>13, <1>14 DEF AmbientInv

\* Of the packets in its buffer a station decides on each once.
LEMMA DecisionsAre ==
    ASSUME AmbientTypes, BuffersHold, NEW b \in Stations
    PROVE  /\ \A d \in Decisions(b) : d.station = b /\ d.at = now /\ d.tx \in DOMAIN sent
           /\ \A d, f \in Decisions(b) : d.tx = f.tx => d = f
<1> DEFINE txs(shift) == Receptions(b, shift)
           work(shift) == DecodeReceptions(Packets(b, txs(shift)))
           dec(shift, i) == [station |-> b, tx |-> txs(shift)[i], outcome |-> work(shift).outcome[i], at |-> now,
                             matched |-> station[b].expect \in {Everyone, sent[txs(shift)[i]].node}]
<1>1. \A d \in Decisions(b) : \E shift : \E i \in DOMAIN txs(shift) : d = dec(shift, i)
  BY DEF Decisions
<1>2. \A shift, i : dec(shift, i).station = b /\ dec(shift, i).at = now /\ dec(shift, i).tx = txs(shift)[i]
  OBVIOUS
<1>3. station[b].buffer \in Seq(DOMAIN sent) /\ Distinct(station[b].buffer)
  BY DEF BuffersHold
<1>4. ASSUME NEW shift
      PROVE  /\ \A i \in DOMAIN txs(shift) : txs(shift)[i] \in DOMAIN sent /\ Shift[sent[txs(shift)[i]].node] = shift
             /\ \A i, j \in DOMAIN txs(shift) : txs(shift)[i] = txs(shift)[j] => i = j
  <2> DEFINE s == station[b].buffer
             S == {tx \in DOMAIN sent : Shift[sent[tx].node] = shift}
             only == Only(s, S)
  <2>1. txs(shift) = only
    BY DEF Receptions
  <2>2. \A i, j \in 1..Len(s) : s[i] = s[j] => i = j
    BY <1>3, LenProperties DEF Distinct
  <2>3. /\ DOMAIN only = 1..Len(only)
        /\ \A i \in 1..Len(only) : only[i] \in S
        /\ \A i, j \in 1..Len(only) : only[i] = only[j] => i = j
    <3> HIDE DEF S
    <3> QED
      BY <1>3, <2>2, OnlyRules
  <2> HIDE DEF only
  <2> QED
    BY <2>1, <2>3
<1> HIDE DEF dec, txs
<1>5. ASSUME NEW d \in Decisions(b) PROVE d.station = b /\ d.at = now /\ d.tx \in DOMAIN sent
  <2>1. PICK shift : \E i \in DOMAIN txs(shift) : d = dec(shift, i)
    BY <1>1
  <2>2. PICK i \in DOMAIN txs(shift) : d = dec(shift, i)
    BY <2>1
  <2> QED
    BY <1>2, <1>4, <2>2
<1>6. ASSUME NEW d \in Decisions(b), NEW f \in Decisions(b), d.tx = f.tx PROVE d = f
  <2>1. PICK p : \E i \in DOMAIN txs(p) : d = dec(p, i)
    BY <1>1
  <2>2. PICK i \in DOMAIN txs(p) : d = dec(p, i)
    BY <2>1
  <2>3. PICK q : \E j \in DOMAIN txs(q) : f = dec(q, j)
    BY <1>1
  <2>4. PICK j \in DOMAIN txs(q) : f = dec(q, j)
    BY <2>3
  <2>5. txs(p)[i] = txs(q)[j]
    BY <1>2, <1>6, <2>2, <2>4
  <2>6. p = q
    BY <1>4, <2>5
  <2>7. i = j
    BY <1>4, <2>5, <2>6
  <2> QED
    BY <2>2, <2>4, <2>6, <2>7
<1> QED
  BY <1>5, <1>6

\* A station that decides on its buffer keeps the invariant: whom it will acknowledge, it has just decoded.
LEMMA SlotSettlesKeeps ==
    ASSUME AmbientInv, NEW b \in Stations, SlotSettles(b)
    PROVE  AmbientInv'
<1>1. AmbientTypes /\ BuffersHold /\ HeardHolds /\ RegistrationHolds /\ TurnOf(Turns(b))
      /\ StationHolds(station[b])
  BY DEF AmbientInv, AmbientTypes, SlotSettles
<1> DEFINE decisions == Decisions(b)
           outcome == IF \E d \in decisions : Decodes(d.outcome) THEN "success"
                      ELSE IF station[b].buffer # <<>> THEN "occupied_undecoded" ELSE "idle"
           st == station[b]
           acks == ToAcknowledge(decisions)
           from == [st EXCEPT !.pendingAck = @ \cup acks, !.outcomes = Append(@, outcome)]
<1>2. /\ heard' = heard \cup decisions
      /\ BeginEntry(b, from)
      /\ UNCHANGED <<protocol, sent>>
  BY DEF SlotSettles
<1>3. /\ \A d \in decisions : d.station = b /\ d.at = now /\ d.tx \in DOMAIN sent
      /\ \A d, f \in decisions : d.tx = f.tx => d = f
  BY <1>1, DecisionsAre
<1>4. \A n \in acks : \E d \in decisions : sent[d.tx].node = n /\ sent[d.tx].type = "id" /\ Decodes(d.outcome)
  BY DEF ToAcknowledge
<1> HIDE DEF decisions, outcome, acks
<1>5. from.buffer = st.buffer /\ from.pendingAck = st.pendingAck \cup acks /\ StationHolds(from)
  <2> HIDE DEF st
  <2>1. StationHolds(st)
    BY <1>1 DEF st
  <2> QED
    BY <2>1 DEF StationHolds
<1> HIDE DEF from
<1>6. Begins(b, from)
  BY <1>1, <1>2, <1>5, EntryBegins
<1>7. /\ now \in Int /\ ToSet(Tail(agenda)) \subseteq ToSet(agenda)
      /\ [at |-> now, who |-> Turns(b)] \in ToSet(agenda)
  BY <1>1, TurnIs
<1>8. \A e \in ToSet(agenda') : e.at \in Int
  BY <1>6, WakeUpsAre DEF Begins
<1>9. \A r \in heard : r.station = b => r.at < now /\ r.at \in Int
  <2> DEFINE e == [at |-> now, who |-> Turns(b)]
  <2>1. e \in ToSet(agenda) /\ e.who = Turns(b) /\ e.at = now
    BY <1>7
  <2> HIDE DEF e
  <2> QED
    BY <1>1, <2>1 DEF HeardHolds
<1>10. HeardHolds'
  <2>1. ASSUME NEW r \in heard'
        PROVE  /\ r.station \in Stations /\ r.tx \in DOMAIN sent /\ r.at \in Int
               /\ \A e \in ToSet(agenda') : e.who = Turns(r.station) => r.at < e.at
    <3>1. CASE r \in heard
      <4>1. r.station \in Stations /\ r.tx \in DOMAIN sent /\ r.at \in Int
        BY <1>1, <3>1 DEF HeardHolds
      <4>2. ASSUME NEW e \in ToSet(agenda'), e.who = Turns(r.station) PROVE r.at < e.at
        <5>1. CASE e \in ToSet(Tail(agenda))
          BY <1>1, <1>7, <3>1, <4>2, <5>1 DEF HeardHolds
        <5>2. CASE e.who = Turns(b) /\ e.at > now
          <6>1. r.station = b
            BY <4>2, <5>2, WhoIsWho
          <6> QED
            BY <1>7, <1>8, <1>9, <3>1, <5>2, <6>1
        <5> QED
          BY <1>6, <5>1, <5>2 DEF Begins
      <4> QED
        BY <4>1, <4>2
    <3>2. CASE r \in decisions
      <4>1. r.station = b /\ r.at = now /\ r.tx \in DOMAIN sent
        BY <1>3, <3>2
      <4>2. ASSUME NEW e \in ToSet(agenda'), e.who = Turns(b) PROVE now < e.at
        <5>1. e \notin ToSet(Tail(agenda))
          BY <1>1, <4>2, TurnIs
        <5> QED
          BY <1>6, <1>7, <1>8, <5>1 DEF Begins
      <4> QED
        BY <1>7, <4>1, <4>2
    <3> QED
      BY <1>2, <3>1, <3>2
  <2>2. ASSUME NEW r \in heard', NEW q \in heard', r.station = q.station, r.tx = q.tx, r.at = q.at
        PROVE  r = q
    <3>1. CASE r \in heard /\ q \in heard
      BY <1>1, <2>2, <3>1 DEF HeardHolds
    <3>2. CASE r \in decisions /\ q \in decisions
      BY <1>3, <2>2, <3>2
    <3>3. CASE r \in heard /\ q \in decisions
      <4>1. r.station = b /\ r.at = now
        BY <1>3, <2>2, <3>3
      <4> QED
        BY <1>7, <1>9, <3>3, <4>1
    <3>4. CASE r \in decisions /\ q \in heard
      <4>1. q.station = b /\ q.at = now
        BY <1>3, <2>2, <3>4
      <4> QED
        BY <1>7, <1>9, <3>4, <4>1
    <3> QED
      BY <1>2, <3>1, <3>2, <3>3, <3>4
  <2> QED
    BY <1>2, <2>1, <2>2 DEF HeardHolds
<1>11. ASSUME Static, ~protocol.preRegistered, NEW n \in from.pendingAck PROVE Known(n)'
  <2>1. CASE n \in st.pendingAck
    <3>1. Known(n)
      BY <1>1, <1>11, <2>1 DEF RegistrationHolds
    <3> QED
      BY <1>2, <3>1 DEF Known
  <2>2. CASE n \in acks
    BY <1>2, <1>4, <2>2 DEF Known
  <2> QED
    BY <1>5, <1>11, <2>1, <2>2
<1> QED
  BY <1>1, <1>2, <1>5, <1>6, <1>10, <1>11, BeginsKeeps DEF st

\* The whole state but for how the simulation ended.
LEMMA Stuttering ==
    ASSUME AmbientInv, UNCHANGED <<protocol, agenda, node, station, sent, heard>>
    PROVE  AmbientInv'
<1>1. AmbientTypes'
  <2>1. Entries' = Entries
    BY DEF Entries, Static
  <2>2. \A b \in Stations : StationHolds(station[b])'
    BY <2>1 DEF AmbientInv, AmbientTypes, StationHolds
  <2> QED
    BY <2>2 DEF AmbientInv, AmbientTypes, NodeHolds, ProtocolHolds, AgendaHolds
<1>2. SamplesHold'
  BY DEF AmbientInv, SamplesHold, Ready, Pending
<1>3. LogIsSound(sent)' /\ BuffersHold' /\ HeardHolds'
  BY DEF AmbientInv, LogIsSound, BuffersHold, Distinct, HeardHolds
<1>4. RegistrationHolds'
  BY DEF AmbientInv, RegistrationHolds, Known, Static
<1> QED
  BY <1>1, <1>2, <1>3, <1>4 DEF AmbientInv

\* The simulation starts in the invariant.
LEMMA AmbientStarts ==
    ASSUME AmbientInit
    PROVE  AmbientInv
<1>1. NumNodes \in Nat /\ NumStations \in Nat
  BY AmbientAssumption
<1>2. PICK startup \in [Nodes -> Startups], phase \in [Nodes -> SensingPhases] :
         node = [n \in Nodes |-> NewNode(startup[n], phase[n])]
  BY DEF AmbientInit
<1>3. /\ protocol \in [name : Protocols, preRegistered : PreRegistration]
      /\ station = [b \in Stations |-> NewStation]
      /\ agenda = [i \in 1..NumNodes + NumStations |->
                     [at |-> 0, who |-> IF i <= NumNodes THEN Wakes(i) ELSE Turns(i - NumNodes)]]
      /\ sent = <<>> /\ heard = {}
  BY DEF AmbientInit
<1>4. DOMAIN sent = {} /\ sent \in Seq(SentRecords)
  BY <1>3
<1>5. ASSUME NEW n \in Nodes
      PROVE  NodeHolds(node[n]) /\ node[n].sample = 0
             /\ (node[n].proto = "registered" => protocol.preRegistered)
  <2> DEFINE s == startup[n]
             p == phase[n]
  <2>1. node[n] = NewNode(s, p)
    BY <1>2
  <2>2. s \in Int /\ p \in Int
    <3>1. Startups \subseteq Nat /\ SensingPhases \subseteq 0..Interval - 1
      BY AmbientAssumption
    <3>2. s \in Startups /\ p \in SensingPhases
      OBVIOUS
    <3> HIDE DEF s, p
    <3>3. s \in Nat
      BY <3>1, <3>2
    <3>4. p \in 0..Interval - 1
      BY <3>1, <3>2
    <3>5. \A x : x \in 0..Interval - 1 => x \in Int
      BY DurationsAre
    <3> QED
      BY <3>3, <3>4, <3>5
  <2> HIDE DEF s, p
  <2>3. <<>> \in Seq(AirSlots)
    BY EmptySeq
  <2>4. NodeHolds(NewNode(s, p)) /\ NewNode(s, p).sample = 0
    BY <2>2, <2>3, DurationsAre DEF NewNode, NodeHolds, NodeFields
  <2>5. NewNode(s, p).proto = IF protocol.preRegistered THEN "registered" ELSE "idle"
    BY DEF NewNode
  <2> QED
    BY <2>1, <2>4, <2>5
<1>6. StationHolds(NewStation) /\ NewStation.buffer = <<>> /\ NewStation.pendingAck = {}
  <2>1. <<>> \in Seq(Entries) /\ Len(<<>>) = 0
    BY EmptySeq
  <2> QED
    BY <2>1 DEF NewStation, StationHolds
<1>7. AgendaHolds(agenda) /\ \A e \in ToSet(agenda) : \A b, tx : e.who # Late(b, tx)
  <2> DEFINE m == NumNodes + NumStations
             who(i) == IF i <= NumNodes THEN Wakes(i) ELSE Turns(i - NumNodes)
  <2>1. m \in Nat
    BY <1>1
  <2>2. \A i \in 1..m : who(i) \in Processes
    <3> SUFFICES ASSUME NEW i \in 1..m PROVE who(i) \in Processes
      OBVIOUS
    <3>1. i \in Nat /\ (~(i <= NumNodes) => i - NumNodes \in Nat)
      BY <1>1
    <3> QED
      BY <3>1, WhoIsWho
  <2>3. \A i \in 1..m : [at |-> 0, who |-> who(i)] \in WakeUps
    BY <2>2 DEF WakeUps
  <2>4. \A i, j \in 1..m : who(i) = who(j) => i = j
    <3> SUFFICES ASSUME NEW i \in 1..m, NEW j \in 1..m, who(i) = who(j) PROVE i = j
      OBVIOUS
    <3>1. CASE i <= NumNodes /\ j <= NumNodes
      BY <3>1, WhoIsWho
    <3>2. CASE ~(i <= NumNodes) /\ ~(j <= NumNodes)
      <4>1. i - NumNodes = j - NumNodes
        BY <3>2, WhoIsWho
      <4> QED
        BY <1>1, <4>1
    <3>3. CASE (i <= NumNodes) # (j <= NumNodes)
      BY <3>3, WhoIsWho
    <3> QED
      BY <3>1, <3>2, <3>3
  <2>5. \A i : \A b, tx : who(i) # Late(b, tx)
    BY WhoIsWho
  <2>6. agenda = [i \in 1..m |-> [at |-> 0, who |-> who(i)]]
    BY <1>3
  <2> HIDE DEF m, who
  <2>7. agenda \in Seq(WakeUps) /\ DOMAIN agenda = 1..m /\ \A i \in 1..m : agenda[i].who = who(i)
    BY <2>1, <2>3, <2>6
  <2> QED
    BY <2>4, <2>5, <2>7 DEF AgendaHolds, ToSet
<1>8. AmbientTypes
  <2>1. ProtocolHolds
    BY <1>3 DEF ProtocolHolds
  <2>2. DOMAIN station = Stations /\ \A b \in Stations : StationHolds(station[b])
    BY <1>3, <1>6
  <2>3. DOMAIN node = Nodes
    BY <1>2
  <2> QED
    BY <1>4, <1>5, <1>7, <2>1, <2>2, <2>3 DEF AmbientTypes
<1>9. SamplesHold
  BY <1>4, <1>5 DEF SamplesHold, Ready
<1>10. LogIsSound(sent)
  BY <1>4 DEF LogIsSound
<1>11. BuffersHold
  <2>1. ASSUME NEW b \in Stations
        PROVE  station[b].buffer \in Seq(DOMAIN sent) /\ Distinct(station[b].buffer)
    <3>1. station[b].buffer = <<>>
      BY <1>3, <1>6
    <3> DEFINE none == <<>>
    <3>2. none \in Seq(DOMAIN sent) /\ DOMAIN none = {}
      OBVIOUS
    <3>3. Distinct(none)
      BY <3>2 DEF Distinct
    <3> QED
      BY <3>1, <3>2, <3>3
  <2> QED
    BY <1>7, <2>1 DEF BuffersHold
<1>12. HeardHolds
  BY <1>3 DEF HeardHolds
<1>13. RegistrationHolds
  BY <1>3, <1>5, <1>6 DEF RegistrationHolds
<1> QED
  BY <1>8, <1>9, <1>10, <1>11, <1>12, <1>13 DEF AmbientInv

\* AmbientInv is an inductive invariant of the simulation: whatever the nodes' energy
\* and draws, every process has one wake-up, every buffer and the log hold a packet
\* once, and a station acknowledges only whom it has decoded.
THEOREM AmbientInvariant == AmbientSpec => []AmbientInv
<1>1. AmbientInit => AmbientInv
  BY AmbientStarts
<1>2. AmbientInv /\ [AmbientNext]_ambientVars => AmbientInv'
  <2> SUFFICES ASSUME AmbientInv, [AmbientNext]_ambientVars PROVE AmbientInv'
    OBVIOUS
  <2>1. ASSUME NEW n \in Nodes, NodeWakes(n) PROVE AmbientInv'
    BY <2>1, NodeWakesKeeps
  <2>2. ASSUME NEW b \in Stations, CommandEnds(b) PROVE AmbientInv'
    BY <2>2, CommandEndsKeeps
  <2>3. ASSUME NEW b \in Stations, SlotCloses(b) PROVE AmbientInv'
    BY <2>3, SlotClosesKeeps
  <2>4. ASSUME NEW b \in Stations, SlotSettles(b) PROVE AmbientInv'
    BY <2>4, SlotSettlesKeeps
  <2>5. ASSUME NEW b \in Stations, NEW tx \in DOMAIN sent, LatePacket(b, tx) PROVE AmbientInv'
    BY <2>5, LatePacketKeeps
  <2>6. CASE ReachHorizon
    BY <2>6, Stuttering DEF ReachHorizon
  <2>7. CASE UNCHANGED ambientVars
    BY <2>7, Stuttering DEF ambientVars
  <2> QED
    BY <2>1, <2>2, <2>3, <2>4, <2>5, <2>6, <2>7 DEF AmbientNext
<1> QED
  BY <1>1, <1>2, PTL DEF AmbientSpec

\* Of one sample one reception is forwarded.
LEMMA OneEvent ==
    ASSUME AmbientInv, NEW r \in Forwarded, NEW q \in Forwarded, OfOneSample(r, q)
    PROVE  r = q
<1>1. /\ r \in Candidates /\ q \in Candidates /\ Preferred(r, q) /\ Preferred(q, r)
  <2>1. OfOneSample(q, r)
    BY DEF OfOneSample
  <2> QED
    BY <2>1 DEF Forwarded
<1>2. r \in heard /\ q \in heard /\ sent[r.tx].type = "data"
  BY <1>1 DEF Candidates
<1>3. /\ r.tx \in DOMAIN sent /\ q.tx \in DOMAIN sent /\ r.at \in Int /\ q.at \in Int
      /\ r.station \in Stations /\ q.station \in Stations
  BY <1>2 DEF AmbientInv, HeardHolds
<1>4. r.tx = q.tx
  <2>1. LogIsSound(sent)
    BY DEF AmbientInv
  <2>2. sent[r.tx].sample > 0
    BY <1>2, <1>3, <2>1 DEF LogIsSound
  <2> QED
    BY <1>3, <2>1, <2>2 DEF LogIsSound, OfOneSample
<1>5. Strength(r) \in Nat /\ Strength(q) \in Nat
  <2>1. \A i \in DOMAIN sent : sent[i].node \in Nodes
    <3> SUFFICES ASSUME NEW i \in DOMAIN sent PROVE sent[i].node \in Nodes
      OBVIOUS
    <3>1. sent[i] \in SentRecords
      BY LenProperties, ElementOfSeq DEF AmbientInv, AmbientTypes
    <3> QED
      BY <3>1 DEF SentRecords
  <2>2. Gain \in [Stations -> [Nodes -> Nat]]
    BY AmbientAssumption
  <2> QED
    BY <1>3, <2>1, <2>2 DEF Strength
<1>6. r.at = q.at /\ r.station = q.station
  <2>0. \A x \in Stations : x \in Int
    <3>1. Stations \subseteq Nat
      BY StationsAndNodes
    <3> QED
      BY <3>1
  <2>1. r.station \in Int /\ q.station \in Int
    BY <1>3, <2>0
  <2> QED
    BY <1>1, <1>3, <1>5, <2>1 DEF Preferred
<1> QED
  BY <1>2, <1>4, <1>6 DEF AmbientInv, HeardHolds

\* For every number of nodes and stations, schedule, gains and durations: a node is
\* registered only once a station decoded its identifier; a sample goes on the air at
\* most once, processed; and it becomes at most one event of the 5G replay
\* (_start_transmission, _process_rx_buffer, decoded_events).
THEOREM SamplesAreSentOnce == AmbientSpec => []SampleIsSentOnce
<1>1. AmbientInv => SampleIsSentOnce
  <2> SUFFICES ASSUME AmbientInv PROVE SampleIsSentOnce
    OBVIOUS
  <2>1. RegistrationIsEarned
    BY DEF AmbientInv, RegistrationHolds, RegistrationIsEarned, Known
  <2>2. ASSUME NEW i \in DOMAIN sent, sent[i].type = "data"
        PROVE  /\ sent[i].sample > 0 /\ sent[i].born + ProcessingMs <= sent[i].start
               /\ \A j \in DOMAIN sent :
                    sent[j].node = sent[i].node /\ sent[j].sample = sent[i].sample => j = i
    BY <2>2 DEF AmbientInv, LogIsSound
  <2>3. \A r, q \in Forwarded : OfOneSample(r, q) => r = q
    BY OneEvent
  <2> QED
    BY <2>1, <2>2, <2>3 DEF SampleIsSentOnce
<1> QED
  BY <1>1, AmbientInvariant, PTL

\* A node that had to register is registered only after a station decoded its
\* identifier, whoever was listening when the acknowledgement was sent.
THEOREM RegisteredAreKnown == AmbientSpec => []RegistrationIsEarned
<1>1. AmbientInv => RegistrationIsEarned
  BY DEF AmbientInv, RegistrationHolds, RegistrationIsEarned, Known
<1> QED
  BY <1>1, AmbientInvariant, PTL

----------------------------------------------------------------------------
(* Sums.                                                                    *)

\* The running sum that Total is the last value of.
Sums(sum, s) ==
    /\ sum \in [0..Len(s) -> Int] /\ sum[0] = 0
    /\ \A k \in 1..Len(s) : sum[k] = sum[k - 1] + s[k]

LEMMA TotalIs ==
    ASSUME NEW s \in Seq(Int)
    PROVE  \E sum : Sums(sum, s) /\ Total(s) = sum[Len(s)]
<1> DEFINE n == Len(s)
           step == [k \in 1..n |-> [x \in Int |-> x + s[k]]]
           Is(f) == f = [k \in 0..n |-> IF k = 0 THEN 0 ELSE f[k - 1] + s[k]]
           sum == CHOOSE f : Is(f)
<1>1. n \in Nat /\ \A k \in 1..n : s[k] \in Int
  BY LenProperties, ElementOfSeq
<1> HIDE DEF n
<1>2. step \in [1..n -> [Int -> Int]]
  BY <1>1
<1>3. PICK f : f \in [0..n -> Int] /\ f[0] = 0 /\ \A i \in 1..n : f[i] = step[i][f[i - 1]]
  <2>1. n \in Nat /\ 0 \in Int /\ step \in [1..n -> [Int -> Int]]
    BY <1>1, <1>2
  <2> HIDE DEF step, Is, sum
  <2>2. \E f : GoesBy(f, n, Int, 0, step)
    BY <2>1, StepByStep
  <2> QED
    BY <2>2 DEF GoesBy
<1>4. \A i \in 1..n : f[i] = f[i - 1] + s[i]
  <2> SUFFICES ASSUME NEW i \in 1..n PROVE f[i] = f[i - 1] + s[i]
    OBVIOUS
  <2>1. i - 1 \in 0..n /\ f[i - 1] \in Int
    BY <1>1, <1>3
  <2>2. f[i] = step[i][f[i - 1]]
    BY <1>3
  <2> QED
    BY <2>1, <2>2
<1>5. Is(f)
  <2>1. \A k \in 0..n : f[k] = IF k = 0 THEN 0 ELSE f[k - 1] + s[k]
    BY <1>1, <1>3, <1>4
  <2> QED
    BY <1>3, <2>1
<1>6. Is(sum)
  <2> HIDE DEF Is
  <2> QED
    BY <1>5
<1>7. Total(s) = sum[n]
  BY DEF Total, n
<1> HIDE DEF sum
<1>8. sum[0] = 0 /\ \A k \in 1..n : sum[k] = sum[k - 1] + s[k]
  <2>1. \A k \in 0..n : sum[k] = IF k = 0 THEN 0 ELSE sum[k - 1] + s[k]
    BY <1>6
  <2> QED
    BY <1>1, <2>1
<1>9. \A k \in 0..n : sum[k] \in Int
  <2> DEFINE A == {k \in 0..n : sum[k] \in Int}
  <2>1. 0 \in A
    BY <1>1, <1>8
  <2>2. ASSUME NEW k \in 0..n - 1, k \in A PROVE k + 1 \in A
    <3>1. k + 1 \in 1..n /\ k + 1 - 1 = k
      BY <1>1
    <3>2. sum[k + 1] = sum[k] + s[k + 1]
      BY <1>8, <3>1
    <3> QED
      BY <1>1, <2>2, <3>1, <3>2
  <2> HIDE DEF A
  <2>3. \A k \in 0..n : k \in A
    BY <1>1, <2>1, <2>2, UpTo
  <2> QED
    BY <2>3 DEF A
<1>10. sum \in [0..n -> Int]
  BY <1>6, <1>9
<1> QED
  BY <1>7, <1>8, <1>10 DEF Sums, n

\* A sum of naturals is a natural.
LEMMA TotalIsNat ==
    ASSUME NEW s \in Seq(Nat)
    PROVE  Total(s) \in Nat
<1> DEFINE n == Len(s)
<1>1. n \in Nat /\ \A k \in 1..n : s[k] \in Nat
  BY LenProperties, ElementOfSeq
<1>2. s \in Seq(Int)
  BY <1>1
<1>3. PICK sum : Sums(sum, s) /\ Total(s) = sum[n]
  BY <1>2, TotalIs
<1> DEFINE A == {k \in 0..n : sum[k] \in Nat}
<1> HIDE DEF n
<1>4. sum[0] = 0 /\ \A k \in 1..n : sum[k] = sum[k - 1] + s[k]
  BY <1>3 DEF Sums, n
<1>5. 0 \in A
  BY <1>1, <1>4
<1>6. ASSUME NEW k \in 0..n - 1, k \in A PROVE k + 1 \in A
  <2>1. k + 1 \in 1..n /\ k + 1 - 1 = k
    BY <1>1
  <2>2. sum[k + 1] = sum[k] + s[k + 1]
    BY <1>4, <2>1
  <2> QED
    BY <1>1, <1>6, <2>1, <2>2
<1>7. \A k \in 0..n : k \in A
  <2> HIDE DEF A
  <2> QED
    BY <1>1, <1>5, <1>6, UpTo
<1>8. n \in A
  BY <1>1, <1>7
<1> QED
  BY <1>3, <1>8

\* Of greater numbers the sum is no less.
LEMMA TotalGrows ==
    ASSUME NEW s \in Seq(Nat), NEW e \in Seq(Nat), Len(s) = Len(e),
           \A k \in 1..Len(s) : s[k] <= e[k]
    PROVE  Total(s) <= Total(e)
<1> DEFINE n == Len(s)
<1>1. n \in Nat /\ (\A k \in 1..n : s[k] \in Nat /\ e[k] \in Nat) /\ Len(e) = n
  BY LenProperties, ElementOfSeq
<1>2. s \in Seq(Int) /\ e \in Seq(Int)
  BY <1>1
<1>3. PICK f : Sums(f, s) /\ Total(s) = f[n]
  BY <1>2, TotalIs
<1>4. PICK g : Sums(g, e) /\ Total(e) = g[n]
  BY <1>1, <1>2, TotalIs
<1> DEFINE A == {k \in 0..n : f[k] <= g[k]}
<1>5. \A k \in 1..n : s[k] <= e[k]
  OBVIOUS
<1> HIDE DEF n
<1>6. /\ f[0] = 0 /\ \A k \in 1..n : f[k] = f[k - 1] + s[k]
      /\ g[0] = 0 /\ \A k \in 1..n : g[k] = g[k - 1] + e[k]
      /\ \A k \in 0..n : f[k] \in Int /\ g[k] \in Int
  BY <1>1, <1>3, <1>4 DEF Sums, n
<1>7. 0 \in A
  BY <1>1, <1>6
<1>8. ASSUME NEW k \in 0..n - 1, k \in A PROVE k + 1 \in A
  <2>1. k + 1 \in 1..n /\ k + 1 - 1 = k /\ k \in 0..n /\ k + 1 \in 0..n
    BY <1>1
  <2>2. f[k + 1] = f[k] + s[k + 1] /\ g[k + 1] = g[k] + e[k + 1]
    BY <1>6, <2>1
  <2>3. f[k] <= g[k] /\ s[k + 1] <= e[k + 1]
    BY <1>5, <1>8, <2>1
  <2>4. f[k] \in Int /\ g[k] \in Int /\ s[k + 1] \in Int /\ e[k + 1] \in Int
    BY <1>1, <1>6, <2>1
  <2> QED
    BY <2>1, <2>2, <2>3, <2>4
<1>9. \A k \in 0..n : k \in A
  <2> HIDE DEF A
  <2> QED
    BY <1>1, <1>7, <1>8, UpTo
<1>10. n \in A
  BY <1>1, <1>9
<1> QED
  BY <1>3, <1>4, <1>10

\* The order of the numbers does not matter, as far as it is turned round.
LEMMA TotalBackwards ==
    ASSUME NEW s \in Seq(Int), NEW e \in Seq(Int), Len(s) = Len(e),
           \A k \in 1..Len(s) : e[k] = s[Len(s) + 1 - k]
    PROVE  Total(s) = Total(e)
<1> DEFINE n == Len(s)
<1>1. n \in Nat /\ (\A k \in 1..n : s[k] \in Int /\ e[k] \in Int) /\ Len(e) = n
  BY LenProperties, ElementOfSeq
<1>3. PICK f : Sums(f, s) /\ Total(s) = f[n]
  BY TotalIs
<1>4. PICK g : Sums(g, e) /\ Total(e) = g[n]
  BY <1>1, TotalIs
<1> DEFINE A == {k \in 0..n : f[n - k] + g[k] = f[n]}
<1>5. \A k \in 1..n : e[k] = s[n + 1 - k]
  OBVIOUS
<1> HIDE DEF n
<1>6. /\ f[0] = 0 /\ \A k \in 1..n : f[k] = f[k - 1] + s[k]
      /\ g[0] = 0 /\ \A k \in 1..n : g[k] = g[k - 1] + e[k]
      /\ \A k \in 0..n : f[k] \in Int /\ g[k] \in Int
  BY <1>1, <1>3, <1>4 DEF Sums, n
<1>7. 0 \in A
  <2>1. n - 0 = n /\ n \in 0..n /\ 0 \in 0..n
    BY <1>1
  <2> QED
    BY <1>6, <2>1
<1>8. ASSUME NEW k \in 0..n - 1, k \in A PROVE k + 1 \in A
  <2>1. /\ k + 1 \in 1..n /\ k + 1 - 1 = k /\ k \in 0..n /\ k + 1 \in 0..n
        /\ n - k \in 1..n /\ n - k - 1 = n - (k + 1) /\ n + 1 - (k + 1) = n - k
        /\ n - (k + 1) \in 0..n /\ n - k \in 0..n
    BY <1>1
  <2>2. f[n - k] = f[n - (k + 1)] + s[n - k] /\ g[k + 1] = g[k] + s[n - k]
    <3>1. f[n - k] = f[n - k - 1] + s[n - k]
      BY <1>6, <2>1
    <3>2. g[k + 1] = g[k + 1 - 1] + e[k + 1] /\ e[k + 1] = s[n + 1 - (k + 1)]
      BY <1>5, <1>6, <2>1
    <3> QED
      BY <2>1, <3>1, <3>2
  <2>3. f[n - k] + g[k] = f[n]
    BY <1>8
  <2>4. f[n - k] \in Int /\ g[k] \in Int /\ s[n - k] \in Int /\ f[n - (k + 1)] \in Int
    BY <1>1, <1>6, <2>1
  <2>5. f[n - (k + 1)] + g[k + 1] = f[n]
    BY <2>2, <2>3, <2>4
  <2> QED
    BY <2>1, <2>5
<1>9. \A k \in 0..n : k \in A
  <2> HIDE DEF A
  <2> QED
    BY <1>1, <1>7, <1>8, UpTo
<1>10. f[n - n] + g[n] = f[n] /\ n - n = 0 /\ n \in 0..n
  <2>1. n \in A /\ n - n = 0 /\ n \in 0..n
    BY <1>1, <1>9
  <2> QED
    BY <2>1
<1>11. g[n] = f[n]
  <2>1. g[n] \in Int /\ f[n] \in Int /\ 0 + g[n] = f[n]
    BY <1>6, <1>10
  <2> QED
    BY <2>1
<1> QED
  BY <1>3, <1>4, <1>11

----------------------------------------------------------------------------
(* Powers.                                                                  *)

PacketSet ==
    [power : Nat, sensitivity : Int, start : Int, end : Int, complete : BOOLEAN]

\* A quotient by at least one's multiple.
LEMMA Quotients ==
    ASSUME NEW a \in Nat, NEW d \in Nat \ {0}, NEW c \in 0..d
    PROVE  (a * c) \div d \in 0..a
<1>1. \A x, y, z \in Nat : x <= y => z * x <= z * y
  OBVIOUS
<1>2. \A p, b \in Nat, x \in Nat \ {0} : p <= b * x => p \div x <= b
  OBVIOUS
<1>3. \A p \in Nat, x \in Nat \ {0} : p \div x \in Nat
  OBVIOUS
<1>4. a * c \in Nat /\ a * c <= a * d
  BY <1>1
<1>5. (a * c) \div d \in Nat /\ (a * c) \div d <= a
  BY <1>2, <1>3, <1>4
<1> QED
  BY <1>5

\* What is left of a power is a power.
LEMMA ResidualIs ==
    ASSUME NEW power \in Nat
    PROVE  Residual(power) \in Nat
<1>1. CancelDen \in Nat \ {0} /\ CancelNum \in 0..CancelDen
  BY ReceiverAssumption
<1>2. (power * CancelNum) \div CancelDen \in 0..power
  BY <1>1, Quotients
<1> QED
  BY <1>2 DEF Residual

\* A packet that stands out from an interference stands out from a lesser one.
LEMMA ThresholdIsMonotone ==
    ASSUME NEW power \in Nat, NEW x \in Nat, NEW y \in Nat, x <= y, MeetsThreshold(power, y)
    PROVE  MeetsThreshold(power, x)
<1>1. ThresholdNum \in Nat /\ ThresholdDen \in Nat /\ Noise \in Nat
  BY ReceiverAssumption
<1>2. ThresholdNum * (Noise + x) <= ThresholdNum * (Noise + y)
  <2>1. \A t, u, v \in Nat : u <= v => t * u <= t * v
    OBVIOUS
  <2>2. Noise + x \in Nat /\ Noise + y \in Nat /\ Noise + x <= Noise + y
    BY <1>1
  <2> QED
    BY <1>1, <2>1, <2>2
<1>3. /\ power * ThresholdDen \in Int /\ ThresholdNum * (Noise + x) \in Int
      /\ ThresholdNum * (Noise + y) \in Int
  BY <1>1
<1> QED
  BY <1>2, <1>3 DEF MeetsThreshold

----------------------------------------------------------------------------
(* Interference.                                                            *)

LEMMA PacketIs ==
    ASSUME NEW ps \in Seq(PacketSet), NEW i \in DOMAIN ps
    PROVE  /\ ps[i] \in PacketSet /\ ps[i].power \in Nat /\ ps[i].sensitivity \in Int
           /\ ps[i].start \in Int /\ ps[i].end \in Int /\ ps[i].complete \in BOOLEAN
<1>1. ps[i] \in PacketSet
  BY LenProperties, ElementOfSeq
<1> QED
  BY <1>1 DEF PacketSet

\* What is on the air at an instant, as a sequence of powers.
OnTop(ps, powers, i, t) ==
    [j \in DOMAIN ps |-> IF j # i /\ OnAir(ps[j], t) THEN powers[j] ELSE 0]

LEMMA AlongsideIs ==
    ASSUME NEW ps \in Seq(PacketSet), NEW powers \in [DOMAIN ps -> Nat], NEW i, NEW t
    PROVE  /\ OnTop(ps, powers, i, t) \in Seq(Nat) /\ Len(OnTop(ps, powers, i, t)) = Len(ps)
           /\ Alongside(ps, powers, i, t) = Total(OnTop(ps, powers, i, t))
           /\ Alongside(ps, powers, i, t) \in Nat
           /\ powers \in Seq(Nat) /\ Len(powers) = Len(ps)
           /\ Alongside(ps, powers, i, t) <= Total(powers)
<1> DEFINE top == OnTop(ps, powers, i, t)
<1>1. Len(ps) \in Nat /\ DOMAIN ps = 1..Len(ps)
  BY LenProperties
<1>2. \A j \in DOMAIN ps : powers[j] \in Nat /\ top[j] \in Nat /\ top[j] <= powers[j]
  BY DEF OnTop
<1>3. top \in [1..Len(ps) -> Nat] /\ powers \in [1..Len(ps) -> Nat]
  BY <1>1, <1>2 DEF OnTop
<1> HIDE DEF top
<1>4. top \in Seq(Nat) /\ powers \in Seq(Nat)
  BY <1>1, <1>3, IsASeq
<1>5. Len(top) = Len(ps) /\ Len(powers) = Len(ps)
  BY <1>1, <1>3, <1>4, LenProperties
<1>6. Total(top) \in Nat
  BY <1>4, TotalIsNat
<1>7. Total(top) <= Total(powers)
  BY <1>1, <1>2, <1>4, <1>5, TotalGrows
<1>8. Alongside(ps, powers, i, t) = Total(top)
  BY DEF Alongside, top, OnTop
<1> QED
  BY <1>4, <1>5, <1>6, <1>7, <1>8 DEF top

\* The instants at which interference is evaluated lie in the airtime; what is
\* on the air at any instant of it was on the air at the last of these.
LEMMA InstantsSuffice ==
    ASSUME NEW ps \in Seq(PacketSet), NEW powers \in [DOMAIN ps -> Nat], NEW i \in DOMAIN ps,
           ps[i].start < ps[i].end
    PROVE  /\ ps[i].start \in Instants(ps, i)
           /\ Instants(ps, i) \subseteq ps[i].start..ps[i].end - 1
           /\ \A t \in ps[i].start..ps[i].end - 1 : \E at \in Instants(ps, i) :
                 Alongside(ps, powers, i, t) <= Alongside(ps, powers, i, at)
<1> DEFINE from == ps[i].start
           to == ps[i].end
<1>1. from \in Int /\ to \in Int /\ from < to
  BY PacketIs
<1>2. \A j \in DOMAIN ps : ps[j].start \in Int /\ ps[j].end \in Int
  BY PacketIs
<1>3. \A j \in DOMAIN ps :
         /\ Max({from, ps[j].start}) = IF from >= ps[j].start THEN from ELSE ps[j].start
         /\ Min({to, ps[j].end}) = IF to <= ps[j].end THEN to ELSE ps[j].end
  BY <1>1, <1>2, LeastOfTwo, MostOfTwo
<1>4. \A j \in Rivals(ps, i) :
         j \in DOMAIN ps /\ j # i /\ Max({from, ps[j].start}) < Min({to, ps[j].end})
  BY DEF Rivals, Overlaps
<1>5. \A j \in DOMAIN ps \ {i} :
         Max({from, ps[j].start}) < Min({to, ps[j].end}) => j \in Rivals(ps, i)
  BY DEF Rivals, Overlaps
<1>6. from \in Instants(ps, i)
  BY <1>1 DEF Instants
<1>7. \A j \in Rivals(ps, i) : Max({from, ps[j].start}) # to =>
         Max({from, ps[j].start}) \in Instants(ps, i)
  BY DEF Instants
<1>8. ASSUME NEW at \in Instants(ps, i) PROVE at \in from..to - 1
  <2>1. /\ at # to
        /\ \/ at = from
           \/ \E j \in Rivals(ps, i) : at = Max({from, ps[j].start})
           \/ \E j \in Rivals(ps, i) : at = Min({to, ps[j].end})
    BY DEF Instants
  <2> HIDE DEF from, to
  <2>2. CASE at = from
    BY <1>1, <2>2
  <2>3. ASSUME NEW j \in Rivals(ps, i), at = Max({from, ps[j].start}) PROVE at \in from..to - 1
    <3>1. j \in DOMAIN ps /\ Max({from, ps[j].start}) < Min({to, ps[j].end})
      BY <1>4
    <3>2. ps[j].start \in Int /\ ps[j].end \in Int
      BY <1>2, <3>1
    <3>3. at = (IF from >= ps[j].start THEN from ELSE ps[j].start)
          /\ at < (IF to <= ps[j].end THEN to ELSE ps[j].end)
      BY <1>3, <2>3, <3>1
    <3> QED
      BY <1>1, <3>2, <3>3
  <2>4. ASSUME NEW j \in Rivals(ps, i), at = Min({to, ps[j].end}) PROVE at \in from..to - 1
    <3>1. j \in DOMAIN ps /\ Max({from, ps[j].start}) < Min({to, ps[j].end})
      BY <1>4
    <3>2. ps[j].start \in Int /\ ps[j].end \in Int
      BY <1>2, <3>1
    <3>3. at = (IF to <= ps[j].end THEN to ELSE ps[j].end)
          /\ (IF from >= ps[j].start THEN from ELSE ps[j].start) < at
      BY <1>3, <2>4, <3>1
    <3> QED
      BY <1>1, <2>1, <3>2, <3>3
  <2> QED
    BY <2>1, <2>2, <2>3, <2>4
<1>9. ASSUME NEW t \in from..to - 1
      PROVE  \E at \in Instants(ps, i) :
                Alongside(ps, powers, i, t) <= Alongside(ps, powers, i, at)
  <2> HIDE DEF from, to
  <2> DEFINE T == {x \in Instants(ps, i) : x <= t}
             at == Max(T)
  <2>1. t \in Int /\ from <= t /\ t < to
    BY <1>1
  <2>a. \A x \in Instants(ps, i) : x \in Int /\ x < to
    BY <1>1, <1>8
  <2>2. T \subseteq Int /\ from \in T /\ \A x \in T : x <= t
    <3> HIDE DEF Instants
    <3>1. T \subseteq Int
      BY <2>a
    <3>2. from \in T
      BY <1>6, <2>1
    <3> QED
      BY <3>1, <3>2
  <2>3. at \in T /\ \A x \in T : x <= at
    <3>1. T \subseteq Int /\ T # {} /\ t \in Int /\ \A x \in T : x <= t
      BY <2>1, <2>2
    <3> HIDE DEF T
    <3> QED
      BY <3>1, GreatestInt
  <2>4. at \in Instants(ps, i) /\ at \in Int /\ from <= at /\ at <= t
    BY <1>8, <2>2, <2>3
  <2> HIDE DEF at, T
  <2>5. ASSUME NEW j \in DOMAIN ps, j # i, OnAir(ps[j], t) PROVE OnAir(ps[j], at)
    <3>1. ps[j].start \in Int /\ ps[j].end \in Int /\ ps[j].start <= t /\ t < ps[j].end
      BY <1>2, <2>5 DEF OnAir
    <3>2. at < ps[j].end
      BY <2>1, <2>4, <3>1
    <3>3. CASE ps[j].start <= from
      BY <1>1, <2>4, <3>1, <3>2, <3>3 DEF OnAir
    <3>4. CASE ~(ps[j].start <= from)
      <4>1. ~(from >= ps[j].start)
        BY <1>1, <3>1, <3>4
      <4>2. Max({from, ps[j].start}) = ps[j].start
        BY <1>3, <4>1
      <4>3. Min({to, ps[j].end}) \in {to, ps[j].end}
        BY <1>3
      <4>4. ps[j].start < Min({to, ps[j].end}) /\ ps[j].start # to
        BY <1>1, <2>1, <3>1, <4>3
      <4>5. j \in Rivals(ps, i)
        BY <1>5, <2>5, <4>2, <4>4
      <4>6. ps[j].start \in T
        BY <1>7, <3>1, <4>2, <4>4, <4>5 DEF T
      <4> QED
        BY <2>3, <3>1, <3>2, <4>6 DEF OnAir
    <3> QED
      BY <3>3, <3>4
  <2>6. Total(OnTop(ps, powers, i, t)) <= Total(OnTop(ps, powers, i, at))
    <3>1. /\ OnTop(ps, powers, i, t) \in Seq(Nat) /\ Len(OnTop(ps, powers, i, t)) = Len(ps)
          /\ OnTop(ps, powers, i, at) \in Seq(Nat) /\ Len(OnTop(ps, powers, i, at)) = Len(ps)
      BY AlongsideIs
    <3>2. \A j \in DOMAIN ps : OnTop(ps, powers, i, t)[j] <= OnTop(ps, powers, i, at)[j]
      BY <2>5 DEF OnTop
    <3>3. DOMAIN ps = 1..Len(ps)
      BY LenProperties
    <3> QED
      BY <3>1, <3>2, <3>3, TotalGrows
  <2> QED
    BY <2>4, <2>6, AlongsideIs
<1> QED
  BY <1>6, <1>8, <1>9

\* A packet has the threshold against the most that interferes with it if and
\* only if it has it at every instant.
LEMMA InterferenceIs ==
    ASSUME NEW ps \in Seq(PacketSet), NEW powers \in [DOMAIN ps -> Nat], NEW i \in DOMAIN ps,
           ps[i].start < ps[i].end, NEW power \in Nat
    PROVE  /\ Interference(ps, powers, i) \in Nat
           /\ MeetsThreshold(power, Interference(ps, powers, i)) <=>
                \A t \in ps[i].start..ps[i].end - 1 :
                    MeetsThreshold(power, Alongside(ps, powers, i, t))
<1> DEFINE At(t) == Alongside(ps, powers, i, t)
           all == {0} \cup {At(t) : t \in Instants(ps, i)}
           worst == Interference(ps, powers, i)
<1>1. \A t : At(t) \in Nat /\ At(t) <= Total(powers)
  BY AlongsideIs
<1>2. Total(powers) \in Nat
  BY AlongsideIs, TotalIsNat
<1>3. /\ ps[i].start \in Instants(ps, i)
      /\ Instants(ps, i) \subseteq ps[i].start..ps[i].end - 1
      /\ \A t \in ps[i].start..ps[i].end - 1 : \E at \in Instants(ps, i) : At(t) <= At(at)
  BY InstantsSuffice
<1> HIDE DEF At
<1>4. all \subseteq Int /\ 0 \in all /\ \A x \in all : x \in Nat /\ x <= Total(powers)
  BY <1>1, <1>2
<1>5. worst = Max(all)
  BY DEF Interference, At
<1>6. \A t \in Instants(ps, i) : At(t) \in all
  OBVIOUS
<1>7. \A x \in all : x = 0 \/ \E t \in Instants(ps, i) : x = At(t)
  OBVIOUS
<1> HIDE DEF all, worst
<1>8. worst \in all /\ \A x \in all : x <= worst
  <2>1. all \subseteq Int /\ all # {} /\ Total(powers) \in Int /\ \A x \in all : x <= Total(powers)
    BY <1>2, <1>4
  <2>2. Max(all) \in all /\ \A x \in all : x <= Max(all)
    BY <2>1, GreatestInt
  <2> QED
    BY <1>5, <2>2
<1>9. worst \in Nat
  BY <1>4, <1>8
<1>10. ASSUME MeetsThreshold(power, worst), NEW t \in ps[i].start..ps[i].end - 1
       PROVE  MeetsThreshold(power, At(t))
  <2>1. PICK at \in Instants(ps, i) : At(t) <= At(at)
    BY <1>3
  <2>2. At(at) <= worst
    BY <1>6, <1>8
  <2>3. At(t) <= worst
    BY <1>1, <1>9, <2>1, <2>2
  <2> QED
    BY <1>1, <1>9, <1>10, <2>3, ThresholdIsMonotone
<1>11. ASSUME \A t \in ps[i].start..ps[i].end - 1 : MeetsThreshold(power, At(t))
       PROVE  MeetsThreshold(power, worst)
  <2>1. CASE worst = 0
    <3>1. MeetsThreshold(power, At(ps[i].start)) /\ At(ps[i].start) \in Nat
      BY <1>1, <1>3, <1>11
    <3> QED
      BY <2>1, <3>1, ThresholdIsMonotone
  <2>2. CASE \E t \in Instants(ps, i) : worst = At(t)
    BY <1>3, <1>11, <2>2
  <2> QED
    BY <1>7, <1>8, <2>1, <2>2
<1> QED
  BY <1>9, <1>10, <1>11 DEF worst, At

----------------------------------------------------------------------------
(* One packet is considered.                                                *)

Outcomes ==
    {"none", "energy_interrupted", "below_sensitivity", "collision", "below_sinr", "decoded",
     "sic_recovered", "capture"}

WorkSet(ps) ==
    [residual : [DOMAIN ps -> Nat], decoded : Seq(DOMAIN ps), outcome : [DOMAIN ps -> Outcomes]]

\* What is left of the powers once the packets of a set are cancelled.
LeftOf(ps, gone) ==
    [j \in DOMAIN ps |-> IF j \in gone THEN Residual(ps[j].power) ELSE ps[j].power]

\* The packet is audible, complete, and stands out.
Qualified(ps, powers, i) ==
    /\ ps[i].complete /\ ps[i].start < ps[i].end /\ ps[i].power >= ps[i].sensitivity
    /\ MeetsThreshold(ps[i].power, Interference(ps, powers, i))

Before(s, k) == {s[m] : m \in 1..k - 1}

\* What holds of the receiver's work between two packets.
WorkHolds(ps, w) ==
    /\ w \in WorkSet(ps)
    /\ Distinct(w.decoded)
    /\ \A i \in DOMAIN ps : Decodes(w.outcome[i]) <=> i \in ToSet(w.decoded)
    /\ w.residual = LeftOf(ps, ToSet(w.decoded))
    /\ \A k \in DOMAIN w.decoded : Qualified(ps, LeftOf(ps, Before(w.decoded, k)), w.decoded[k])

LEMMA LeftIs ==
    ASSUME NEW ps \in Seq(PacketSet), NEW gone
    PROVE  LeftOf(ps, gone) \in [DOMAIN ps -> Nat]
<1>1. \A j \in DOMAIN ps : ps[j].power \in Nat /\ Residual(ps[j].power) \in Nat
  BY PacketIs, ResidualIs
<1> QED
  BY <1>1 DEF LeftOf

LEMMA VerdictIs ==
    ASSUME NEW ps \in Seq(PacketSet), NEW residual, NEW decoded, NEW i \in DOMAIN ps
    PROVE  /\ Verdict(ps, residual, decoded, i) \in Outcomes
           /\ Decodes(Verdict(ps, residual, decoded, i)) <=> Qualified(ps, residual, i)
<1>1. ps[i].start \in Int /\ ps[i].end \in Int /\ ps[i].power \in Int /\ ps[i].sensitivity \in Int
  BY PacketIs
<1>2. (ps[i].end <= ps[i].start <=> ~(ps[i].start < ps[i].end))
      /\ (ps[i].power < ps[i].sensitivity <=> ~(ps[i].power >= ps[i].sensitivity))
  BY <1>1
<1>3. Verdict(ps, residual, decoded, i) \in Outcomes
  BY DEF Verdict, Outcomes
<1> DEFINE meets == MeetsThreshold(ps[i].power, Interference(ps, residual, i))
<1>4. Qualified(ps, residual, i) <=>
        /\ ps[i].complete /\ ps[i].start < ps[i].end /\ ps[i].power >= ps[i].sensitivity
        /\ meets
  BY DEF Qualified
<1>5. Verdict(ps, residual, decoded, i) =
        IF ps[i].end <= ps[i].start \/ ~ps[i].complete THEN "energy_interrupted"
        ELSE IF ps[i].power < ps[i].sensitivity THEN "below_sensitivity"
        ELSE IF ~meets
             THEN IF Rivals(ps, i) # {} THEN "collision" ELSE "below_sinr"
        ELSE IF Rivals(ps, i) = {} THEN "decoded"
        ELSE IF Sic /\ CancelNum > 0 /\ Rivals(ps, i) \cap ToSet(decoded) # {}
             THEN "sic_recovered" ELSE "capture"
  BY DEF Verdict
<1> HIDE DEF meets
<1> QED
  BY <1>2, <1>3, <1>4, <1>5 DEF Decodes

\* What a sequence has got when something is appended.
LEMMA Appended ==
    ASSUME NEW S, NEW s \in Seq(S), NEW x \in S
    PROVE  /\ Append(s, x) \in Seq(S) /\ DOMAIN Append(s, x) = 1..Len(s) + 1
           /\ Len(Append(s, x)) = Len(s) + 1 /\ Len(s) \in Nat /\ DOMAIN s = 1..Len(s)
           /\ \A k \in 1..Len(s) : Append(s, x)[k] = s[k]
           /\ Append(s, x)[Len(s) + 1] = x
           /\ ToSet(Append(s, x)) = ToSet(s) \cup {x}
           /\ \A k \in 1..Len(s) : Before(Append(s, x), k) = Before(s, k)
           /\ Before(Append(s, x), Len(s) + 1) = ToSet(s)
<1> DEFINE e == Append(s, x)
           n == Len(s)
<1>1. n \in Nat /\ DOMAIN s = 1..n
  BY LenProperties
<1>2. e \in Seq(S) /\ Len(e) = n + 1 /\ (\A k \in 1..n : e[k] = s[k]) /\ e[n + 1] = x
  BY AppendProperties
<1>3. DOMAIN e = 1..n + 1
  BY <1>2, LenProperties
<1> HIDE DEF e, n
<1>4. ToSet(e) = ToSet(s) \cup {x}
  <2>1. \A k \in 1..n : k \in 1..n + 1
    BY <1>1
  <2>2. n + 1 \in 1..n + 1 /\ \A k \in 1..n + 1 : k \in 1..n \/ k = n + 1
    BY <1>1
  <2> QED
    BY <1>1, <1>2, <1>3, <2>1, <2>2 DEF ToSet
<1>5. \A k \in 1..n : Before(e, k) = Before(s, k)
  <2> SUFFICES ASSUME NEW k \in 1..n PROVE Before(e, k) = Before(s, k)
    OBVIOUS
  <2>1. \A m \in 1..k - 1 : m \in 1..n
    BY <1>1
  <2> QED
    BY <1>2, <2>1 DEF Before
<1>6. Before(e, n + 1) = ToSet(s)
  <2>1. 1..(n + 1) - 1 = 1..n
    BY <1>1
  <2>2. Before(e, n + 1) = {e[m] : m \in 1..n}
    BY <2>1 DEF Before
  <2>3. {e[m] : m \in 1..n} = {s[m] : m \in 1..n}
    BY <1>2
  <2>4. ToSet(s) = {s[m] : m \in 1..n}
    BY <1>1 DEF ToSet
  <2> QED
    BY <2>2, <2>3, <2>4
<1> QED
  BY <1>1, <1>2, <1>3, <1>4, <1>5, <1>6 DEF e, n

\* After a packet is considered.
LEMMA ConsiderKeeps ==
    ASSUME NEW ps \in Seq(PacketSet), NEW w, WorkHolds(ps, w), NEW i \in DOMAIN ps,
           i \notin ToSet(w.decoded)
    PROVE  /\ WorkHolds(ps, Consider(ps, w, i))
           /\ Consider(ps, w, i).decoded =
                IF Qualified(ps, w.residual, i) THEN Append(w.decoded, i) ELSE w.decoded
           /\ Consider(ps, w, i).outcome[i] \in Outcomes
           /\ Consider(ps, w, i).outcome[i] # "none"
<1> DEFINE verdict == Verdict(ps, w.residual, w.decoded, i)
           u == Consider(ps, w, i)
           d == w.decoded
<1>1. verdict \in Outcomes /\ (Decodes(verdict) <=> Qualified(ps, w.residual, i))
  BY VerdictIs
<1>2. verdict # "none"
  BY DEF Verdict
<1>3. /\ w \in [residual : [DOMAIN ps -> Nat], decoded : Seq(DOMAIN ps), outcome : [DOMAIN ps -> Outcomes]]
      /\ Distinct(d)
      /\ \A j \in DOMAIN ps : Decodes(w.outcome[j]) <=> j \in ToSet(d)
      /\ w.residual = LeftOf(ps, ToSet(d))
      /\ \A k \in DOMAIN d : Qualified(ps, LeftOf(ps, Before(d, k)), d[k])
  BY DEF WorkHolds, WorkSet
<1>4. Residual(ps[i].power) \in Nat
  BY PacketIs, ResidualIs
<1>5. u = IF Decodes(verdict)
          THEN [residual |-> [w.residual EXCEPT ![i] = Residual(ps[i].power)],
                decoded |-> Append(d, i), outcome |-> [w.outcome EXCEPT ![i] = verdict]]
          ELSE [residual |-> w.residual, decoded |-> d,
                outcome |-> [w.outcome EXCEPT ![i] = verdict]]
  BY DEF Consider
<1> HIDE DEF verdict, u
<1>6. CASE Decodes(verdict)
  <2>1. /\ u.residual = [w.residual EXCEPT ![i] = Residual(ps[i].power)]
        /\ u.decoded = Append(d, i) /\ u.outcome = [w.outcome EXCEPT ![i] = verdict]
    BY <1>5, <1>6
  <2>2. /\ Append(d, i) \in Seq(DOMAIN ps) /\ DOMAIN Append(d, i) = 1..Len(d) + 1
        /\ Len(d) \in Nat /\ DOMAIN d = 1..Len(d)
        /\ \A k \in 1..Len(d) : Append(d, i)[k] = d[k]
        /\ Append(d, i)[Len(d) + 1] = i
        /\ ToSet(Append(d, i)) = ToSet(d) \cup {i}
        /\ \A k \in 1..Len(d) : Before(Append(d, i), k) = Before(d, k)
        /\ Before(Append(d, i), Len(d) + 1) = ToSet(d)
    BY <1>3, Appended
  <2>3. u \in WorkSet(ps)
    BY <1>1, <1>3, <1>4, <1>5, <1>6, <2>2 DEF WorkSet
  <2> DEFINE e == Append(d, i)
  <2> HIDE DEF e, d
  <2>4. \A k \in 1..Len(d) + 1 : k \in 1..Len(d) \/ k = Len(d) + 1
    BY <2>2
  <2>5. Distinct(e)
    <3>1. \A k \in 1..Len(d) : d[k] \in ToSet(d)
      BY <2>2 DEF ToSet
    <3>2. \A k \in 1..Len(d) : e[k] # i
      BY <2>2, <3>1 DEF e, d
    <3>3. ASSUME NEW k \in 1..Len(d) + 1, NEW m \in 1..Len(d) + 1, e[k] = e[m] PROVE k = m
      <4>1. CASE k \in 1..Len(d) /\ m \in 1..Len(d)
        BY <1>3, <2>2, <3>3, <4>1 DEF Distinct, e
      <4>2. CASE k = Len(d) + 1 \/ m = Len(d) + 1
        BY <2>2, <2>4, <3>2, <3>3, <4>2 DEF e
      <4> QED
        BY <2>4, <4>1, <4>2
    <3> QED
      BY <2>2, <3>3 DEF Distinct, e
  <2>6. \A j \in DOMAIN ps : Decodes(u.outcome[j]) <=> j \in ToSet(e)
    BY <1>3, <1>6, <2>1, <2>2 DEF e
  <2>7. u.residual = LeftOf(ps, ToSet(e))
    <3>1. \A j \in DOMAIN ps : u.residual[j] = LeftOf(ps, ToSet(e))[j]
      BY <1>3, <2>1, <2>2 DEF LeftOf, e
    <3> QED
      BY <1>3, <2>1, <3>1 DEF LeftOf
  <2>8. ASSUME NEW k \in 1..Len(d) + 1 PROVE Qualified(ps, LeftOf(ps, Before(e, k)), e[k])
    <3>1. CASE k \in 1..Len(d)
      BY <1>3, <2>2, <3>1 DEF e
    <3>2. CASE k = Len(d) + 1
      BY <1>1, <1>3, <1>6, <2>2, <3>2 DEF e
    <3> QED
      BY <2>4, <3>1, <3>2
  <2>9. WorkHolds(ps, u)
    BY <2>1, <2>2, <2>3, <2>5, <2>6, <2>7, <2>8 DEF WorkHolds, e
  <2>10. u.outcome[i] = verdict
    BY <1>3, <2>1
  <2> QED
    BY <1>1, <1>2, <1>6, <2>1, <2>9, <2>10 DEF u, d
<1>7. CASE ~Decodes(verdict)
  <2>1. u.residual = w.residual /\ u.decoded = d /\ u.outcome = [w.outcome EXCEPT ![i] = verdict]
    BY <1>5, <1>7
  <2>2. u \in WorkSet(ps)
    BY <1>1, <1>3, <1>5, <1>7 DEF WorkSet
  <2>3. \A j \in DOMAIN ps : Decodes(u.outcome[j]) <=> j \in ToSet(d)
    BY <1>3, <1>7, <2>1
  <2> HIDE DEF d
  <2>4. WorkHolds(ps, u)
    BY <1>3, <2>1, <2>2, <2>3 DEF WorkHolds
  <2>5. u.outcome[i] = verdict
    BY <1>3, <2>1
  <2> QED
    BY <1>1, <1>2, <1>7, <2>1, <2>4, <2>5 DEF u, d
<1> QED
  BY <1>6, <1>7

----------------------------------------------------------------------------
(* One pass.                                                                *)

\* Of candidates one is the foremost.
LEMMA ForemostIs ==
    ASSUME NEW ps \in Seq(PacketSet), NEW C, C \subseteq DOMAIN ps, C # {}
    PROVE  Foremost(ps, C) \in C /\ \A j \in C : Precedes(ps, Foremost(ps, C), j)
<1> DEFINE n == Len(ps)
           First(k, i) == i \in C /\ i <= k /\ \A j \in C : j <= k => Precedes(ps, i, j)
           A == {k \in 0..n : (\E i \in C : i <= k) => \E i \in C : First(k, i)}
<1>1. n \in Nat /\ DOMAIN ps = 1..n
  BY LenProperties
<1>2. \A j \in C : j \in 1..n /\ ps[j].power \in Nat
  BY <1>1, PacketIs
<1> HIDE DEF n
<1>3. 0 \in A
  <2>1. \A i \in C : ~(i <= 0)
    BY <1>1, <1>2
  <2> QED
    BY <1>1, <2>1
<1>4. ASSUME NEW k \in 0..n - 1, k \in A PROVE k + 1 \in A
  <2>1. k \in Nat /\ k + 1 \in 0..n
    BY <1>1
  <2>2. \A j \in C : j <= k + 1 => j <= k \/ j = k + 1
    BY <1>1, <1>2, <2>1
  <2>3. \A j \in C : j <= k => j <= k + 1
    BY <1>1, <1>2, <2>1
  <2> SUFFICES ASSUME \E i \in C : i <= k + 1 PROVE \E i \in C : First(k + 1, i)
    BY <2>1
  <2>4. CASE k + 1 \notin C
    <3>1. \E i \in C : i <= k
      BY <2>2, <2>4
    <3>2. PICK i \in C : First(k, i)
      BY <1>4, <3>1
    <3>3. First(k + 1, i)
      BY <2>2, <2>3, <2>4, <3>2
    <3> QED
      BY <3>3
  <2>5. CASE k + 1 \in C /\ ~\E i \in C : i <= k
    <3>1. Precedes(ps, k + 1, k + 1)
      BY <2>1 DEF Precedes
    <3>2. \A j \in C : j <= k + 1 => j = k + 1
      BY <2>2, <2>5
    <3>3. First(k + 1, k + 1)
      BY <2>1, <2>5, <3>1, <3>2
    <3> QED
      BY <2>5, <3>3
  <2>6. CASE k + 1 \in C /\ \E i \in C : i <= k
    <3>1. PICK i \in C : First(k, i)
      BY <1>4, <2>6
    <3>2. ps[i].power \in Nat /\ ps[k + 1].power \in Nat /\ i \in Nat /\ i <= k
      BY <1>1, <1>2, <2>6, <3>1
    <3>3. CASE Precedes(ps, i, k + 1)
      <4>1. First(k + 1, i)
        BY <2>2, <2>3, <3>1, <3>3
      <4> QED
        BY <4>1
    <3>4. CASE ~Precedes(ps, i, k + 1)
      <4>1. ps[i].power < ps[k + 1].power
        BY <2>1, <3>2, <3>4 DEF Precedes
      <4>2. ASSUME NEW j \in C, j <= k PROVE Precedes(ps, k + 1, j)
        <5>1. Precedes(ps, i, j) /\ ps[j].power \in Nat
          BY <1>2, <3>1, <4>2
        <5>2. ps[i].power >= ps[j].power
          BY <3>2, <5>1 DEF Precedes
        <5>3. ps[k + 1].power > ps[j].power
          BY <3>2, <4>1, <5>1, <5>2
        <5> QED
          BY <5>3 DEF Precedes
      <4>3. Precedes(ps, k + 1, k + 1)
        BY <2>1 DEF Precedes
      <4>4. First(k + 1, k + 1)
        BY <2>1, <2>2, <2>6, <4>2, <4>3
      <4> QED
        BY <2>6, <4>4
    <3> QED
      BY <3>3, <3>4
  <2> QED
    BY <2>4, <2>5, <2>6
<1>5. n \in A
  <2> HIDE DEF A
  <2>1. \A k \in 0..n : k \in A
    BY <1>1, <1>3, <1>4, UpTo
  <2> QED
    BY <1>1, <2>1
<1>6. \A j \in C : j <= n
  BY <1>1, <1>2
<1>7. \E i \in C : \A j \in C : Precedes(ps, i, j)
  BY <1>5, <1>6
<1> QED
  BY <1>7 DEF Foremost

\* What is left to consider.
Remaining(ps, w) == DOMAIN ps \ ToSet(w.decoded)

\* Where a pass is; one step of it.
PassHolds(ps) ==
    {x \in [work : WorkSet(ps), left : SUBSET DOMAIN ps] :
        WorkHolds(ps, x.work) /\ x.left \cap ToSet(x.work.decoded) = {}}

PassStep(ps, x) ==
    LET i == Foremost(ps, x.left)
    IN  [work |-> Consider(ps, x.work, i), left |-> x.left \ {i}]

LEMMA PassStepHolds ==
    ASSUME NEW ps \in Seq(PacketSet), NEW x \in PassHolds(ps), x.left # {}
    PROVE  /\ PassStep(ps, x) \in PassHolds(ps)
           /\ \E i \in x.left :
                /\ i = Foremost(ps, x.left)
                /\ PassStep(ps, x).left = x.left \ {i}
                /\ PassStep(ps, x).work = Consider(ps, x.work, i)
                /\ PassStep(ps, x).work.decoded =
                     IF Qualified(ps, x.work.residual, i)
                     THEN Append(x.work.decoded, i) ELSE x.work.decoded
<1> DEFINE i == Foremost(ps, x.left)
           u == Consider(ps, x.work, i)
<1>1. /\ x.work \in WorkSet(ps) /\ x.left \subseteq DOMAIN ps /\ WorkHolds(ps, x.work)
      /\ x.left \cap ToSet(x.work.decoded) = {}
  BY DEF PassHolds
<1>2. i \in x.left
  BY <1>1, ForemostIs
<1>3. i \in DOMAIN ps /\ i \notin ToSet(x.work.decoded)
  BY <1>1, <1>2
<1> HIDE DEF i
<1>4. /\ WorkHolds(ps, u)
      /\ u.decoded = IF Qualified(ps, x.work.residual, i) THEN Append(x.work.decoded, i)
                     ELSE x.work.decoded
  BY <1>1, <1>3, ConsiderKeeps
<1>5. x.work.decoded \in Seq(DOMAIN ps)
  BY <1>1 DEF WorkSet
<1>6. ToSet(Append(x.work.decoded, i)) = ToSet(x.work.decoded) \cup {i}
  BY <1>3, <1>5, Appended
<1>7. PassStep(ps, x) = [work |-> u, left |-> x.left \ {i}]
  BY DEF PassStep, i
<1> HIDE DEF u
<1>8. u \in WorkSet(ps)
  BY <1>4 DEF WorkHolds
<1>9. (x.left \ {i}) \cap ToSet(u.decoded) = {}
  <2>1. ToSet(u.decoded) \subseteq ToSet(x.work.decoded) \cup {i}
    BY <1>4, <1>6
  <2> QED
    BY <1>1, <2>1
<1>10. PassStep(ps, x) \in PassHolds(ps)
  BY <1>1, <1>4, <1>7, <1>8, <1>9 DEF PassHolds
<1> QED
  BY <1>2, <1>4, <1>7, <1>10 DEF u, i

\* The steps of a pass.
Passes(ps, w, f) ==
    /\ f[0] = [work |-> w, left |-> Remaining(ps, w)]
    /\ \A k \in 1..Cardinality(Remaining(ps, w)) : f[k] = PassStep(ps, f[k - 1])
    /\ \A k \in 0..Cardinality(Remaining(ps, w)) :
          /\ f[k] \in PassHolds(ps)
          /\ IsFiniteSet(f[k].left)
          /\ Cardinality(f[k].left) = Cardinality(Remaining(ps, w)) - k

LEMMA RemainingAre ==
    ASSUME NEW ps \in Seq(PacketSet), NEW w
    PROVE  /\ Remaining(ps, w) \subseteq DOMAIN ps
           /\ IsFiniteSet(Remaining(ps, w)) /\ Cardinality(Remaining(ps, w)) \in Nat
<1>1. DOMAIN ps = 1..Len(ps) /\ Len(ps) \in Nat
  BY LenProperties
<1>2. IsFiniteSet(1..Len(ps))
  BY <1>1, FS_Interval
<1>3. Remaining(ps, w) \subseteq DOMAIN ps
  BY DEF Remaining
<1>4. IsFiniteSet(Remaining(ps, w))
  BY <1>1, <1>2, <1>3, FS_Subset
<1> QED
  BY <1>3, <1>4, FS_CardinalityType

LEMMA PassIs ==
    ASSUME NEW ps \in Seq(PacketSet), NEW w, WorkHolds(ps, w)
    PROVE  \E f : /\ Passes(ps, w, f)
                  /\ Pass(ps, w) = f[Cardinality(Remaining(ps, w))].work
<1> DEFINE C == Remaining(ps, w)
           c == Cardinality(C)
           V == PassHolds(ps)
           base == [work |-> w, left |-> C]
           move == [x \in V |-> IF x.left = {} THEN x ELSE PassStep(ps, x)]
           step == [k \in 1..c |-> move]
           Is(f) == f = [k \in 0..c |-> IF k = 0 THEN base ELSE PassStep(ps, f[k - 1])]
           pass == CHOOSE f : Is(f)
<1>1. C \subseteq DOMAIN ps /\ IsFiniteSet(C) /\ c \in Nat
  BY RemainingAre
<1>2. base \in V
  <2>1. w \in WorkSet(ps)
    BY DEF WorkHolds
  <2>2. C \cap ToSet(w.decoded) = {}
    BY DEF Remaining
  <2> HIDE DEF C
  <2> QED
    BY <1>1, <2>1, <2>2 DEF PassHolds
<1>3. \A x \in V : x.left # {} => PassStep(ps, x) \in V
  BY PassStepHolds
<1>4. move \in [V -> V]
  <2>1. \A x \in V : (IF x.left = {} THEN x ELSE PassStep(ps, x)) \in V
    BY <1>3
  <2> HIDE DEF V
  <2> QED
    BY <2>1
<1> DEFINE n == c
<1>a. n \in Nat /\ n = c
  BY <1>1
<1> HIDE DEF n
<1>5. PICK f : GoesBy(f, n, V, base, [k \in 1..n |-> move])
  <2>1. [k \in 1..n |-> move] \in [1..n -> [V -> V]]
    BY <1>4
  <2> HIDE DEF V, base, move
  <2> QED
    BY <1>a, <1>2, <2>1, StepByStep
<1>6. /\ f \in [0..n -> V] /\ f[0] = base
      /\ \A k \in 1..n : f[k] = IF f[k - 1].left = {} THEN f[k - 1] ELSE PassStep(ps, f[k - 1])
  <2>1. f \in [0..n -> V] /\ f[0] = base /\ \A k \in 1..n : f[k] = [m \in 1..n |-> move][k][f[k - 1]]
    BY <1>5 DEF GoesBy
  <2>2. \A k \in 1..n : k - 1 \in 0..n
    BY <1>a
  <2>3. \A k \in 1..n : f[k] = move[f[k - 1]] /\ f[k - 1] \in V
    <3> HIDE DEF V, base, move
    <3> QED
      BY <2>1, <2>2
  <2> HIDE DEF V, base
  <2> QED
    BY <2>1, <2>3
<1> DEFINE Sound(g, k) == /\ g[k] \in V /\ IsFiniteSet(g[k].left)
                          /\ Cardinality(g[k].left) = c - k
<1>7. \A g, k : k \in 0..c - 1 /\ Sound(g, k) => g[k].left # {}
  <2> SUFFICES ASSUME NEW g, NEW k \in 0..c - 1, Sound(g, k) PROVE g[k].left # {}
    OBVIOUS
  <2>1. Cardinality(g[k].left) # 0
    BY <1>1
  <2> QED
    BY <2>1, FS_EmptySet
<1>8. \A g, k : k \in 0..c - 1 /\ Sound(g, k) /\ g[k + 1] = PassStep(ps, g[k]) => Sound(g, k + 1)
  <2> SUFFICES ASSUME NEW g, NEW k \in 0..c - 1, Sound(g, k), g[k + 1] = PassStep(ps, g[k])
               PROVE  Sound(g, k + 1)
    OBVIOUS
  <2> DEFINE x == g[k]
  <2>1. x \in PassHolds(ps) /\ x.left # {}
    BY <1>7
  <2> HIDE DEF x
  <2>2. /\ PassStep(ps, x) \in PassHolds(ps)
        /\ \E i \in x.left : PassStep(ps, x).left = x.left \ {i}
    BY <2>1, PassStepHolds
  <2>3. PICK i \in x.left : PassStep(ps, x).left = x.left \ {i}
    BY <2>2
  <2>4. IsFiniteSet(x.left) /\ Cardinality(x.left) = c - k
    BY DEF x
  <2>5. IsFiniteSet(x.left \ {i}) /\ Cardinality(x.left \ {i}) = Cardinality(x.left) - 1
    BY <2>4, FS_RemoveElement
  <2>6. c - k - 1 = c - (k + 1)
    BY <1>1
  <2> QED
    BY <2>2, <2>3, <2>4, <2>5, <2>6 DEF x
<1>9. IsFiniteSet(base.left) /\ Cardinality(base.left) = c - 0
  BY <1>1
<1>10. \A g : /\ g[0] = base
              /\ \A k \in 1..c : Sound(g, k - 1) => g[k] = PassStep(ps, g[k - 1])
              => \A k \in 0..c : Sound(g, k)
  <2> SUFFICES ASSUME NEW g, g[0] = base,
                      \A k \in 1..c : Sound(g, k - 1) => g[k] = PassStep(ps, g[k - 1])
               PROVE  \A k \in 0..c : Sound(g, k)
    OBVIOUS
  <2> DEFINE A == {k \in 0..c : Sound(g, k)}
  <2>1. 0 \in A
    <3>1. Sound(g, 0)
      BY <1>2, <1>9
    <3> HIDE DEF Sound
    <3> QED
      BY <1>1, <3>1
  <2>2. ASSUME NEW k \in 0..c - 1, k \in A PROVE k + 1 \in A
    <3> HIDE DEF Sound
    <3>1. k + 1 \in 1..c /\ k + 1 - 1 = k /\ k + 1 \in 0..c
      BY <1>1
    <3>2. g[k + 1] = PassStep(ps, g[k])
      BY <2>2, <3>1
    <3>3. Sound(g, k + 1)
      BY <1>8, <2>2, <3>2
    <3> QED
      BY <3>1, <3>3
  <2> HIDE DEF A
  <2>3. \A k \in 0..c : k \in A
    BY <1>1, <2>1, <2>2, UpTo
  <2> QED
    BY <2>3 DEF A
<1> HIDE DEF Sound
<1>11. Is(f)
  <2>1. \A k \in 1..c : Sound(f, k - 1) => f[k] = PassStep(ps, f[k - 1])
    <3> SUFFICES ASSUME NEW k \in 1..c, Sound(f, k - 1) PROVE f[k] = PassStep(ps, f[k - 1])
      OBVIOUS
    <3>1. k - 1 \in 0..c - 1
      BY <1>1
    <3>2. f[k - 1].left # {}
      BY <1>7, <3>1
    <3> QED
      BY <1>a, <1>6, <3>2
  <2>2. \A k \in 0..c : Sound(f, k)
    BY <1>6, <1>10, <2>1
  <2>3. \A k \in 1..c : f[k] = PassStep(ps, f[k - 1])
    <3>1. \A k \in 1..c : k - 1 \in 0..c
      BY <1>1
    <3> QED
      BY <2>1, <2>2, <3>1
  <2>4. \A k \in 0..c : f[k] = IF k = 0 THEN base ELSE PassStep(ps, f[k - 1])
    BY <1>1, <1>6, <2>3
  <2> HIDE DEF base
  <2> QED
    BY <1>a, <1>6, <2>4
<1>12. Is(pass)
  <2> HIDE DEF Is
  <2> QED
    BY <1>11
<1>13. Pass(ps, w) = pass[c].work
  BY DEF Pass, PassStep, Remaining
<1> HIDE DEF pass
<1>14. pass[0] = base /\ \A k \in 1..c : pass[k] = PassStep(ps, pass[k - 1])
  <2>1. \A k \in 0..c : pass[k] = IF k = 0 THEN base ELSE PassStep(ps, pass[k - 1])
    BY <1>12
  <2> QED
    BY <1>1, <2>1
<1>15. \A k \in 0..c : Sound(pass, k)
  BY <1>10, <1>14
<1> QED
  BY <1>13, <1>14, <1>15 DEF Passes, Sound

\* No packet that is left stands out.
Quiet(ps, w) == \A i \in Remaining(ps, w) : ~Qualified(ps, w.residual, i)

\* A pass keeps what holds; it decodes something, or nothing is left to decode.
LEMMA PassKeeps ==
    ASSUME NEW ps \in Seq(PacketSet), NEW w, WorkHolds(ps, w)
    PROVE  /\ WorkHolds(ps, Pass(ps, w))
           /\ \/ Len(Pass(ps, w).decoded) > Len(w.decoded) /\ ~Quiet(ps, w)
              \/ Pass(ps, w).decoded = w.decoded /\ Quiet(ps, Pass(ps, w))
<1> DEFINE C == Remaining(ps, w)
           c == Cardinality(C)
<1>1. C \subseteq DOMAIN ps /\ IsFiniteSet(C) /\ c \in Nat
  BY RemainingAre
<1>2. PICK f : Passes(ps, w, f) /\ Pass(ps, w) = f[c].work
  BY PassIs
<1>3. /\ f[0] = [work |-> w, left |-> C]
      /\ \A k \in 1..c : f[k] = PassStep(ps, f[k - 1])
      /\ \A k \in 0..c : /\ f[k] \in PassHolds(ps) /\ IsFiniteSet(f[k].left)
                         /\ Cardinality(f[k].left) = c - k
  BY <1>2 DEF Passes
<1>4. \A k \in 0..c : WorkHolds(ps, f[k].work) /\ f[k].work.decoded \in Seq(DOMAIN ps)
  BY <1>3 DEF PassHolds, WorkSet
<1> DEFINE Grew(k) == Len(f[k].work.decoded) > Len(w.decoded) /\ ~Quiet(ps, w)
           Same(k) == /\ f[k].work.decoded = w.decoded
                      /\ \A i \in C \ f[k].left : ~Qualified(ps, w.residual, i)
           A == {k \in 0..c : f[k].left \subseteq C /\ (Grew(k) \/ Same(k))}
<1> HIDE DEF C, c
<1>5. 0 \in A
  <2>1. f[0].left = C /\ f[0].work = w /\ 0 \in 0..c
    BY <1>1, <1>3
  <2>2. Same(0)
    BY <2>1
  <2> HIDE DEF Same, Grew
  <2> QED
    BY <2>1, <2>2
<1>6. ASSUME NEW k \in 0..c - 1, k \in A PROVE k + 1 \in A
  <2> DEFINE x == f[k]
             y == f[k + 1]
  <2>1. k \in 0..c /\ k + 1 \in 0..c /\ k + 1 \in 1..c /\ k + 1 - 1 = k
    BY <1>1
  <2>2. x \in PassHolds(ps) /\ y = PassStep(ps, x)
    BY <1>3, <2>1
  <2>3. x.left # {}
    <3>1. Cardinality(x.left) = c - k /\ IsFiniteSet(x.left)
      BY <1>3, <2>1
    <3>2. Cardinality(x.left) # 0
      BY <1>1, <3>1
    <3> QED
      BY <3>1, <3>2, FS_EmptySet
  <2>4. PICK i \in x.left :
            /\ y.left = x.left \ {i}
            /\ y.work.decoded = IF Qualified(ps, x.work.residual, i)
                                THEN Append(x.work.decoded, i) ELSE x.work.decoded
    BY <2>2, <2>3, PassStepHolds
  <2>5. x.work.decoded \in Seq(DOMAIN ps) /\ WorkHolds(ps, x.work)
    BY <1>4, <2>1
  <2>6. i \in C /\ x.left \subseteq C /\ y.left \subseteq C /\ i \in DOMAIN ps
    BY <1>1, <1>6, <2>4
  <2>7. /\ Len(Append(x.work.decoded, i)) = Len(x.work.decoded) + 1
        /\ Len(x.work.decoded) \in Nat
    BY <2>5, <2>6, Appended
  <2>8. WorkHolds(ps, w)
    OBVIOUS
  <2>9. Len(w.decoded) \in Nat
    BY <2>8, LenProperties DEF WorkHolds, WorkSet
  <2>10. CASE Grew(k)
    <3>1. Len(x.work.decoded) > Len(w.decoded) /\ ~Quiet(ps, w)
      BY <2>10
    <3>2. Len(y.work.decoded) \in {Len(x.work.decoded), Len(x.work.decoded) + 1}
      BY <2>4, <2>7
    <3>3. Grew(k + 1)
      <4> HIDE DEF Quiet
      <4>1. Len(y.work.decoded) > Len(w.decoded)
        <5>1. \A p, q, r \in Nat : p > r /\ q \in {p, p + 1} => q > r
          OBVIOUS
        <5>2. Len(y.work.decoded) \in Nat
          BY <2>7, <3>2
        <5> HIDE DEF x, y
        <5> QED
          BY <2>7, <2>9, <3>1, <3>2, <5>1, <5>2
      <4> QED
        BY <3>1, <4>1
    <3> QED
      BY <2>1, <2>6, <3>3
  <2>11. CASE Same(k)
    <3>1. x.work.decoded = w.decoded
      BY <2>11
    <3>2. x.work.residual = w.residual
      BY <2>5, <2>8, <3>1 DEF WorkHolds
    <3>3. CASE Qualified(ps, w.residual, i)
      <4>1. ~Quiet(ps, w)
        BY <2>6, <3>3 DEF Quiet, C
      <4>2. Len(y.work.decoded) = Len(w.decoded) + 1
        BY <2>4, <2>7, <3>1, <3>2, <3>3
      <4>3. Grew(k + 1)
        BY <2>9, <4>1, <4>2
      <4> QED
        BY <2>1, <2>6, <4>3
    <3>4. CASE ~Qualified(ps, w.residual, i)
      <4>1. y.work.decoded = w.decoded
        BY <2>4, <3>1, <3>2, <3>4
      <4>2. \A j \in C \ y.left : ~Qualified(ps, w.residual, j)
        BY <2>4, <2>11, <3>4
      <4>3. Same(k + 1)
        BY <4>1, <4>2
      <4> QED
        BY <2>1, <2>6, <4>3
    <3> QED
      BY <3>3, <3>4
  <2> QED
    BY <1>6, <2>10, <2>11
<1>7. c \in A
  <2> HIDE DEF A
  <2>1. \A k \in 0..c : k \in A
    BY <1>1, <1>5, <1>6, UpTo
  <2> QED
    BY <1>1, <2>1
<1>8. Pass(ps, w) = f[c].work
  BY <1>2 DEF c, C
<1>9. WorkHolds(ps, Pass(ps, w))
  BY <1>1, <1>4, <1>8
<1>10. f[c].left = {}
  <2>1. c \in 0..c
    BY <1>1
  <2>2. Cardinality(f[c].left) = c - c /\ IsFiniteSet(f[c].left)
    BY <1>3, <2>1
  <2>3. Cardinality(f[c].left) = 0
    BY <1>1, <2>2
  <2> QED
    BY <2>2, <2>3, FS_EmptySet
<1>11. CASE Same(c)
  <2>1. Pass(ps, w).decoded = w.decoded
    BY <1>8, <1>11
  <2>2. Pass(ps, w).residual = w.residual
    BY <1>9, <2>1 DEF WorkHolds
  <2>3. Remaining(ps, Pass(ps, w)) = C
    BY <2>1 DEF Remaining, C
  <2>4. Quiet(ps, Pass(ps, w))
    BY <1>10, <1>11, <2>2, <2>3 DEF Quiet
  <2> QED
    BY <1>9, <2>1, <2>4
<1>12. CASE Grew(c)
  <2> HIDE DEF Quiet
  <2> QED
    BY <1>8, <1>9, <1>12
<1> QED
  BY <1>7, <1>11, <1>12

\* A sequence of different numbers up to n is no longer than n.
LEMMA DistinctIsShort ==
    ASSUME NEW n \in Nat, NEW s \in Seq(1..n), Distinct(s)
    PROVE  Len(s) <= n
<1>1. Len(s) \in Nat /\ DOMAIN s = 1..Len(s) /\ s \in [1..Len(s) -> 1..n]
  BY LenProperties
<1>2. /\ IsFiniteSet(1..n) /\ Cardinality(1..n) = n
      /\ IsFiniteSet(1..Len(s)) /\ Cardinality(1..Len(s)) = Len(s)
  <2>1. \A m \in Nat : IsFiniteSet(1..m) /\ Cardinality(1..m) = IF 1 > m THEN 0 ELSE m - 1 + 1
    BY FS_Interval
  <2>2. \A m \in Nat : (IF 1 > m THEN 0 ELSE m - 1 + 1) = m
    OBVIOUS
  <2> QED
    BY <1>1, <2>1, <2>2
<1>3. ~(\E x, y \in 1..Len(s) : x # y /\ s[x] = s[y])
  BY <1>1 DEF Distinct
<1>4. ~(Cardinality(1..n) < Cardinality(1..Len(s)))
  BY <1>1, <1>2, <1>3, FS_PigeonHole
<1> QED
  BY <1>1, <1>2, <1>4

Start(ps) ==
    [residual |-> [i \in DOMAIN ps |-> ps[i].power],
     decoded  |-> <<>>,
     outcome  |-> [i \in DOMAIN ps |-> "none"]]

LEMMA StartHolds ==
    ASSUME NEW ps \in Seq(PacketSet)
    PROVE  WorkHolds(ps, Start(ps))
<1> DEFINE w == Start(ps)
<1>1. /\ w.residual = [i \in DOMAIN ps |-> ps[i].power] /\ w.decoded = <<>>
      /\ w.outcome = [i \in DOMAIN ps |-> "none"]
  BY DEF Start
<1>2. \A i \in DOMAIN ps : ps[i].power \in Nat
  BY PacketIs
<1>3. w \in WorkSet(ps)
  BY <1>2 DEF WorkSet, Start, Outcomes
<1>4. DOMAIN w.decoded = {}
  BY <1>1
<1> HIDE DEF w
<1>5. ToSet(w.decoded) = {}
  BY <1>4 DEF ToSet
<1>6. \A i \in DOMAIN ps : ~Decodes(w.outcome[i])
  BY <1>1 DEF Decodes
<1>7. w.residual = LeftOf(ps, {})
  BY <1>1 DEF LeftOf
<1> QED
  BY <1>3, <1>4, <1>5, <1>6, <1>7 DEF WorkHolds, Distinct, w

\* The passes.
AfterPasses(ps, f) ==
    /\ f[0] = Start(ps)
    /\ \A k \in 1..Len(ps) + 1 : f[k] = Pass(ps, f[k - 1])
    /\ \A k \in 0..Len(ps) + 1 : WorkHolds(ps, f[k])
    /\ DecodeReceptions(ps) = f[Len(ps) + 1]

LEMMA ReceptionsAre ==
    ASSUME NEW ps \in Seq(PacketSet)
    PROVE  \E f : AfterPasses(ps, f)
<1> DEFINE n == Len(ps) + 1
           V == {w \in WorkSet(ps) : WorkHolds(ps, w)}
           base == Start(ps)
           move == [w \in V |-> Pass(ps, w)]
           Is(f) == f = [k \in 0..n |-> IF k = 0 THEN base ELSE Pass(ps, f[k - 1])]
           after == CHOOSE f : Is(f)
<1>1. n \in Nat
  BY LenProperties
<1>2. \A w : WorkHolds(ps, w) => w \in V
  BY DEF WorkHolds
<1>3. base \in V
  BY <1>2, StartHolds
<1>4. move \in [V -> V]
  <2>1. \A w \in V : Pass(ps, w) \in V
    BY <1>2, PassKeeps
  <2> HIDE DEF V
  <2> QED
    BY <2>1
<1>5. DecodeReceptions(ps) = after[n]
  BY DEF DecodeReceptions, Start
<1> HIDE DEF n
<1>6. PICK f : GoesBy(f, n, V, base, [k \in 1..n |-> move])
  <2>1. [k \in 1..n |-> move] \in [1..n -> [V -> V]]
    BY <1>4
  <2> HIDE DEF V, base, move
  <2> QED
    BY <1>1, <1>3, <2>1, StepByStep
<1>7. f \in [0..n -> V] /\ f[0] = base /\ \A k \in 1..n : f[k] = Pass(ps, f[k - 1])
  <2>1. f \in [0..n -> V] /\ f[0] = base /\ \A k \in 1..n : f[k] = [m \in 1..n |-> move][k][f[k - 1]]
    BY <1>6 DEF GoesBy
  <2>2. \A k \in 1..n : k - 1 \in 0..n
    BY <1>1
  <2>3. \A k \in 1..n : f[k] = move[f[k - 1]] /\ f[k - 1] \in V
    <3> HIDE DEF V, base, move
    <3> QED
      BY <2>1, <2>2
  <2> HIDE DEF V, base
  <2> QED
    BY <2>1, <2>3
<1>8. Is(f)
  <2>1. \A k \in 0..n : f[k] = IF k = 0 THEN base ELSE Pass(ps, f[k - 1])
    BY <1>1, <1>7
  <2> HIDE DEF base
  <2> QED
    BY <1>7, <2>1
<1>9. Is(after)
  <2> HIDE DEF Is
  <2> QED
    BY <1>8
<1> HIDE DEF after
<1>10. after[0] = base /\ \A k \in 1..n : after[k] = Pass(ps, after[k - 1])
  <2>1. \A k \in 0..n : after[k] = IF k = 0 THEN base ELSE Pass(ps, after[k - 1])
    BY <1>9
  <2> QED
    BY <1>1, <2>1
<1>11. \A k \in 0..n : WorkHolds(ps, after[k])
  <2> DEFINE A == {k \in 0..n : WorkHolds(ps, after[k])}
  <2>1. 0 \in A
    BY <1>1, <1>10, StartHolds
  <2>2. ASSUME NEW k \in 0..n - 1, k \in A PROVE k + 1 \in A
    <3>1. k + 1 \in 1..n /\ k + 1 - 1 = k /\ k + 1 \in 0..n
      BY <1>1
    <3>2. after[k + 1] = Pass(ps, after[k])
      BY <1>10, <3>1
    <3> QED
      BY <2>2, <3>1, <3>2, PassKeeps
  <2> HIDE DEF A
  <2>3. \A k \in 0..n : k \in A
    BY <1>1, <2>1, <2>2, UpTo
  <2> QED
    BY <2>3 DEF A
<1> QED
  BY <1>5, <1>10, <1>11 DEF AfterPasses, n

\* In the end nothing that is left stands out.
LEMMA ReceptionsEndQuiet ==
    ASSUME NEW ps \in Seq(PacketSet)
    PROVE  WorkHolds(ps, DecodeReceptions(ps)) /\ Quiet(ps, DecodeReceptions(ps))
<1> DEFINE n == Len(ps)
           m == n + 1
<1>1. PICK f : AfterPasses(ps, f)
  BY ReceptionsAre
<1>2. n \in Nat /\ DOMAIN ps = 1..n
  BY LenProperties
<1>3. /\ \A k \in 1..m : f[k] = Pass(ps, f[k - 1])
      /\ \A k \in 0..m : WorkHolds(ps, f[k])
      /\ DecodeReceptions(ps) = f[m]
  BY <1>1 DEF AfterPasses
<1> DEFINE A == {k \in 0..m : Len(f[k].decoded) >= k \/ Quiet(ps, f[k])}
<1> HIDE DEF n
<1>4. m \in Nat
  BY <1>2
<1>5. \A k \in 0..m : /\ f[k].decoded \in Seq(1..n) /\ Distinct(f[k].decoded)
                      /\ Len(f[k].decoded) \in Nat /\ Len(f[k].decoded) <= n
  <2> SUFFICES ASSUME NEW k \in 0..m
               PROVE  /\ f[k].decoded \in Seq(1..n) /\ Distinct(f[k].decoded)
                      /\ Len(f[k].decoded) \in Nat /\ Len(f[k].decoded) <= n
    OBVIOUS
  <2>1. f[k].decoded \in Seq(1..n) /\ Distinct(f[k].decoded)
    BY <1>2, <1>3 DEF WorkHolds, WorkSet
  <2> QED
    BY <1>2, <2>1, LenProperties, DistinctIsShort
<1> HIDE DEF m
<1>6. 0 \in A
  <2>1. 0 \in 0..m
    BY <1>4
  <2>2. Len(f[0].decoded) >= 0
    BY <1>5, <2>1
  <2> QED
    BY <2>1, <2>2
<1>7. ASSUME NEW k \in 0..m - 1, k \in A PROVE k + 1 \in A
  <2>1. k + 1 \in 1..m /\ k + 1 - 1 = k /\ k + 1 \in 0..m /\ k \in 0..m
    BY <1>4
  <2>2. f[k + 1] = Pass(ps, f[k]) /\ WorkHolds(ps, f[k])
    BY <1>3, <2>1
  <2>3. \/ Len(f[k + 1].decoded) > Len(f[k].decoded) /\ ~Quiet(ps, f[k])
        \/ f[k + 1].decoded = f[k].decoded /\ Quiet(ps, f[k + 1])
    BY <2>2, PassKeeps
  <2>4. Len(f[k].decoded) \in Nat /\ Len(f[k + 1].decoded) \in Nat
    BY <1>5, <2>1
  <2> HIDE DEF Quiet
  <2>5. Len(f[k].decoded) >= k \/ Quiet(ps, f[k])
    BY <1>7
  <2>6. Len(f[k + 1].decoded) >= k + 1 \/ Quiet(ps, f[k + 1])
    BY <1>4, <2>3, <2>4, <2>5
  <2> QED
    BY <2>1, <2>6
<1>8. m \in A
  <2> HIDE DEF A
  <2>1. \A k \in 0..m : k \in A
    BY <1>4, <1>6, <1>7, UpTo
  <2> QED
    BY <1>4, <2>1
<1>9. ~(Len(f[m].decoded) >= m)
  BY <1>2, <1>4, <1>5 DEF m
<1> QED
  BY <1>3, <1>4, <1>8, <1>9

----------------------------------------------------------------------------
(* The decision is sound.                                                   *)

LEMMA ReceptionsAreSound ==
    ASSUME NEW ps \in Seq(PacketSet)
    PROVE  DecisionIsSound(ps)
<1> DEFINE work == DecodeReceptions(ps)
           d == work.decoded
           Earlier(j, i) == \E m, k \in DOMAIN d : m < k /\ d[m] = j /\ d[k] = i
           Cancelled(j, i) == Decodes(work.outcome[j]) /\ (Decodes(work.outcome[i]) => Earlier(j, i))
           Left(i) == [j \in DOMAIN ps |-> IF Cancelled(j, i) THEN Residual(ps[j].power)
                                           ELSE ps[j].power]
           Clear(i) == \A t \in ps[i].start..ps[i].end - 1 :
                           MeetsThreshold(ps[i].power, Alongside(ps, Left(i), i, t))
<1>1. WorkHolds(ps, work) /\ Quiet(ps, work)
  BY ReceptionsEndQuiet
<1>2. /\ d \in Seq(DOMAIN ps) /\ Distinct(d)
      /\ \A i \in DOMAIN ps : Decodes(work.outcome[i]) <=> i \in ToSet(d)
      /\ work.residual = LeftOf(ps, ToSet(d))
      /\ \A k \in DOMAIN d : Qualified(ps, LeftOf(ps, Before(d, k)), d[k])
  BY <1>1 DEF WorkHolds, WorkSet
<1> SUFFICES ASSUME NEW i \in DOMAIN ps
             PROVE  Decodes(work.outcome[i])
                    <=> /\ ps[i].complete /\ ps[i].end > ps[i].start
                        /\ ps[i].power >= ps[i].sensitivity
                        /\ Clear(i)
  BY DEF DecisionIsSound
<1> HIDE DEF work, d
<1>3. DOMAIN d = 1..Len(d) /\ Len(d) \in Nat
  BY <1>2, LenProperties
<1>4. Left(i) \in [DOMAIN ps -> Nat]
  <2>1. \A j \in DOMAIN ps : ps[j].power \in Nat /\ Residual(ps[j].power) \in Nat
    BY PacketIs, ResidualIs
  <2> HIDE DEF Cancelled
  <2> QED
    BY <2>1
<1>5. ps[i].start \in Int /\ ps[i].end \in Int /\ ps[i].power \in Nat
  BY PacketIs
<1>6. Qualified(ps, Left(i), i)
        <=> /\ ps[i].complete /\ ps[i].end > ps[i].start
            /\ ps[i].power >= ps[i].sensitivity
            /\ Clear(i)
  <2> HIDE DEF Left
  <2>1. ps[i].start < ps[i].end =>
           (MeetsThreshold(ps[i].power, Interference(ps, Left(i), i)) <=> Clear(i))
    BY <1>4, <1>5, InterferenceIs
  <2>2. ps[i].end > ps[i].start <=> ps[i].start < ps[i].end
    BY <1>5
  <2> HIDE DEF Clear
  <2> QED
    BY <2>1, <2>2 DEF Qualified
<1>7. CASE i \in ToSet(d)
  <2>1. PICK k \in DOMAIN d : d[k] = i
    BY <1>7 DEF ToSet
  <2>2. \A j \in DOMAIN ps : Earlier(j, i) <=> j \in Before(d, k)
    <3>1. ASSUME NEW j \in DOMAIN ps, NEW m \in DOMAIN d, NEW l \in DOMAIN d,
                 m < l, d[m] = j, d[l] = i
          PROVE  j \in Before(d, k)
      <4>1. l = k
        BY <1>2, <2>1, <3>1 DEF Distinct
      <4>2. m \in 1..k - 1
        BY <1>3, <3>1, <4>1
      <4> QED
        BY <3>1, <4>2 DEF Before
    <3>2. ASSUME NEW j \in DOMAIN ps, j \in Before(d, k) PROVE Earlier(j, i)
      <4>1. PICK m \in 1..k - 1 : d[m] = j
        BY <3>2 DEF Before
      <4>2. m \in DOMAIN d /\ m < k
        BY <1>3, <4>1
      <4> QED
        BY <2>1, <4>1, <4>2
    <3> QED
      BY <3>1, <3>2
  <2>3. Before(d, k) \subseteq ToSet(d)
    <3>1. \A m \in 1..k - 1 : m \in DOMAIN d
      BY <1>3, <2>1
    <3> QED
      BY <3>1 DEF Before, ToSet
  <2>4. \A j \in DOMAIN ps : Cancelled(j, i) <=> j \in Before(d, k)
    <3> HIDE DEF Earlier
    <3> QED
      BY <1>2, <1>7, <2>2, <2>3
  <2>5. Left(i) = LeftOf(ps, Before(d, k))
    <3> HIDE DEF Cancelled
    <3> QED
      BY <2>4 DEF LeftOf
  <2>6. Qualified(ps, Left(i), i)
    BY <1>2, <2>1, <2>5
  <2> QED
    BY <1>2, <1>6, <1>7, <2>6
<1>8. CASE i \notin ToSet(d)
  <2>1. \A j \in DOMAIN ps : Cancelled(j, i) <=> j \in ToSet(d)
    <3> HIDE DEF Earlier
    <3> QED
      BY <1>2, <1>8
  <2>2. Left(i) = LeftOf(ps, ToSet(d))
    <3> HIDE DEF Cancelled
    <3> QED
      BY <2>1 DEF LeftOf
  <2>3. ~Qualified(ps, Left(i), i)
    BY <1>1, <1>2, <1>8, <2>2 DEF Quiet, Remaining, d
  <2> QED
    BY <1>2, <1>6, <1>8, <2>3
<1> QED
  BY <1>7, <1>8

----------------------------------------------------------------------------
(* The decision does not depend on the order of arrival.                    *)

Turned(n) == [i \in 1..n |-> n + 1 - i]

\* The same packets in the opposite order.
Opposite(ps, qs, turn) ==
    /\ ps \in Seq(PacketSet) /\ qs \in Seq(PacketSet) /\ DOMAIN qs = DOMAIN ps
    /\ turn = Turned(Len(ps)) /\ Len(qs) = Len(ps)
    /\ turn \in [DOMAIN ps -> DOMAIN ps]
    /\ \A i \in DOMAIN ps : turn[turn[i]] = i /\ qs[turn[i]] = ps[i]

LEMMA ReverseIs ==
    ASSUME NEW ps \in Seq(PacketSet)
    PROVE  Opposite(ps, Reverse(ps), Turned(Len(ps)))
<1> DEFINE n == Len(ps)
           qs == Reverse(ps)
           turn == Turned(n)
<1>1. n \in Nat /\ DOMAIN ps = 1..n /\ \A i \in 1..n : ps[i] \in PacketSet
  BY LenProperties, ElementOfSeq
<1>2. qs = [i \in 1..n |-> ps[(n - i) + 1]]
  BY DEF Reverse
<1> HIDE DEF n, qs
<1>3. \A i \in 1..n : (n - i) + 1 \in 1..n /\ n + 1 - i \in 1..n /\ n + 1 - (n + 1 - i) = i
                      /\ (n - (n + 1 - i)) + 1 = i
  BY <1>1
<1>4. qs \in [1..n -> PacketSet]
  BY <1>1, <1>2, <1>3
<1>5. qs \in Seq(PacketSet)
  BY <1>1, <1>4, IsASeq
<1>6. DOMAIN qs = 1..n /\ Len(qs) = n
  BY <1>1, <1>4, <1>5, LenProperties
<1>7. turn \in [1..n -> 1..n]
  BY <1>3 DEF Turned
<1>8. \A i \in 1..n : turn[i] = n + 1 - i /\ turn[turn[i]] = i /\ qs[turn[i]] = ps[i]
  BY <1>2, <1>3 DEF Turned
<1> QED
  BY <1>1, <1>5, <1>6, <1>7, <1>8 DEF Opposite, n, qs

LEMMA RivalsTurned ==
    ASSUME NEW ps, NEW qs, NEW turn, Opposite(ps, qs, turn), NEW i \in DOMAIN ps
    PROVE  /\ \A j \in DOMAIN ps : turn[j] \in Rivals(qs, turn[i]) <=> j \in Rivals(ps, i)
           /\ Rivals(qs, turn[i]) = {turn[j] : j \in Rivals(ps, i)}
<1>1. /\ turn \in [DOMAIN ps -> DOMAIN ps] /\ DOMAIN qs = DOMAIN ps
      /\ \A j \in DOMAIN ps : turn[turn[j]] = j /\ qs[turn[j]] = ps[j]
  BY DEF Opposite
<1>2. ASSUME NEW j \in DOMAIN ps PROVE turn[j] \in Rivals(qs, turn[i]) <=> j \in Rivals(ps, i)
  <2>1. turn[j] # turn[i] <=> j # i
    BY <1>1
  <2>2. Overlaps(qs[turn[i]], qs[turn[j]]) <=> Overlaps(ps[i], ps[j])
    BY <1>1
  <2> QED
    BY <1>1, <2>1, <2>2 DEF Rivals
<1>3. Rivals(ps, i) \subseteq DOMAIN ps /\ Rivals(qs, turn[i]) \subseteq DOMAIN ps
  BY <1>1 DEF Rivals
<1>4. \A k \in DOMAIN ps : \E j \in DOMAIN ps : k = turn[j]
  BY <1>1
<1> QED
  BY <1>2, <1>3, <1>4

LEMMA InstantsTurned ==
    ASSUME NEW ps, NEW qs, NEW turn, Opposite(ps, qs, turn), NEW i \in DOMAIN ps
    PROVE  Instants(qs, turn[i]) = Instants(ps, i)
<1>1. \A j \in DOMAIN ps : qs[turn[j]] = ps[j]
  BY DEF Opposite
<1>2. Rivals(qs, turn[i]) = {turn[j] : j \in Rivals(ps, i)} /\ Rivals(ps, i) \subseteq DOMAIN ps
  BY RivalsTurned DEF Rivals
<1>3. {Max({qs[turn[i]].start, qs[k].start}) : k \in Rivals(qs, turn[i])}
      = {Max({ps[i].start, ps[j].start}) : j \in Rivals(ps, i)}
  <2> DEFINE M(k) == Max({qs[turn[i]].start, qs[k].start})
             N(j) == Max({ps[i].start, ps[j].start})
  <2>1. \A j \in Rivals(ps, i) : M(turn[j]) = N(j)
    BY <1>1, <1>2
  <2> HIDE DEF M, N
  <2>2. {M(k) : k \in Rivals(qs, turn[i])} = {N(j) : j \in Rivals(ps, i)}
    BY <1>2, <2>1
  <2> QED
    BY <2>2 DEF M, N
<1>4. {Min({qs[turn[i]].end, qs[k].end}) : k \in Rivals(qs, turn[i])}
      = {Min({ps[i].end, ps[j].end}) : j \in Rivals(ps, i)}
  <2> DEFINE M(k) == Min({qs[turn[i]].end, qs[k].end})
             N(j) == Min({ps[i].end, ps[j].end})
  <2>1. \A j \in Rivals(ps, i) : M(turn[j]) = N(j)
    BY <1>1, <1>2
  <2> HIDE DEF M, N
  <2>2. {M(k) : k \in Rivals(qs, turn[i])} = {N(j) : j \in Rivals(ps, i)}
    BY <1>2, <2>1
  <2> QED
    BY <2>2 DEF M, N
<1> QED
  BY <1>1, <1>3, <1>4 DEF Instants

LEMMA AlongsideTurned ==
    ASSUME NEW ps, NEW qs, NEW turn, Opposite(ps, qs, turn), NEW i \in DOMAIN ps,
           NEW p \in [DOMAIN ps -> Nat], NEW q \in [DOMAIN ps -> Nat],
           \A j \in DOMAIN ps : q[turn[j]] = p[j], NEW t
    PROVE  Alongside(qs, q, turn[i], t) = Alongside(ps, p, i, t)
<1> DEFINE s == OnTop(ps, p, i, t)
           e == OnTop(qs, q, turn[i], t)
           n == Len(ps)
<1>1. /\ ps \in Seq(PacketSet) /\ qs \in Seq(PacketSet) /\ DOMAIN qs = DOMAIN ps
      /\ turn \in [DOMAIN ps -> DOMAIN ps] /\ turn = Turned(n) /\ Len(qs) = n
      /\ \A j \in DOMAIN ps : turn[turn[j]] = j /\ qs[turn[j]] = ps[j]
  BY DEF Opposite
<1>2. n \in Nat /\ DOMAIN ps = 1..n
  BY <1>1, LenProperties
<1>3. /\ s \in Seq(Nat) /\ Len(s) = n /\ Alongside(ps, p, i, t) = Total(s)
      /\ e \in Seq(Nat) /\ Len(e) = n /\ Alongside(qs, q, turn[i], t) = Total(e)
  <2>1. s \in Seq(Nat) /\ Len(s) = n /\ Alongside(ps, p, i, t) = Total(s)
    <3>1. p \in [DOMAIN ps -> Nat] /\ ps \in Seq(PacketSet)
      BY <1>1
    <3> QED
      BY <3>1, AlongsideIs
  <2>2. q \in [DOMAIN qs -> Nat] /\ Len(qs) = n /\ qs \in Seq(PacketSet)
    BY <1>1
  <2>3. e \in Seq(Nat) /\ Len(e) = Len(qs) /\ Alongside(qs, q, turn[i], t) = Total(e)
    BY <2>2, AlongsideIs
  <2> QED
    BY <2>1, <2>2, <2>3
<1> HIDE DEF n
<1>4. \A k \in 1..n : e[k] = s[turn[k]]
  <2> SUFFICES ASSUME NEW k \in 1..n PROVE e[k] = s[turn[k]]
    OBVIOUS
  <2>1. k \in DOMAIN qs /\ turn[k] \in DOMAIN ps
    BY <1>1, <1>2
  <2>2. qs[k] = ps[turn[k]] /\ q[k] = p[turn[k]]
    <3>1. turn[turn[k]] = k /\ qs[turn[turn[k]]] = ps[turn[k]]
      BY <1>1, <2>1
    <3>2. q[turn[turn[k]]] = p[turn[k]]
      BY <2>1
    <3> QED
      BY <3>1, <3>2
  <2>3. k # turn[i] <=> turn[k] # i
    BY <1>1, <1>2, <2>1
  <2> QED
    BY <2>1, <2>2, <2>3 DEF OnTop
<1>5. \A k \in 1..n : turn[k] = n + 1 - k
  BY <1>1 DEF Turned
<1> HIDE DEF s, e
<1>6. s \in Seq(Int) /\ e \in Seq(Int)
  BY <1>3
<1>7. \A k \in 1..Len(s) : e[k] = s[Len(s) + 1 - k]
  BY <1>3, <1>4, <1>5
<1>8. Total(s) = Total(e)
  BY <1>3, <1>6, <1>7, TotalBackwards
<1> QED
  BY <1>3, <1>8

\* The work on the packets in the opposite order.
Same(ps, w, v, turn) ==
    \A i \in DOMAIN ps :
        /\ v.outcome[turn[i]] = w.outcome[i]
        /\ v.residual[turn[i]] = w.residual[i]
        /\ turn[i] \in ToSet(v.decoded) <=> i \in ToSet(w.decoded)

LEMMA VerdictTurned ==
    ASSUME NEW ps, NEW qs, NEW turn, Opposite(ps, qs, turn), NEW i \in DOMAIN ps,
           NEW w, WorkHolds(ps, w), NEW v, WorkHolds(qs, v), Same(ps, w, v, turn)
    PROVE  Verdict(qs, v.residual, v.decoded, turn[i]) = Verdict(ps, w.residual, w.decoded, i)
<1>1. /\ DOMAIN qs = DOMAIN ps /\ turn \in [DOMAIN ps -> DOMAIN ps]
      /\ \A j \in DOMAIN ps : turn[turn[j]] = j /\ qs[turn[j]] = ps[j]
  BY DEF Opposite
<1>2. w.residual \in [DOMAIN ps -> Nat] /\ v.residual \in [DOMAIN ps -> Nat]
  BY <1>1 DEF WorkHolds, WorkSet
<1>3. \A t : Alongside(qs, v.residual, turn[i], t) = Alongside(ps, w.residual, i, t)
  BY <1>2, AlongsideTurned DEF Same
<1>4. Interference(qs, v.residual, turn[i]) = Interference(ps, w.residual, i)
  BY <1>3, InstantsTurned DEF Interference
<1>5. Rivals(qs, turn[i]) = {turn[j] : j \in Rivals(ps, i)} /\ Rivals(ps, i) \subseteq DOMAIN ps
  BY RivalsTurned DEF Rivals
<1>6. Rivals(qs, turn[i]) = {} <=> Rivals(ps, i) = {}
  BY <1>5
<1>7. Rivals(qs, turn[i]) \cap ToSet(v.decoded) # {} <=> Rivals(ps, i) \cap ToSet(w.decoded) # {}
  <2>1. \A j \in Rivals(ps, i) : turn[j] \in ToSet(v.decoded) <=> j \in ToSet(w.decoded)
    BY <1>5 DEF Same
  <2> QED
    BY <1>5, <2>1
<1>8. qs[turn[i]] = ps[i]
  BY <1>1
<1> DEFINE meets == MeetsThreshold(ps[i].power, Interference(ps, w.residual, i))
<1>9. Verdict(ps, w.residual, w.decoded, i) =
        IF ps[i].end <= ps[i].start \/ ~ps[i].complete THEN "energy_interrupted"
        ELSE IF ps[i].power < ps[i].sensitivity THEN "below_sensitivity"
        ELSE IF ~meets
             THEN IF Rivals(ps, i) # {} THEN "collision" ELSE "below_sinr"
        ELSE IF Rivals(ps, i) = {} THEN "decoded"
        ELSE IF Sic /\ CancelNum > 0 /\ Rivals(ps, i) \cap ToSet(w.decoded) # {}
             THEN "sic_recovered" ELSE "capture"
  BY DEF Verdict
<1>10. Verdict(qs, v.residual, v.decoded, turn[i]) =
        IF ps[i].end <= ps[i].start \/ ~ps[i].complete THEN "energy_interrupted"
        ELSE IF ps[i].power < ps[i].sensitivity THEN "below_sensitivity"
        ELSE IF ~meets
             THEN IF Rivals(qs, turn[i]) # {} THEN "collision" ELSE "below_sinr"
        ELSE IF Rivals(qs, turn[i]) = {} THEN "decoded"
        ELSE IF Sic /\ CancelNum > 0 /\ Rivals(qs, turn[i]) \cap ToSet(v.decoded) # {}
             THEN "sic_recovered" ELSE "capture"
  BY <1>4, <1>8 DEF Verdict
<1> HIDE DEF meets
<1> QED
  BY <1>6, <1>7, <1>9, <1>10

LEMMA ConsiderTurned ==
    ASSUME NEW ps, NEW qs, NEW turn, Opposite(ps, qs, turn), NEW i \in DOMAIN ps,
           NEW w, WorkHolds(ps, w), NEW v, WorkHolds(qs, v), Same(ps, w, v, turn)
    PROVE  Same(ps, Consider(ps, w, i), Consider(qs, v, turn[i]), turn)
<1> DEFINE verdict == Verdict(ps, w.residual, w.decoded, i)
           x == Consider(ps, w, i)
           y == Consider(qs, v, turn[i])
<1>1. /\ DOMAIN qs = DOMAIN ps /\ turn \in [DOMAIN ps -> DOMAIN ps]
      /\ \A j \in DOMAIN ps : turn[turn[j]] = j /\ qs[turn[j]] = ps[j]
  BY DEF Opposite
<1>2. Verdict(qs, v.residual, v.decoded, turn[i]) = verdict
  BY VerdictTurned
<1>3. /\ x.residual = IF Decodes(verdict) THEN [w.residual EXCEPT ![i] = Residual(ps[i].power)]
                      ELSE w.residual
      /\ x.decoded = IF Decodes(verdict) THEN Append(w.decoded, i) ELSE w.decoded
      /\ x.outcome = [w.outcome EXCEPT ![i] = verdict]
  BY DEF Consider
<1>4. qs[turn[i]] = ps[i]
  BY <1>1
<1>5. /\ y.residual = IF Decodes(verdict) THEN [v.residual EXCEPT ![turn[i]] = Residual(ps[i].power)]
                      ELSE v.residual
      /\ y.decoded = IF Decodes(verdict) THEN Append(v.decoded, turn[i]) ELSE v.decoded
      /\ y.outcome = [v.outcome EXCEPT ![turn[i]] = verdict]
  BY <1>2, <1>4 DEF Consider
<1>6. /\ w.residual \in [DOMAIN ps -> Nat] /\ w.outcome \in [DOMAIN ps -> Outcomes]
      /\ v.residual \in [DOMAIN ps -> Nat] /\ v.outcome \in [DOMAIN ps -> Outcomes]
      /\ w.decoded \in Seq(DOMAIN ps) /\ v.decoded \in Seq(DOMAIN ps)
  BY <1>1 DEF WorkHolds, WorkSet
<1>7. turn[i] \in DOMAIN ps
  BY <1>1
<1>8. /\ ToSet(Append(w.decoded, i)) = ToSet(w.decoded) \cup {i}
      /\ ToSet(Append(v.decoded, turn[i])) = ToSet(v.decoded) \cup {turn[i]}
  BY <1>6, <1>7, Appended
<1> HIDE DEF verdict, x, y
<1>9. ASSUME NEW j \in DOMAIN ps
      PROVE  /\ y.outcome[turn[j]] = x.outcome[j]
             /\ y.residual[turn[j]] = x.residual[j]
             /\ turn[j] \in ToSet(y.decoded) <=> j \in ToSet(x.decoded)
  <2>1. turn[j] \in DOMAIN ps /\ (turn[j] = turn[i] <=> j = i)
    BY <1>1
  <2>2. /\ v.outcome[turn[j]] = w.outcome[j]
        /\ v.residual[turn[j]] = w.residual[j]
        /\ turn[j] \in ToSet(v.decoded) <=> j \in ToSet(w.decoded)
    BY DEF Same
  <2>3. y.outcome[turn[j]] = x.outcome[j]
    BY <1>3, <1>5, <1>6, <1>7, <2>1, <2>2
  <2>4. y.residual[turn[j]] = x.residual[j]
    BY <1>3, <1>5, <1>6, <1>7, <2>1, <2>2
  <2>5. turn[j] \in ToSet(y.decoded) <=> j \in ToSet(x.decoded)
    BY <1>3, <1>5, <1>8, <2>1, <2>2
  <2> QED
    BY <2>3, <2>4, <2>5
<1> QED
  BY <1>9 DEF Same, x, y

\* No two packets are equally strong.
Unlike(ps) == \A i, j \in DOMAIN ps : ps[i].power = ps[j].power => i = j

LEMMA ForemostTurned ==
    ASSUME NEW ps, NEW qs, NEW turn, Opposite(ps, qs, turn), Unlike(ps),
           NEW C, C \subseteq DOMAIN ps, C # {}
    PROVE  Foremost(qs, {turn[i] : i \in C}) = turn[Foremost(ps, C)]
<1> DEFINE E == {turn[i] : i \in C}
           a == Foremost(ps, C)
           b == Foremost(qs, E)
<1>1. /\ ps \in Seq(PacketSet) /\ qs \in Seq(PacketSet)
      /\ DOMAIN qs = DOMAIN ps /\ turn \in [DOMAIN ps -> DOMAIN ps]
      /\ \A j \in DOMAIN ps : turn[turn[j]] = j /\ qs[turn[j]] = ps[j]
  BY DEF Opposite
<1>2. a \in C /\ \A j \in C : Precedes(ps, a, j)
  BY <1>1, ForemostIs
<1>3. E \subseteq DOMAIN qs /\ E # {}
  BY <1>1
<1>4. b \in E /\ \A j \in E : Precedes(qs, b, j)
  <2> HIDE DEF E
  <2> QED
    BY <1>1, <1>3, ForemostIs
<1> HIDE DEF a, b
<1>5. PICK c \in C : b = turn[c]
  BY <1>4
<1>6. ps[a].power \in Nat /\ ps[c].power \in Nat
  BY <1>1, <1>2, PacketIs
<1>7. ps[a].power >= ps[c].power
  BY <1>2, <1>6 DEF Precedes
<1>8. ps[c].power >= ps[a].power
  <2>1. Precedes(qs, b, turn[a])
    BY <1>2, <1>4
  <2>2. qs[b] = ps[c] /\ qs[turn[a]] = ps[a]
    BY <1>1, <1>2, <1>5
  <2> QED
    BY <1>6, <2>1, <2>2 DEF Precedes
<1>9. a = c
  BY <1>2, <1>6, <1>7, <1>8 DEF Unlike
<1> QED
  BY <1>5, <1>9 DEF a, b, E

LEMMA PassTurned ==
    ASSUME NEW ps, NEW qs, NEW turn, Opposite(ps, qs, turn), Unlike(ps),
           NEW w, WorkHolds(ps, w), NEW v, WorkHolds(qs, v), Same(ps, w, v, turn)
    PROVE  Same(ps, Pass(ps, w), Pass(qs, v), turn)
<1> DEFINE C == Remaining(ps, w)
           E == Remaining(qs, v)
           c == Cardinality(C)
<1>1. /\ ps \in Seq(PacketSet) /\ qs \in Seq(PacketSet)
      /\ DOMAIN qs = DOMAIN ps /\ turn \in [DOMAIN ps -> DOMAIN ps]
      /\ \A j \in DOMAIN ps : turn[turn[j]] = j /\ qs[turn[j]] = ps[j]
  BY DEF Opposite
<1>2. C \subseteq DOMAIN ps /\ IsFiniteSet(C) /\ c \in Nat /\ IsFiniteSet(E)
  BY <1>1, RemainingAre
<1>3. E = {turn[i] : i \in C}
  <2>1. \A k \in DOMAIN ps : \E j \in DOMAIN ps : k = turn[j]
    BY <1>1
  <2>2. \A j \in DOMAIN ps : turn[j] \in E <=> j \in C
    BY <1>1 DEF Same, Remaining
  <2>3. E \subseteq DOMAIN ps /\ C \subseteq DOMAIN ps
    BY <1>1 DEF Remaining
  <2> HIDE DEF C, E
  <2> QED
    BY <2>1, <2>2, <2>3
<1>4. PICK f : Passes(ps, w, f) /\ Pass(ps, w) = f[c].work
  BY <1>1, PassIs
<1>5. PICK g : Passes(qs, v, g) /\ Pass(qs, v) = g[Cardinality(E)].work
  BY <1>1, PassIs
<1> HIDE DEF C, E
<1>6. Cardinality(E) = c
  <2> DEFINE h == [i \in C |-> turn[i]]
  <2>1. h \in Bijection(C, E)
    <3>1. h \in [C -> E]
      BY <1>3
    <3>2. \A i, j \in C : h[i] = h[j] => i = j
      BY <1>1, <1>2
    <3>3. \A k \in E : \E i \in C : h[i] = k
      BY <1>3
    <3> HIDE DEF h
    <3> QED
      BY <3>1, <3>2, <3>3 DEF Bijection, Injection, Surjection, IsInjective
  <2>2. ExistsBijection(C, E)
    BY <2>1 DEF ExistsBijection
  <2> QED
    BY <1>2, <2>2, FS_Bijection
<1> HIDE DEF c
<1>7. /\ f[0] = [work |-> w, left |-> C] /\ g[0] = [work |-> v, left |-> E]
      /\ \A k \in 1..c : f[k] = PassStep(ps, f[k - 1]) /\ g[k] = PassStep(qs, g[k - 1])
      /\ \A k \in 0..c : /\ f[k] \in PassHolds(ps) /\ g[k] \in PassHolds(qs)
                         /\ IsFiniteSet(f[k].left) /\ Cardinality(f[k].left) = c - k
  BY <1>4, <1>5, <1>6 DEF Passes, C, E, c
<1> DEFINE A == {k \in 0..c : /\ g[k].left = {turn[i] : i \in f[k].left}
                              /\ Same(ps, f[k].work, g[k].work, turn)}
<1>8. 0 \in A
  BY <1>2, <1>3, <1>7
<1>9. ASSUME NEW k \in 0..c - 1, k \in A PROVE k + 1 \in A
  <2>1. k \in 0..c /\ k + 1 \in 0..c /\ k + 1 \in 1..c /\ k + 1 - 1 = k
    BY <1>2
  <2> DEFINE x == f[k]
             y == g[k]
             i == Foremost(ps, x.left)
  <2>2. /\ x \in PassHolds(ps) /\ y \in PassHolds(qs)
        /\ f[k + 1] = PassStep(ps, x) /\ g[k + 1] = PassStep(qs, y)
        /\ IsFiniteSet(x.left) /\ Cardinality(x.left) = c - k
    BY <1>7, <2>1
  <2>3. y.left = {turn[j] : j \in x.left} /\ Same(ps, x.work, y.work, turn)
    BY <1>9
  <2> HIDE DEF x, y
  <2>4. /\ x.left \subseteq DOMAIN ps /\ WorkHolds(ps, x.work) /\ WorkHolds(qs, y.work)
    BY <2>2 DEF PassHolds
  <2>5. x.left # {}
    <3>1. Cardinality(x.left) # 0
      BY <1>2, <2>2
    <3> QED
      BY <2>2, <3>1, FS_EmptySet
  <2>6. i \in x.left /\ i \in DOMAIN ps
    BY <1>1, <2>4, <2>5, ForemostIs
  <2>7. Foremost(qs, y.left) = turn[i]
    BY <2>3, <2>4, <2>5, ForemostTurned
  <2> HIDE DEF i
  <2>8. /\ PassStep(ps, x).work = Consider(ps, x.work, i)
        /\ PassStep(ps, x).left = x.left \ {i}
        /\ PassStep(qs, y).work = Consider(qs, y.work, turn[i])
        /\ PassStep(qs, y).left = y.left \ {turn[i]}
    BY <2>7 DEF PassStep, i
  <2>9. Same(ps, PassStep(ps, x).work, PassStep(qs, y).work, turn)
    BY <2>3, <2>4, <2>6, <2>8, ConsiderTurned
  <2>10. y.left \ {turn[i]} = {turn[j] : j \in x.left \ {i}}
    <3>1. \A j \in x.left : turn[j] = turn[i] <=> j = i
      BY <1>1, <2>4, <2>6
    <3> QED
      BY <2>3, <3>1
  <2> QED
    BY <2>1, <2>2, <2>8, <2>9, <2>10
<1>10. c \in A
  <2> HIDE DEF A
  <2>1. \A k \in 0..c : k \in A
    BY <1>2, <1>8, <1>9, UpTo DEF c
  <2> QED
    BY <1>2, <2>1 DEF c
<1> QED
  BY <1>4, <1>5, <1>6, <1>10

LEMMA ReceptionsAreOrderFree ==
    ASSUME NEW ps \in Seq(PacketSet)
    PROVE  DecisionIsOrderFree(ps)
<1> DEFINE n == Len(ps)
           m == n + 1
           qs == Reverse(ps)
           turn == Turned(n)
<1> SUFFICES ASSUME Unlike(ps)
             PROVE  \A i \in DOMAIN ps :
                        DecodeReceptions(ps).outcome[i] = DecodeReceptions(qs).outcome[n + 1 - i]
  BY DEF DecisionIsOrderFree, Unlike
<1>1. Opposite(ps, qs, turn)
  BY ReverseIs
<1>2. n \in Nat /\ DOMAIN ps = 1..n
  BY LenProperties
<1> HIDE DEF qs, turn
<1>3. qs \in Seq(PacketSet) /\ Len(qs) = n /\ DOMAIN qs = DOMAIN ps
      /\ turn \in [DOMAIN ps -> DOMAIN ps]
      /\ \A i \in DOMAIN ps : qs[turn[i]] = ps[i]
  BY <1>1 DEF Opposite
<1>4. PICK f : AfterPasses(ps, f)
  BY ReceptionsAre
<1>5. PICK g : AfterPasses(qs, g)
  BY <1>3, ReceptionsAre
<1> HIDE DEF n
<1>6. /\ f[0] = Start(ps) /\ g[0] = Start(qs)
      /\ \A k \in 1..m : f[k] = Pass(ps, f[k - 1]) /\ g[k] = Pass(qs, g[k - 1])
      /\ \A k \in 0..m : WorkHolds(ps, f[k]) /\ WorkHolds(qs, g[k])
      /\ DecodeReceptions(ps) = f[m] /\ DecodeReceptions(qs) = g[m]
  BY <1>3, <1>4, <1>5 DEF AfterPasses, n
<1> DEFINE A == {k \in 0..m : Same(ps, f[k], g[k], turn)}
<1> HIDE DEF m
<1>7. m \in Nat
  BY <1>2 DEF m
<1>8. 0 \in A
  <2>1. Same(ps, Start(ps), Start(qs), turn)
    <3>1. \A s : ToSet(Start(s).decoded) = {}
      BY DEF Start, ToSet
    <3>2. \A i \in DOMAIN ps :
            /\ Start(ps).residual[i] = ps[i].power /\ Start(ps).outcome[i] = "none"
            /\ Start(qs).residual[turn[i]] = ps[i].power /\ Start(qs).outcome[turn[i]] = "none"
      BY <1>3 DEF Start
    <3> QED
      BY <3>1, <3>2 DEF Same
  <2> QED
    BY <1>6, <1>7, <2>1
<1>9. ASSUME NEW k \in 0..m - 1, k \in A PROVE k + 1 \in A
  <2>1. k + 1 \in 1..m /\ k + 1 - 1 = k /\ k + 1 \in 0..m /\ k \in 0..m
    BY <1>7
  <2>2. f[k + 1] = Pass(ps, f[k]) /\ g[k + 1] = Pass(qs, g[k])
        /\ WorkHolds(ps, f[k]) /\ WorkHolds(qs, g[k])
    BY <1>6, <2>1
  <2>3. Same(ps, Pass(ps, f[k]), Pass(qs, g[k]), turn)
    BY <1>1, <1>9, <2>2, PassTurned
  <2> QED
    BY <2>1, <2>2, <2>3
<1>10. m \in A
  <2> HIDE DEF A
  <2>1. \A k \in 0..m : k \in A
    BY <1>7, <1>8, <1>9, UpTo
  <2> QED
    BY <1>7, <2>1
<1>11. \A i \in DOMAIN ps : turn[i] = n + 1 - i
  BY <1>2 DEF turn, Turned
<1> QED
  BY <1>6, <1>10, <1>11 DEF Same

----------------------------------------------------------------------------

\* For every buffer of every station: a packet is decoded if and only if it has
\* the threshold at every instant of its airtime against what was not cancelled
\* before it, and the order of arrival does not matter (decode_receptions,
\* _process_rx_buffer).
THEOREM SoundReceptions == AmbientSpec => []ReceptionIsSound
<1>1. AmbientInv => ReceptionIsSound
  <2> SUFFICES ASSUME AmbientInv, NEW b \in Stations, NEW shift
               PROVE  /\ DecisionIsSound(Packets(b, Receptions(b, shift)))
                      /\ DecisionIsOrderFree(Packets(b, Receptions(b, shift)))
    BY DEF ReceptionIsSound
  <2> DEFINE txs == Receptions(b, shift)
             ps == Packets(b, txs)
  <2>1. station[b].buffer \in Seq(DOMAIN sent)
    BY DEF AmbientInv, BuffersHold
  <2>2. txs \in Seq(DOMAIN sent) /\ DOMAIN txs = 1..Len(txs) /\ Len(txs) \in Nat
    BY <2>1, OnlyRules DEF Receptions
  <2> HIDE DEF txs
  <2>3. \A i \in DOMAIN txs : txs[i] \in DOMAIN sent
    BY <2>2, ElementOfSeq
  <2>4. \A k \in DOMAIN sent : /\ sent[k].node \in Nodes /\ sent[k].start \in Int
                               /\ sent[k].end \in Int
    <3> SUFFICES ASSUME NEW k \in DOMAIN sent
                 PROVE  sent[k].node \in Nodes /\ sent[k].start \in Int /\ sent[k].end \in Int
      OBVIOUS
    <3>1. sent[k] \in SentRecords
      BY LenProperties, ElementOfSeq DEF AmbientInv, AmbientTypes
    <3> QED
      BY <3>1 DEF SentRecords
  <2>5. Gain \in [Stations -> [Nodes -> Nat]] /\ Sensitivity \in Nat
    BY AmbientAssumption
  <2>6. \A i \in DOMAIN txs : ps[i] \in PacketSet
    <3> SUFFICES ASSUME NEW i \in DOMAIN txs PROVE ps[i] \in PacketSet
      OBVIOUS
    <3>1. /\ Gain[b][sent[txs[i]].node] \in Nat /\ sent[txs[i]].start \in Int
          /\ sent[txs[i]].end \in Int
      BY <2>3, <2>4, <2>5
    <3> QED
      BY <2>5, <3>1 DEF Packets, PacketSet
  <2>7. ps \in [1..Len(txs) -> PacketSet]
    BY <2>2, <2>6 DEF Packets
  <2> HIDE DEF ps
  <2>8. ps \in Seq(PacketSet)
    BY <2>2, <2>7, IsASeq
  <2> QED
    BY <2>8, ReceptionsAreSound, ReceptionsAreOrderFree DEF ps, txs
<1> QED
  BY <1>1, AmbientInvariant, PTL
==============================================================================
