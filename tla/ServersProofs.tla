---------------------------- MODULE ServersProofs ----------------------------
(***************************************************************************)
(* The invariants of MCServers for all values of its constants.  The parts *)
(* share nothing but the clock, and a behaviour is one of one part, so     *)
(* each part has an inductive invariant of its own: that of a part with a  *)
(* clock is about the behaviours of this part (StepOfPart), that of any    *)
(* other part is true of all behaviours, which leave the part alone.       *)
(***************************************************************************)
EXTENDS MCServers, FiniteSetTheorems, SequenceTheorems, TLAPS

\* A step is one of the part of the behaviour, and it leaves the others alone.
LEMMA StepOfPart ==
  ASSUME [ServersNext]_allVars
  PROVE  /\ part' = part
         /\ part = "limits" => [Next]_vars
         /\ part = "life" => [Life!Next]_(Life!vars)
         /\ part = "http" => [Http!Next]_(Http!vars)
         /\ [Pages!Next]_(Pages!vars)
         /\ [Repo!Next]_(Repo!vars)
         /\ [Store!Next]_(Store!vars)
         /\ [Memory!Next]_(Memory!vars)
         /\ [Stack!Next]_(Stack!vars)
         /\ [Tagged!Next]_(Tagged!vars)
         /\ [Client!Next]_(Client!vars)
<1> USE DEF limitVars, pageVars, repoVars, lifeVars, storeVars, memoryVars, chainVars, tagVars,
            httpVars, optionVars, stateVars, requestVars, vars, Life!vars, Http!vars,
            Pages!vars, Repo!vars, Store!vars, Memory!vars, Stack!vars, Tagged!vars, Client!vars
<1>1. CASE State("limits", Next, <<pageVars, repoVars, lifeVars, storeVars, memoryVars>>)
  BY <1>1 DEF State
<1>2. CASE State("pages", Pages!Next,
                 <<now, limitVars, repoVars, lifeVars, storeVars, memoryVars>>)
  BY <1>2 DEF State
<1>3. CASE State("repo", Repo!Next,
                 <<now, limitVars, pageVars, lifeVars, storeVars, memoryVars>>)
  BY <1>3 DEF State
<1>4. CASE State("life", Life!Next, <<limitVars, pageVars, repoVars, storeVars, memoryVars>>)
  BY <1>4 DEF State
<1>5. CASE State("store", Store!Next,
                 <<now, limitVars, pageVars, repoVars, lifeVars, memoryVars>>)
  BY <1>5 DEF State
<1>6. CASE State("memory", Memory!Next,
                 <<now, limitVars, pageVars, repoVars, lifeVars, storeVars>>)
  BY <1>6 DEF State
<1>7. CASE Request("chain", Stack!Next, <<now, tagVars, httpVars, optionVars>>)
  BY <1>7 DEF Request
<1>8. CASE Request("tags", Tagged!Next, <<now, chainVars, httpVars, optionVars>>)
  BY <1>8 DEF Request
<1>9. CASE Request("http", Http!Next, <<chainVars, tagVars, optionVars>>)
  BY <1>9 DEF Request
<1>10. CASE Request("options", Client!Next, <<now, chainVars, tagVars, httpVars>>)
  BY <1>10 DEF Request
<1>11. CASE UNCHANGED allVars
  BY <1>11 DEF allVars
<1> QED
  BY <1>1, <1>2, <1>3, <1>4, <1>5, <1>6, <1>7, <1>8, <1>9, <1>10, <1>11 DEF ServersNext

-----------------------------------------------------------------------------
(* The rate limiters of server/ *)

\* The meter and the credits of the bucket make up a full bucket at any time.
LimitsInv == TypeOK /\ global.last <= now /\ login.last <= now
             /\ passed + Global!Credits(global, now) = Global!Full

\* A full bucket holds a token.
LEMMA FullFacts ==
  /\ Global!Full \in Nat /\ GlobalPeriod \in Nat \ {0} /\ GlobalPeriod <= Global!Full
  /\ Login!Full \in Nat /\ LoginPeriod \in Nat \ {0}
<1>1. ASSUME NEW b \in Nat \ {0}, NEW p \in Nat \ {0} PROVE b * p \in Nat /\ p <= b * p
  <2>1. PICK n \in Nat : b = n + 1
    <3>1. b - 1 \in Nat /\ b = (b - 1) + 1
      OBVIOUS
    <3> QED
      BY <3>1
  <2>2. b * p = n * p + p /\ n * p \in Nat
    BY <2>1
  <2> QED
    BY <2>2
<1> QED
  BY <1>1, RateLimitsAssumption DEF Global!Full, Login!Full

\* The limiters start full, and nothing has passed.
LEMMA LimitsInit == Init => LimitsInv
<1> SUFFICES ASSUME Init PROVE LimitsInv
  OBVIOUS
<1>1. /\ global \in Global!Bucket /\ global.tokens = Global!Full /\ global.last = 0
      /\ login \in Login!Bucket /\ login.tokens = Login!Full /\ login.last = 0
  BY FullFacts DEF Init, Global!NewBucket, Login!NewBucket, Global!Bucket, Login!Bucket
<1>2. now = 0 /\ passed = 0 /\ logins = 0
  BY DEF Init
<1>3. Global!Credits(global, now) = Global!Full
  BY <1>1, <1>2, FullFacts DEF Global!Credits
<1>4. pc \in [Handlers -> {"idle", "login"}] /\ wronged \in BOOLEAN
  BY DEF Init
<1> QED
  BY <1>1, <1>2, <1>3, <1>4, FullFacts DEF LimitsInv, TypeOK

\* A token taken from the bucket is on the meter.
LEMMA GlobalTaken ==
  ASSUME LimitsInv, AllowGlobal
  PROVE  /\ global' \in Global!Bucket /\ global'.tokens >= 0 /\ global'.last = now
         /\ passed' \in Nat /\ passed' + Global!Credits(global', now) = Global!Full
BY FullFacts DEF LimitsInv, TypeOK, AllowGlobal, Global!MayAllow, Global!Reserve,
                 Global!TimeToAct, Global!Credits, Global!Bucket

LEMMA LoginTaken ==
  ASSUME LimitsInv, Login!MayAllow(login, now), login' = Login!Reserve(login, now)
  PROVE  login' \in Login!Bucket /\ login'.tokens >= 0 /\ login'.last = now
BY FullFacts DEF LimitsInv, TypeOK, Login!MayAllow, Login!Reserve, Login!TimeToAct,
                 Login!Credits, Login!Bucket

LEMMA LimitsStep == LimitsInv /\ [Next]_vars => LimitsInv'
<1> SUFFICES ASSUME LimitsInv, [Next]_vars PROVE LimitsInv'
  OBVIOUS
<1>1. ASSUME NEW h \in Handlers, Serve(h) PROVE LimitsInv'
  BY <1>1, GlobalTaken DEF Serve, LimitsInv, TypeOK
<1>2. ASSUME NEW h \in Handlers, ServeLogin(h) PROVE LimitsInv'
  BY <1>2, GlobalTaken DEF ServeLogin, LimitsInv, TypeOK
<1>3. ASSUME NEW h \in Handlers, Refuse(h) PROVE LimitsInv'
  BY <1>3 DEF Refuse, LimitsInv, TypeOK
<1>4. ASSUME NEW h \in Handlers, AdmitLogin(h) PROVE LimitsInv'
  BY <1>4, LoginTaken, FullFacts DEF AdmitLogin, LimitsInv, TypeOK
<1>5. ASSUME NEW h \in Handlers, RefuseLogin(h) PROVE LimitsInv'
  BY <1>5 DEF RefuseLogin, LimitsInv, TypeOK
<1>6. CASE Tick
  BY <1>6, FullFacts DEF Tick, Leak, LimitsInv, TypeOK, Global!Credits, Global!Bucket,
                         Login!Bucket
<1>7. CASE UNCHANGED vars
  BY <1>7 DEF vars, LimitsInv, TypeOK
<1> QED
  BY <1>1, <1>2, <1>3, <1>4, <1>5, <1>6, <1>7 DEF Next

\* A refusal finds less than a token, so that the meter has no room for one.
LEMMA RefusalsStep == LimitsInv /\ RefusalsAreFree /\ [Next]_vars => RefusalsAreFree'
<1> SUFFICES ASSUME LimitsInv, RefusalsAreFree, [Next]_vars PROVE RefusalsAreFree'
  OBVIOUS
<1>1. Global!Credits(global, now) \in Int
  BY FullFacts DEF LimitsInv, TypeOK, Global!Credits, Global!Bucket
<1>2. ASSUME NEW h \in Handlers, Refuse(h) PROVE RefusalsAreFree'
  BY <1>1, <1>2, FullFacts DEF Refuse, LimitsInv, TypeOK, RefusalsAreFree, Global!MayAllow
<1> QED
  BY <1>2 DEF Next, Serve, ServeLogin, AdmitLogin, RefuseLogin, Tick, vars, RefusalsAreFree

\* The global limit admits no more than its bucket allows, for any burst and rate
\* and any number of handlers, and it refuses a request only when what it let
\* pass has used up its bucket.
THEOREM GlobalLimitHolds == ServersSpec => []GlobalLimitExact
<1> DEFINE I == part = "limits" => LimitsInv /\ RefusalsAreFree
<1>1. ServersInit => I
  BY LimitsInit DEF ServersInit, Init, RefusalsAreFree
<1>2. I /\ [ServersNext]_allVars => I'
  BY StepOfPart, LimitsStep, RefusalsStep
<1>3. I => GlobalLimitExact
  BY FullFacts DEF GlobalLimitExact, GlobalBound, LimitsInv, TypeOK, Global!Credits, Global!Bucket
<1> QED
  BY <1>1, <1>2, <1>3, PTL DEF ServersSpec

-----------------------------------------------------------------------------
(* Lists read page by page: ranks *)

\* How many of S there are up to i.
Rank(S, i) == Cardinality({j \in S : j <= i})

\* The rank grows with i, and at every element of S.
LEMMA RankFacts ==
  ASSUME NEW S \in SUBSET Nat, IsFiniteSet(S)
  PROVE  /\ Cardinality(S) \in Nat
         /\ \A i \in Nat : Rank(S, i) \in 0..Cardinality(S)
         /\ \A i, k \in Nat : i <= k => Rank(S, i) <= Rank(S, k)
         /\ \A i \in Nat, k \in S : i < k => Rank(S, i) < Rank(S, k)
         /\ \A i \in S : Rank(S, i) >= 1
<1> DEFINE Up(i) == {j \in S : j <= i}
<1>0. \A j \in S : j \in Nat
  OBVIOUS
<1>1. ASSUME NEW i PROVE Up(i) \subseteq S /\ IsFiniteSet(Up(i)) /\ Rank(S, i) = Cardinality(Up(i))
  BY FS_Subset DEF Rank
<1>2. Cardinality(S) \in Nat
  BY FS_CardinalityType
<1>3. ASSUME NEW i PROVE Rank(S, i) \in 0..Cardinality(S)
  <2>1. Cardinality(Up(i)) \in Nat
    BY <1>1, FS_CardinalityType
  <2>2. Cardinality(Up(i)) <= Cardinality(S)
    BY <1>1, FS_Subset
  <2> QED
    BY <2>1, <2>2, <1>1, <1>2
<1>4. ASSUME NEW i \in Nat, NEW k \in Nat, i <= k PROVE Rank(S, i) <= Rank(S, k)
  <2>a. \A j \in S : j <= i => j <= k
    BY <1>0, <1>4
  <2>1. Up(i) \subseteq Up(k)
    BY <2>a
  <2>2. Cardinality(Up(i)) <= Cardinality(Up(k))
    BY <2>1, <1>1, FS_Subset
  <2> QED
    BY <2>2, <1>1
<1>5. ASSUME NEW i \in Nat, NEW k \in S, i < k PROVE Rank(S, i) < Rank(S, k)
  <2>a. /\ \A j \in S : j <= i => j <= k
        /\ k \in Nat /\ k <= k /\ ~(k <= i)
    BY <1>0, <1>5
  <2>1. Up(i) \subseteq Up(k) /\ k \in Up(k) /\ k \notin Up(i)
    BY <2>a
  <2>2. Cardinality(Up(i)) <= Cardinality(Up(k)) /\ Cardinality(Up(i)) # Cardinality(Up(k))
    BY <2>1, <1>1, FS_Subset
  <2> QED
    BY <2>2, <1>1, <1>3
<1>6. ASSUME NEW i \in S PROVE Rank(S, i) >= 1
  <2>1. i \in Up(i) /\ IsFiniteSet(Up(i))
    BY <1>1
  <2>2. Cardinality(Up(i)) # 0
    BY <2>1, FS_EmptySet
  <2> QED
    BY <2>2, <1>1, <1>3
<1> QED
  BY <1>2, <1>3, <1>4, <1>5, <1>6

\* Every rank is that of an element.
LEMMA RanksOnto ==
  ASSUME NEW S \in SUBSET Nat, IsFiniteSet(S)
  PROVE  \A k \in 1..Cardinality(S) : \E i \in S : Rank(S, i) = k
<1> DEFINE n == Cardinality(S)
           f == [i \in S |-> Rank(S, i)]
<1>1. n \in Nat /\ \A i \in S : i \in Nat /\ Rank(S, i) \in 1..n
  BY RankFacts
<1>2. \A i, k \in S : Rank(S, i) = Rank(S, k) => i = k
  <2>1. \A i, k \in S : i < k => Rank(S, i) < Rank(S, k)
    BY RankFacts
  <2>2. \A i, k \in S : i = k \/ i < k \/ k < i
    OBVIOUS
  <2> QED
    BY <2>1, <2>2, <1>1
<1>3. f \in Injection(S, 1..n)
  BY <1>1, <1>2 DEF Injection, IsInjective
<1>4. IsFiniteSet(1..n) /\ Cardinality(1..n) = n
  BY <1>1, FS_Interval
<1>5. f \in Surjection(S, 1..n)
  BY <1>3, <1>4, FS_Injection
<1> QED
  BY <1>5 DEF Surjection

\* Pagination's Cardinality is that of FiniteSets.
LEMMA CountedByPages ==
  \A T : Pages!Cardinality(T) = Cardinality(T)
BY Zenon DEF Pages!Cardinality, Cardinality

\* Sorted is the inverse of the rank.
LEMMA SortedFacts ==
  ASSUME NEW S \in SUBSET Nat, IsFiniteSet(S)
  PROVE  /\ Pages!Sorted(S) \in Seq(S)
         /\ Len(Pages!Sorted(S)) = Cardinality(S)
         /\ \A k \in 1..Cardinality(S) :
               /\ Pages!Sorted(S)[k] \in S
               /\ Rank(S, Pages!Sorted(S)[k]) = k
<1>1. Cardinality(S) \in Nat /\ \A T : Pages!Cardinality(T) = Cardinality(T)
  BY RankFacts, CountedByPages
<1>2. ASSUME NEW k \in 1..Cardinality(S)
      PROVE  Pages!Sorted(S)[k] \in S /\ Rank(S, Pages!Sorted(S)[k]) = k
  <2>1. Pages!Sorted(S)[k] = CHOOSE i \in S : Rank(S, i) = k
    BY <1>1 DEF Pages!Sorted, Rank
  <2>2. \E i \in S : Rank(S, i) = k
    BY RanksOnto
  <2> QED
    BY <2>1, <2>2
<1>3. DOMAIN Pages!Sorted(S) = 1..Cardinality(S)
      /\ Pages!Sorted(S) = [k \in 1..Cardinality(S) |-> Pages!Sorted(S)[k]]
  BY <1>1 DEF Pages!Sorted
<1>4. Pages!Sorted(S) \in [1..Cardinality(S) -> S]
  BY <1>2, <1>3
<1> QED
  BY <1>1, <1>2, <1>4

\* A window of a sequence.
LEMMA WindowFacts ==
  ASSUME NEW T, NEW seq \in Seq(T), NEW o \in Nat, NEW n \in Nat
  PROVE  LET w == Pages!Window(seq, o, n) IN
         /\ w \in Seq(T)
         /\ Len(w) = IF o + n <= Len(seq) THEN n ELSE IF o < Len(seq) THEN Len(seq) - o ELSE 0
         /\ \A k \in 1..Len(w) : o + k \in 1..Len(seq) /\ w[k] = seq[o + k]
<1> DEFINE m == IF o + n > Len(seq) THEN Len(seq) ELSE o + n
           w == SubSeq(seq, o + 1, m)
<1>1. Len(seq) \in Nat /\ m \in Nat /\ m <= Len(seq)
  OBVIOUS
<1>2. Pages!Window(seq, o, n) = w
  BY DEF Pages!Window
<1>3. Len(w) = IF o + 1 <= m THEN m - o ELSE 0
  BY <1>1, SubSeqProperties
<1>4. w \in Seq(T)
  BY <1>1, SubSeqProperties
<1>5. \A k \in 1..Len(w) : o + k \in 1..Len(seq) /\ w[k] = seq[o + k]
  BY <1>1, <1>3, SubSeqProperties
<1> QED
  BY <1>1, <1>2, <1>3, <1>4, <1>5

\* The window of n from o of the elements of S in ascending order: those whose
\* rank is in o+1..o+n, in this order.
LEMMA PageFacts ==
  ASSUME NEW S \in SUBSET Nat, IsFiniteSet(S), NEW o \in Nat, NEW n \in Nat
  PROVE  LET w == Pages!Window(Pages!Sorted(S), o, n) IN
         /\ w \in Seq(S)
         /\ Len(w) <= n
         /\ Cardinality(S) <= o + n => \A i \in S : Rank(S, i) <= o + n
         /\ Len(w) < n => \A i \in S : Rank(S, i) < o + n
         /\ \A k \in 1..Len(w) : w[k] \in S /\ Rank(S, w[k]) = o + k
         /\ \A i \in S : o < Rank(S, i) /\ Rank(S, i) <= o + n =>
               \E k \in 1..Len(w) : w[k] = i
<1> DEFINE seq == Pages!Sorted(S)
           w == Pages!Window(seq, o, n)
<1>1. seq \in Seq(S) /\ Len(seq) = Cardinality(S) /\ Cardinality(S) \in Nat
      /\ \A k \in 1..Cardinality(S) : seq[k] \in S /\ Rank(S, seq[k]) = k
  BY SortedFacts, RankFacts
<1> HIDE DEF seq
<1>2. /\ w \in Seq(S)
      /\ Len(w) = IF o + n <= Len(seq) THEN n ELSE IF o < Len(seq) THEN Len(seq) - o ELSE 0
      /\ \A k \in 1..Len(w) : o + k \in 1..Len(seq) /\ w[k] = seq[o + k]
  BY <1>1, WindowFacts, Zenon
<1> HIDE DEF w
<1>3. \A i \in S : Rank(S, i) \in 1..Cardinality(S)
  BY RankFacts
<1>4. ASSUME NEW i \in S, o < Rank(S, i), Rank(S, i) <= o + n
      PROVE  \E k \in 1..Len(w) : w[k] = i
  <2>1. Rank(S, i) - o \in 1..Len(w)
    BY <1>1, <1>2, <1>3, <1>4
  <2>2. w[Rank(S, i) - o] = seq[Rank(S, i)]
    <3>1. Rank(S, i) \in Nat /\ o + (Rank(S, i) - o) = Rank(S, i)
      BY <1>1, <1>3
    <3> QED
      BY <2>1, <1>2, <3>1
  <2>3. seq[Rank(S, i)] \in S /\ Rank(S, seq[Rank(S, i)]) = Rank(S, i)
    BY <1>1, <1>3
  <2>4. /\ i \in Nat /\ seq[Rank(S, i)] \in Nat
        /\ i < seq[Rank(S, i)] => Rank(S, i) < Rank(S, seq[Rank(S, i)])
        /\ seq[Rank(S, i)] < i => Rank(S, seq[Rank(S, i)]) < Rank(S, i)
    BY <2>3, RankFacts
  <2>5. seq[Rank(S, i)] = i
    BY <2>3, <2>4, <1>1, <1>3
  <2> QED
    BY <2>1, <2>2, <2>5
<1> QED
  BY <1>1, <1>2, <1>3, <1>4 DEF w, seq

\* The first n of S, and the first n of a sequence.
LEMMA FirstsFacts ==
  ASSUME NEW S \in SUBSET Nat, IsFiniteSet(S), NEW n \in Nat
  PROVE  LET w == Pages!Window(Pages!Sorted(S), 0, n) IN
         /\ w \in Seq(S)
         /\ Len(w) <= n
         /\ Len(w) < n => \A i \in S : Rank(S, i) < n
         /\ \A k \in 1..Len(w) : w[k] \in S /\ Rank(S, w[k]) = k
         /\ \A i \in S : Rank(S, i) <= n => \E k \in 1..Len(w) : w[k] = i
<1> DEFINE w == Pages!Window(Pages!Sorted(S), 0, n)
<1>1. 0 \in Nat
  OBVIOUS
<1>2. /\ w \in Seq(S)
      /\ Len(w) <= n
      /\ Len(w) < n => \A i \in S : Rank(S, i) < 0 + n
      /\ \A k \in 1..Len(w) : w[k] \in S /\ Rank(S, w[k]) = 0 + k
      /\ \A i \in S : 0 < Rank(S, i) /\ Rank(S, i) <= 0 + n =>
             \E k \in 1..Len(w) : w[k] = i
  BY <1>1, PageFacts, Zenon
<1> HIDE DEF w
<1>3. Len(w) \in Nat
  BY <1>2
<1>4. \A i \in S : Rank(S, i) \in Nat /\ Rank(S, i) >= 1
  <2>1. Cardinality(S) \in Nat /\ \A i \in S : i \in Nat
    BY RankFacts
  <2> QED
    BY <2>1, RankFacts
<1>5. \A k \in 1..Len(w) : 0 + k = k
  BY <1>3
<1>6. \A i \in S : Rank(S, i) <= n => \E k \in 1..Len(w) : w[k] = i
  BY <1>2, <1>4
<1>7. \A k \in 1..Len(w) : w[k] \in S /\ Rank(S, w[k]) = k
  BY <1>2, <1>5
<1>8. Len(w) < n => \A i \in S : Rank(S, i) < n
  BY <1>2
<1> QED
  BY <1>2, <1>6, <1>7, <1>8 DEF w

LEMMA PrefixFacts ==
  ASSUME NEW T, NEW seq \in Seq(T), NEW n \in Nat
  PROVE  LET w == Pages!Window(seq, 0, n) IN
         /\ w \in Seq(T)
         /\ Len(w) = IF n <= Len(seq) THEN n ELSE Len(seq)
         /\ \A k \in 1..Len(w) : k \in 1..Len(seq) /\ w[k] = seq[k]
<1> DEFINE w == Pages!Window(seq, 0, n)
<1>1. 0 \in Nat /\ Len(seq) \in Nat
  OBVIOUS
<1>2. /\ w \in Seq(T)
      /\ Len(w) = IF 0 + n <= Len(seq) THEN n
                  ELSE IF 0 < Len(seq) THEN Len(seq) - 0 ELSE 0
      /\ \A k \in 1..Len(w) : 0 + k \in 1..Len(seq) /\ w[k] = seq[0 + k]
  BY <1>1, WindowFacts, Zenon
<1> HIDE DEF w
<1>3. Len(w) = IF n <= Len(seq) THEN n ELSE Len(seq)
  BY <1>1, <1>2
<1>4. \A k \in 1..Len(w) : 0 + k = k
  BY <1>1, <1>3
<1>5. \A k \in 1..Len(w) : k \in 1..Len(seq) /\ w[k] = seq[k]
  BY <1>2, <1>4
<1> QED
  BY <1>2, <1>3, <1>5 DEF w

\* One that is larger than all of S leaves their ranks, one that is taken out
\* of S lowers those of the larger ones.
LEMMA RankOfMore ==
  ASSUME NEW S \in SUBSET Nat, NEW n \in Nat, \A j \in S : j < n
  PROVE  \A i \in S : Rank(S \cup {n}, i) = Rank(S, i)
<1>1. ASSUME NEW i \in S PROVE {j \in S \cup {n} : j <= i} = {j \in S : j <= i}
  OBVIOUS
<1> QED
  BY <1>1 DEF Rank

LEMMA RankOfFewer ==
  ASSUME NEW S \in SUBSET Nat, IsFiniteSet(S), NEW d \in S, NEW i \in S \ {d}
  PROVE  Rank(S \ {d}, i) = IF d < i THEN Rank(S, i) - 1 ELSE Rank(S, i)
<1> DEFINE Up == {j \in S : j <= i}
<1>1. {j \in S \ {d} : j <= i} = Up \ {d} /\ d \in Nat /\ i \in Nat
  OBVIOUS
<1>2. IsFiniteSet(Up)
  BY FS_Subset
<1>3. d \in Up <=> d < i
  BY <1>1
<1>4. /\ Rank(S, i) = Cardinality(Up)
      /\ Rank(S \ {d}, i) = Cardinality(Up \ {d})
  BY <1>1 DEF Rank
<1>5. Cardinality(Up \ {d}) = IF d \in Up THEN Cardinality(Up) - 1 ELSE Cardinality(Up)
  BY <1>2, FS_RemoveElement
<1> QED
  BY <1>3, <1>4, <1>5

-----------------------------------------------------------------------------
(* Lists read page by page: the invariant of a walk *)

\* The walk is not at its end, and where it goes on.
Underway == walk \in {"asked", "counted"} \/ (walk = "page" /\ link # 0)
Position == IF walk = "page" THEN link ELSE at

\* The walk has come past i.
Offset == IF server = "page" THEN (Position - 1) * size ELSE Position
Past(i) == IF server = "cursor" THEN i <= Position ELSE Rank(todos, i) <= Offset

\* The todos there from the beginning that the walk has come past without
\* seeing them.
Missed ==
    {i \in (before \cap todos) \ Pages!ToSet(got) :
        \/ Underway /\ Past(i)
        \/ walk = "enough" /\ i < Pages!Last(got)
        \/ walk = "all"
        \/ walk = "page" /\ link = 0}

\* What was seen is in order and is before all that is still to come; nothing
\* is missed but for what deletions moved back.
PagesInv ==
    /\ Pages!TypeOK
    /\ before \subseteq 1..(nextId - 1)
    /\ \A k \in 1..Len(got) : got[k] < nextId
    /\ \A j, k \in 1..Len(got) : j < k => got[j] < got[k]
    /\ server = "page" /\ Underway => Position >= 1
    /\ walk = "idle" => got = <<>>
    /\ walk = "enough" => Len(got) = Wanted
    /\ Underway => \A i \in todos : ~Past(i) => \A k \in 1..Len(got) : got[k] < i
    /\ server = "offset" /\ walk = "counted" =>
           \A i \in before \cap todos : Rank(todos, i) <= total
    /\ Cardinality(Missed) <= deleted

LEMMA PagesFacts ==
  ASSUME PagesInv
  PROVE  /\ MaxTodos \in Nat /\ MaxSize \in Nat /\ Wanted \in Nat \ {0}
         /\ nextId \in Nat /\ nextId >= 1
         /\ todos \in SUBSET Nat /\ IsFiniteSet(todos) /\ \A i \in todos : 1 <= i /\ i < nextId
         /\ before \in SUBSET Nat /\ \A i \in before : 1 <= i /\ i < nextId
         /\ at \in Nat /\ size \in Nat /\ size >= 1 /\ total \in Nat /\ link \in Nat
         /\ Position \in Nat
         /\ Underway => Offset \in Nat
         /\ got \in Seq(Nat) /\ Len(got) \in Nat /\ \A k \in 1..Len(got) : got[k] \in Nat
         /\ Pages!ToSet(got) = {got[k] : k \in 1..Len(got)}
         /\ IsFiniteSet(Missed) /\ Cardinality(Missed) \in Nat /\ deleted \in Nat
<1>1. /\ MaxTodos \in Nat /\ MaxSize \in Nat /\ Wanted \in Nat \ {0}
      /\ nextId \in Nat /\ nextId >= 1
      /\ todos \in SUBSET Nat /\ \A i \in todos : 1 <= i /\ i < nextId
      /\ before \in SUBSET Nat /\ \A i \in before : 1 <= i /\ i < nextId
      /\ at \in Nat /\ size \in Nat /\ size >= 1 /\ total \in Nat /\ link \in Nat
      /\ deleted \in Nat
  BY PaginationAssumption DEF PagesInv, Pages!TypeOK, Pages!Ids
<1>2. got \in Seq(Nat) /\ Len(got) \in Nat /\ \A k \in 1..Len(got) : got[k] \in Nat
  BY <1>1 DEF PagesInv, Pages!TypeOK, Pages!Ids
<1>3. Pages!ToSet(got) = {got[k] : k \in 1..Len(got)}
  BY <1>2 DEF Pages!ToSet
<1>4. IsFiniteSet(todos)
  <2>1. todos \in SUBSET (1..nextId) /\ IsFiniteSet(1..nextId)
    BY <1>1, FS_Interval
  <2> QED
    BY <2>1, FS_Subset
<1>5. IsFiniteSet(Missed) /\ Cardinality(Missed) \in Nat
  <2>1. Missed \in SUBSET todos
    BY DEF Missed
  <2> QED
    BY <2>1, <1>4, FS_Subset, FS_CardinalityType
<1>6. Position \in Nat
  BY <1>1 DEF Position
<1>7. Underway => Offset \in Nat
  <2>1. CASE server = "page" /\ Underway
    <3>1. Position - 1 \in Nat
      BY <2>1, <1>6 DEF PagesInv
    <3> QED
      BY <2>1, <3>1, <1>1 DEF Offset
  <2>2. CASE server # "page"
    BY <2>2, <1>6 DEF Offset
  <2> QED
    BY <2>1, <2>2
<1> QED
  BY <1>1, <1>2, <1>3, <1>4, <1>5, <1>6, <1>7

\* The ranks of the todos.
LEMMA TodoRanks ==
  ASSUME PagesInv
  PROVE  /\ Cardinality(todos) \in Nat
         /\ \A i \in todos : /\ Rank(todos, i) \in Nat /\ Rank(todos, i) >= 1
                             /\ Rank(todos, i) <= Cardinality(todos)
         /\ \A i, k \in todos : Rank(todos, i) <= Rank(todos, k) <=> i <= k
<1>1. Cardinality(todos) \in Nat
  BY PagesFacts, RankFacts
<1>2. ASSUME NEW i \in todos
      PROVE  /\ i \in Nat /\ Rank(todos, i) \in Nat /\ Rank(todos, i) >= 1
             /\ Rank(todos, i) <= Cardinality(todos)
  <2>1. i \in Nat /\ todos \in SUBSET Nat /\ IsFiniteSet(todos)
    BY PagesFacts
  <2>2. Rank(todos, i) \in 0..Cardinality(todos) /\ Rank(todos, i) >= 1
    BY <2>1, RankFacts
  <2> QED
    BY <2>1, <2>2, <1>1
<1>3. ASSUME NEW i \in todos, NEW k \in todos
      PROVE  Rank(todos, i) <= Rank(todos, k) <=> i <= k
  <2>1. todos \in SUBSET Nat /\ IsFiniteSet(todos)
    BY PagesFacts
  <2>2. i <= k => Rank(todos, i) <= Rank(todos, k)
    BY <2>1, <1>2, RankFacts
  <2>3. k < i => Rank(todos, k) < Rank(todos, i)
    BY <2>1, <1>2, RankFacts
  <2> QED
    BY <2>2, <2>3, <1>2
<1> QED
  BY <1>1, <1>2, <1>3

\* No more is missed when what is missed was so before.
LEMMA NoMoreMissed ==
  ASSUME PagesInv, Missed' \subseteq Missed, deleted' = deleted
  PROVE  Cardinality(Missed') <= deleted'
<1>1. Cardinality(Missed') <= Cardinality(Missed)
  BY PagesFacts, FS_Subset
<1>2. Cardinality(Missed') \in Nat
  BY PagesFacts, FS_Subset, FS_CardinalityType
<1>3. Cardinality(Missed) \in Nat /\ deleted \in Nat /\ Cardinality(Missed) <= deleted
  BY PagesFacts DEF PagesInv
<1> QED
  BY <1>1, <1>2, <1>3

-----------------------------------------------------------------------------
(* Lists read page by page: the store *)

LEMMA AddStep ==
  ASSUME PagesInv, Pages!Add
  PROVE  PagesInv'
<1> USE DEF Pages!Add, Pages!walk
<1>1. /\ nextId <= MaxTodos /\ todos' = todos \cup {nextId} /\ nextId' = nextId + 1
      /\ server' = server /\ at' = at /\ size' = size /\ total' = total /\ link' = link
      /\ got' = got /\ walk' = walk /\ before' = before /\ deleted' = deleted
  OBVIOUS
<1>2. \A i \in todos : Rank(todos, i)' = Rank(todos, i)
  <2>1. \A i : Rank(todos, i)' = Rank(todos \cup {nextId}, i)
    BY <1>1 DEF Rank
  <2>2. todos \in SUBSET Nat /\ nextId \in Nat /\ \A j \in todos : j < nextId
    BY PagesFacts
  <2> QED
    BY <2>1, <2>2, RankOfMore
<1>3. /\ Position' = Position /\ Offset' = Offset /\ (Underway' <=> Underway)
      /\ \A i \in todos : Past(i)' <=> Past(i)
  BY <1>1, <1>2 DEF Position, Offset, Underway, Past
<1>4. nextId \notin before /\ before \cap todos' = before \cap todos
  BY <1>1, PagesFacts
<1>5. Pages!ToSet(got)' = Pages!ToSet(got) /\ Pages!Last(got)' = Pages!Last(got)
  BY <1>1
<1>6. Missed' \subseteq Missed
  BY <1>1, <1>3, <1>4, <1>5 DEF Missed
<1>7. Pages!TypeOK'
  BY <1>1, PagesFacts DEF PagesInv, Pages!TypeOK, Pages!Ids
<1>8. \A k \in 1..Len(got) : got[k] < nextId /\ got[k] < nextId + 1
  <2>1. \A k \in 1..Len(got) : got[k] < nextId
    BY DEF PagesInv
  <2>2. nextId \in Nat /\ \A k \in 1..Len(got) : got[k] \in Nat
    BY PagesFacts
  <2> QED
    BY <2>1, <2>2
<1>9. Underway' => \A i \in todos' : ~Past(i)' => \A k \in 1..Len(got) : got[k] < i
  BY <1>1, <1>3, <1>8 DEF PagesInv
<1>10. server' = "offset" /\ walk' = "counted" =>
           \A i \in before' \cap todos' : Rank(todos, i)' <= total'
  BY <1>1, <1>2, <1>4 DEF PagesInv
<1>11. before' \subseteq 1..(nextId' - 1)
  BY <1>1, PagesFacts
<1>12. Cardinality(Missed') <= deleted'
  BY <1>1, <1>6, NoMoreMissed
<1> QED
  BY <1>1, <1>3, <1>7, <1>8, <1>9, <1>10, <1>11, <1>12 DEF PagesInv

LEMMA DeleteStep ==
  ASSUME PagesInv, NEW d, Pages!Delete(d)
  PROVE  PagesInv'
<1>1. /\ server = "offset" /\ d \in todos /\ todos' = todos \ {d}
      /\ deleted' = IF walk = "idle" THEN 0 ELSE deleted + 1
      /\ server' = server /\ nextId' = nextId
      /\ at' = at /\ size' = size /\ total' = total /\ link' = link
      /\ got' = got /\ walk' = walk /\ before' = before
  BY DEF Pages!Delete, Pages!walk
<1>2. ASSUME NEW i \in todos'
      PROVE  /\ Rank(todos, i)' \in Nat /\ Rank(todos, i) \in Nat
             /\ Rank(todos, i)' <= Rank(todos, i) /\ Rank(todos, i) <= Rank(todos, i)' + 1
  <2>1. Rank(todos, i)' = IF d < i THEN Rank(todos, i) - 1 ELSE Rank(todos, i)
    <3>1. Rank(todos, i)' = Rank(todos \ {d}, i)
      BY <1>1 DEF Rank
    <3>2. todos \in SUBSET Nat /\ IsFiniteSet(todos) /\ d \in todos /\ i \in todos \ {d}
      BY <1>1, PagesFacts
    <3> QED
      BY <3>1, <3>2, RankOfFewer
  <2>2. Rank(todos, i) \in Nat /\ Rank(todos, i) >= 1
    BY <1>1, TodoRanks
  <2> QED
    BY <2>1, <2>2
<1>3. Position' = Position /\ Offset' = Offset /\ Offset = Position /\ (Underway' <=> Underway)
  BY <1>1 DEF Position, Offset, Underway
<1>4. \A i \in todos' : /\ Past(i)' <=> Rank(todos, i)' <= Offset
                        /\ Past(i) <=> Rank(todos, i) <= Offset
  BY <1>1, <1>3 DEF Past
<1>5. \A i \in todos' : Past(i) => Past(i)'
  BY <1>2, <1>3, <1>4, PagesFacts
<1>6. Pages!ToSet(got)' = Pages!ToSet(got) /\ Pages!Last(got)' = Pages!Last(got)
  BY <1>1
<1>7. Pages!TypeOK'
  BY <1>1, PagesFacts DEF PagesInv, Pages!TypeOK, Pages!Ids
<1>8. Cardinality(Missed') <= deleted'
  <2>1. CASE walk = "idle"
    <3>1. Missed' = {}
      BY <1>1, <2>1 DEF Missed, Underway
    <3> QED
      BY <1>1, <2>1, <3>1, FS_EmptySet
  <2>2. CASE walk # "idle" /\ \E x \in todos : Rank(todos, x) = Offset + 1
    <3>1. PICK x \in todos : Rank(todos, x) = Offset + 1
      BY <2>2
    <3>2. \A i \in todos : Rank(todos, i) = Rank(todos, x) => i = x
      <4> SUFFICES ASSUME NEW i \in todos, Rank(todos, i) = Rank(todos, x)
                   PROVE  i = x
        OBVIOUS
      <4>1. i <= x /\ x <= i
        BY TodoRanks
      <4> QED
        BY <4>1, PagesFacts
    <3>3. \A i \in todos' : Past(i)' /\ ~Past(i) => i = x
      <4> SUFFICES ASSUME NEW i \in todos', Past(i)', ~Past(i)
                   PROVE  i = x
        OBVIOUS
      <4>1. Rank(todos, i) = Offset + 1
        <5>1. Offset \in Nat
          BY <1>3, PagesFacts
        <5> QED
          BY <5>1, <1>2, <1>3, <1>4
      <4> QED
        BY <4>1, <3>1, <3>2, <1>1
    <3>4. Missed' \subseteq Missed \cup {x}
      BY <1>1, <1>3, <1>6, <3>3 DEF Missed
    <3>5. Cardinality(Missed \cup {x}) <= deleted + 1 /\ IsFiniteSet(Missed \cup {x})
      <4>1. Cardinality(Missed) <= deleted
        BY DEF PagesInv
      <4>2. /\ IsFiniteSet(Missed \cup {x})
            /\ Cardinality(Missed \cup {x}) =
                   IF x \in Missed THEN Cardinality(Missed) ELSE Cardinality(Missed) + 1
        BY PagesFacts, FS_AddElement
      <4> QED
        BY <4>1, <4>2, PagesFacts
    <3>6. Cardinality(Missed') <= Cardinality(Missed \cup {x})
      BY <3>4, <3>5, FS_Subset
    <3>7. Cardinality(Missed') \in Nat /\ Cardinality(Missed \cup {x}) \in Nat
      BY <3>4, <3>5, FS_Subset, FS_CardinalityType
    <3> QED
      BY <1>1, <2>2, <3>5, <3>6, <3>7, PagesFacts
  <2>3. CASE walk # "idle" /\ ~\E x \in todos : Rank(todos, x) = Offset + 1
    <3>1. \A i \in todos' : Underway /\ Past(i)' => Past(i)
      <4> SUFFICES ASSUME NEW i \in todos', Underway, Past(i)', ~Past(i)
                   PROVE  FALSE
        OBVIOUS
      <4>1. Rank(todos, i) = Offset + 1
        <5>1. Offset \in Nat
          BY <1>3, PagesFacts
        <5> QED
          BY <5>1, <1>2, <1>3, <1>4
      <4> QED
        BY <4>1, <2>3, <1>1
    <3>2. Missed' \subseteq Missed
      BY <1>1, <1>3, <1>6, <3>1 DEF Missed
    <3>3. Cardinality(Missed') <= Cardinality(Missed) /\ Cardinality(Missed') \in Nat
      BY <3>2, PagesFacts, FS_Subset, FS_CardinalityType
    <3>4. /\ Cardinality(Missed) \in Nat /\ deleted \in Nat
          /\ Cardinality(Missed) <= deleted
      BY PagesFacts DEF PagesInv
    <3> QED
      BY <1>1, <2>3, <3>3, <3>4
  <2> QED
    BY <2>1, <2>2, <2>3
<1>9. walk = "counted" => \A i \in before \cap todos' : Rank(todos, i)' <= total
  <2> SUFFICES ASSUME walk = "counted", NEW i \in before \cap todos'
               PROVE  Rank(todos, i)' <= total
    OBVIOUS
  <2>1. Rank(todos, i) <= total
    BY <1>1 DEF PagesInv
  <2> QED
    BY <2>1, <1>2, PagesFacts
<1>10. Underway' => \A i \in todos' : ~Past(i)' => \A k \in 1..Len(got) : got[k] < i
  BY <1>1, <1>3, <1>5 DEF PagesInv
<1> QED
  BY <1>1, <1>3, <1>7, <1>8, <1>9, <1>10 DEF PagesInv

LEMMA CountStep ==
  ASSUME PagesInv, Pages!Count
  PROVE  PagesInv'
<1>1. /\ server = "offset" /\ walk = "asked" /\ total' = Cardinality(todos) /\ walk' = "counted"
      /\ server' = server /\ nextId' = nextId /\ todos' = todos
      /\ at' = at /\ size' = size /\ link' = link
      /\ got' = got /\ before' = before /\ deleted' = deleted
  BY CountedByPages DEF Pages!Count
<1>2. Position' = Position /\ Offset' = Offset /\ Underway /\ Underway'
  BY <1>1 DEF Position, Offset, Underway
<1>3. \A i : Past(i)' <=> Past(i)
  BY <1>1, <1>2 DEF Past, Rank
<1>4. Missed' = Missed
  BY <1>1, <1>2, <1>3 DEF Missed
<1>5. \A i \in todos : Rank(todos, i) <= Cardinality(todos)
  BY TodoRanks
<1>6. Cardinality(todos) \in 0..MaxTodos
  <2>1. todos \in SUBSET (1..MaxTodos) /\ IsFiniteSet(1..MaxTodos)
        /\ Cardinality(1..MaxTodos) = MaxTodos
    <3>1. nextId \in 1..(MaxTodos + 1) /\ MaxTodos \in Nat
      BY PagesFacts DEF PagesInv, Pages!TypeOK
    <3>2. \A i \in todos : i \in 1..MaxTodos
      BY <3>1, PagesFacts
    <3> QED
      BY <3>1, <3>2, FS_Interval
  <2>2. Cardinality(todos) \in Nat
    BY PagesFacts, FS_CardinalityType
  <2>3. Cardinality(todos) <= Cardinality(1..MaxTodos)
    BY <2>1, FS_Subset
  <2> QED
    BY <2>1, <2>2, <2>3, PagesFacts
<1>7. Pages!TypeOK'
  BY <1>1, <1>6 DEF PagesInv, Pages!TypeOK
<1>8. \A i \in todos : Rank(todos, i)' = Rank(todos, i)
  BY <1>1 DEF Rank
<1> QED
  BY <1>1, <1>2, <1>3, <1>4, <1>5, <1>7, <1>8 DEF PagesInv

-----------------------------------------------------------------------------
(* Lists read page by page: the servers *)

\* A page that brings the todos up to a new position in order.
LEMMA AnswerStep ==
  ASSUME PagesInv, walk \in {"asked", "counted"},
         NEW items \in Seq(todos), NEW next \in Nat, Pages!Answer(items, next),
         \A j, k \in 1..Len(items) : j < k => items[j] < items[k],
         \A k \in 1..Len(items) : ~Past(items[k]),
         next # 0 => \A i \in todos :
             /\ Past(i)' => Past(i) \/ \E k \in 1..Len(items) : items[k] = i
             /\ ~Past(i)' => ~Past(i) /\ \A k \in 1..Len(items) : items[k] < i,
         next = 0 => \A i \in before \cap todos :
             Past(i) \/ \E k \in 1..Len(items) : items[k] = i
  PROVE  PagesInv'
<1>1. /\ got' = got \o items /\ link' = next /\ walk' = "page"
      /\ server' = server /\ nextId' = nextId /\ todos' = todos
      /\ at' = at /\ size' = size /\ total' = total
      /\ before' = before /\ deleted' = deleted
  BY DEF Pages!Answer
<1>2. /\ got \in Seq(Nat) /\ items \in Seq(Nat) /\ got \in Seq(1..MaxTodos)
      /\ items \in Seq(1..MaxTodos)
  <2>1. todos \subseteq 1..MaxTodos /\ todos \subseteq Nat
    <3>1. nextId \in 1..(MaxTodos + 1) /\ MaxTodos \in Nat
      BY PagesFacts DEF PagesInv, Pages!TypeOK
    <3>2. \A i \in todos : i \in Nat /\ 1 <= i /\ i < nextId
      BY PagesFacts
    <3> QED
      BY <3>1, <3>2
  <2>2. got \in Seq(1..MaxTodos)
    BY DEF PagesInv, Pages!TypeOK, Pages!Ids
  <2>3. items \in Seq(1..MaxTodos) /\ items \in Seq(Nat)
    BY <2>1, SeqMonotonic
  <2> QED
    BY <2>2, <2>3, PagesFacts
<1>3. /\ Len(got) \in Nat /\ Len(items) \in Nat /\ Len(got') = Len(got) + Len(items)
      /\ \A k \in 1..Len(got) : got'[k] = got[k]
      /\ \A k \in 1..Len(items) : got'[Len(got) + k] = items[k]
      /\ \A k \in 1..Len(got') : \/ k \in 1..Len(got)
                                 \/ k - Len(got) \in 1..Len(items)
                                    /\ got'[k] = items[k - Len(got)]
  BY <1>1, <1>2
<1>4. \A k \in 1..Len(items) : items[k] \in todos /\ items[k] \in Nat /\ items[k] < nextId
  <2>1. \A i \in todos : i \in Nat /\ i < nextId
    BY PagesFacts
  <2>2. \A k \in 1..Len(items) : items[k] \in todos
    OBVIOUS
  <2> QED
    BY <2>1, <2>2
<1>5. \A k \in 1..Len(got) : got[k] \in Nat /\ got[k] < nextId
  BY PagesFacts DEF PagesInv
<1>6. Underway /\ Position = at
  BY DEF Underway, Position
<1>7. \A j \in 1..Len(got), k \in 1..Len(items) : got[j] < items[k]
  BY <1>4, <1>6 DEF PagesInv
<1>8. \A k \in 1..Len(got') : got'[k] < nextId
  BY <1>3, <1>4, <1>5
<1>9. ASSUME NEW j \in 1..Len(got'), NEW k \in 1..Len(got'), j < k
      PROVE  got'[j] < got'[k]
  <2>1. CASE k \in 1..Len(got)
    <3>1. j \in 1..Len(got)
      BY <1>3, <1>9, <2>1
    <3> QED
      BY <1>3, <1>9, <2>1, <3>1 DEF PagesInv
  <2>2. CASE k \notin 1..Len(got) /\ j \in 1..Len(got)
    BY <1>3, <1>7, <2>2
  <2>3. CASE k \notin 1..Len(got) /\ j \notin 1..Len(got)
    <3>1. j - Len(got) < k - Len(got)
      BY <1>3, <1>9
    <3> QED
      BY <1>3, <2>3, <3>1
  <2> QED
    BY <2>1, <2>2, <2>3
<1>10. Pages!TypeOK'
  <2>1. got' \in Seq(1..MaxTodos)
    BY <1>1, <1>2
  <2> QED
    BY <1>1, <2>1 DEF PagesInv, Pages!TypeOK, Pages!Ids
<1>11. Pages!ToSet(got)' = Pages!ToSet(got) \cup {items[k] : k \in 1..Len(items)}
  <2>1. Pages!ToSet(got)' = {got'[k] : k \in 1..Len(got')}
    <3>1. got' \in Seq(Nat)
      BY <1>1, <1>2
    <3> QED
      BY <3>1 DEF Pages!ToSet
  <2>2. Pages!ToSet(got) = {got[k] : k \in 1..Len(got)}
    BY PagesFacts
  <2>3. \A k \in 1..Len(items) : Len(got) + k \in 1..Len(got')
    BY <1>3
  <2>4. \A k \in 1..Len(got) : k \in 1..Len(got')
    BY <1>3
  <2>5. \A k \in 1..Len(got') :
            \/ \E j \in 1..Len(got) : got'[k] = got[j]
            \/ \E j \in 1..Len(items) : got'[k] = items[j]
    BY <1>3
  <2>6. /\ \A j \in 1..Len(got) : \E k \in 1..Len(got') : got'[k] = got[j]
        /\ \A j \in 1..Len(items) : \E k \in 1..Len(got') : got'[k] = items[j]
    BY <2>3, <2>4, <1>3
  <2> DEFINE B == {items[k] : k \in 1..Len(items)}
  <2>7. ASSUME NEW k \in 1..Len(got') PROVE got'[k] \in Pages!ToSet(got) \cup B
    <3>1. CASE \E j \in 1..Len(got) : got'[k] = got[j]
      BY <3>1, <2>2
    <3>2. CASE \E j \in 1..Len(items) : got'[k] = items[j]
      BY <3>2
    <3> QED
      BY <3>1, <3>2, <2>5
  <2>8. \A x \in Pages!ToSet(got) : x \in Pages!ToSet(got)'
    BY <2>1, <2>2, <2>6
  <2>9. \A x \in B : x \in Pages!ToSet(got)'
    BY <2>1, <2>6
  <2> QED
    BY <2>1, <2>7, <2>8, <2>9
<1>12. Underway' <=> next # 0
  BY <1>1 DEF Underway
<1>13. Missed' \subseteq Missed
  <2> SUFFICES ASSUME NEW i \in Missed'
               PROVE  i \in Missed
    OBVIOUS
  <2>1. i \in before \cap todos /\ i \notin Pages!ToSet(got)'
        /\ (next # 0 => Past(i)')
    BY <1>1, <1>12 DEF Missed
  <2>2. i \notin Pages!ToSet(got) /\ ~\E k \in 1..Len(items) : items[k] = i
    BY <2>1, <1>11
  <2>3. Past(i)
    BY <2>1, <2>2
  <2> QED
    BY <1>6, <2>1, <2>2, <2>3 DEF Missed
<1>14. Cardinality(Missed') <= deleted'
  BY <1>1, <1>13, NoMoreMissed
<1>15. Underway' => \A i \in todos' : ~Past(i)' => \A k \in 1..Len(got') : got'[k] < i
  <2> SUFFICES ASSUME next # 0, NEW i \in todos, ~Past(i)', NEW k \in 1..Len(got')
               PROVE  got'[k] < i
    BY <1>1, <1>12
  <2>1. ~Past(i) /\ \A j \in 1..Len(items) : items[j] < i
    OBVIOUS
  <2>2. \A j \in 1..Len(got) : got[j] < i
    BY <2>1, <1>6 DEF PagesInv
  <2> QED
    BY <2>1, <2>2, <1>3
<1>16. server' = "page" /\ Underway' => Position' >= 1
  BY <1>1, <1>12 DEF Position
<1> QED
  BY <1>1, <1>8, <1>9, <1>10, <1>14, <1>15, <1>16 DEF PagesInv

\* The page is the window of size todos from the walk's offset, and the next
\* offset is that of the end of the window.
LEMMA OffsetStep ==
  ASSUME PagesInv, walk \in {"asked", "counted"}, server # "cursor", NEW next \in Nat,
         Pages!Answer(Pages!Window(Pages!Sorted(todos), Offset, size), next),
         next # 0 => Offset' = Offset + size,
         next = 0 => \A i \in before \cap todos : Rank(todos, i) <= Offset + size
  PROVE  PagesInv'
<1> DEFINE items == Pages!Window(Pages!Sorted(todos), Offset, size)
<1>1. /\ todos' = todos /\ server' = server
  BY DEF Pages!Answer
<1>2. Offset \in Nat /\ size \in Nat /\ size >= 1 /\ todos \in SUBSET Nat /\ IsFiniteSet(todos)
  BY PagesFacts DEF Underway
<1>3. /\ items \in Seq(todos)
      /\ \A k \in 1..Len(items) : items[k] \in todos /\ Rank(todos, items[k]) = Offset + k
      /\ \A i \in todos : Offset < Rank(todos, i) /\ Rank(todos, i) <= Offset + size =>
             \E k \in 1..Len(items) : items[k] = i
      /\ Len(items) <= size
  BY <1>2, PageFacts
<1> HIDE DEF items
<1>4. \A i \in todos : /\ Past(i) <=> Rank(todos, i) <= Offset
                       /\ Past(i)' <=> Rank(todos, i) <= Offset'
  BY <1>1 DEF Past, Rank
<1>5. \A i \in todos : Rank(todos, i) \in Nat
  BY TodoRanks
<1>6. \A i, k \in todos : i \in Nat /\ (Rank(todos, i) < Rank(todos, k) => i < k)
  <2> SUFFICES ASSUME NEW i \in todos, NEW k \in todos
               PROVE  i \in Nat /\ (Rank(todos, i) < Rank(todos, k) => i < k)
    OBVIOUS
  <2>1. i \in Nat /\ k \in Nat /\ (k <= i => Rank(todos, k) <= Rank(todos, i))
    BY TodoRanks, <1>2
  <2> QED
    BY <2>1, <1>5
<1>7. Len(items) \in Nat
  BY <1>3
<1>8. \A j, k \in 1..Len(items) : j < k => items[j] < items[k]
  <2> SUFFICES ASSUME NEW j \in 1..Len(items), NEW k \in 1..Len(items), j < k
               PROVE  items[j] < items[k]
    OBVIOUS
  <2>1. /\ items[j] \in todos /\ Rank(todos, items[j]) = Offset + j
        /\ items[k] \in todos /\ Rank(todos, items[k]) = Offset + k
    BY <1>3
  <2>2. Rank(todos, items[j]) < Rank(todos, items[k])
    BY <2>1, <1>2, <1>7
  <2> QED
    BY <2>1, <2>2, <1>6
<1>9. \A k \in 1..Len(items) : ~Past(items[k])
  <2> SUFFICES ASSUME NEW k \in 1..Len(items)
               PROVE  ~Past(items[k])
    OBVIOUS
  <2>1. items[k] \in todos /\ Rank(todos, items[k]) = Offset + k
    BY <1>3
  <2>2. ~(Offset + k <= Offset)
    BY <1>2, <1>7
  <2> QED
    BY <2>1, <2>2, <1>4
<1>10. ASSUME next # 0, NEW i \in todos
       PROVE  /\ Past(i)' => Past(i) \/ \E k \in 1..Len(items) : items[k] = i
              /\ ~Past(i)' => ~Past(i) /\ \A k \in 1..Len(items) : items[k] < i
  <2>1. Past(i)' <=> Rank(todos, i) <= Offset + size
    BY <1>4, <1>10
  <2>2. ASSUME ~(Rank(todos, i) <= Offset + size), NEW k \in 1..Len(items)
        PROVE  items[k] < i
    <3>1. Rank(todos, items[k]) < Rank(todos, i)
      BY <2>2, <1>2, <1>3, <1>5, <1>7
    <3> QED
      BY <3>1, <1>3, <1>6
  <2> QED
    BY <2>1, <2>2, <1>2, <1>3, <1>4, <1>5
<1>11. ASSUME next = 0, NEW i \in before \cap todos
       PROVE  Past(i) \/ \E k \in 1..Len(items) : items[k] = i
  <2>1. i \in todos /\ Rank(todos, i) <= Offset + size /\ Rank(todos, i) \in Nat
    BY <1>5, <1>11
  <2>2. CASE Rank(todos, i) <= Offset
    BY <2>1, <2>2, <1>4
  <2>3. CASE Offset < Rank(todos, i)
    BY <2>1, <2>3, <1>3
  <2> QED
    BY <2>1, <2>2, <2>3, <1>2
<1>12. Pages!Answer(items, next)
  BY DEF items
<1> QED
  BY <1>3, <1>8, <1>9, <1>10, <1>11, <1>12, AnswerStep

LEMMA SelectStep ==
  ASSUME PagesInv, Pages!Select
  PROVE  PagesInv'
<1> DEFINE next == IF at + size < total THEN at + size ELSE 0
<1>1. /\ server = "offset" /\ walk = "counted"
      /\ Pages!Answer(Pages!Window(Pages!Sorted(todos), at, size), next)
  BY DEF Pages!Select
<1>2. Offset = at /\ at \in Nat /\ size \in Nat /\ size >= 1 /\ total \in Nat
  BY <1>1, PagesFacts DEF Offset, Position
<1>3. next \in Nat /\ (next # 0 => Offset' = Offset + size)
  BY <1>1, <1>2 DEF Offset, Position, Pages!Answer
<1>4. ASSUME next = 0, NEW i \in before \cap todos
      PROVE  Rank(todos, i) <= Offset + size
  <2>1. Rank(todos, i) <= total /\ Rank(todos, i) \in Nat
    BY <1>1, TodoRanks DEF PagesInv
  <2>2. total <= at + size
    BY <1>2, <1>4
  <2> QED
    BY <2>1, <2>2, <1>2
<1> HIDE DEF next
<1> QED
  BY <1>1, <1>2, <1>3, <1>4, OffsetStep

\* The last page is the one that reaches the end.
LEMMA LastPage ==
  ASSUME NEW n \in Nat, NEW s \in Nat, s >= 1, NEW a \in Nat, a >= 1,
         ~(a < (n + s - 1) \div s)
  PROVE  n <= (a - 1) * s + s
<1> DEFINE q == (n + s - 1) \div s
<1>1. q \in Nat /\ n + s - 1 < (q + 1) * s
  <2> DEFINE m == n + s - 1
  <2>1. m \in Nat /\ s \in Nat \ {0}
    OBVIOUS
  <2>2. m \div s \in Nat /\ m < ((m \div s) + 1) * s
    BY <2>1
  <2> QED
    BY <2>2
<1>2. q <= a
  BY <1>1
<1> HIDE DEF q
<1>3. q * s <= a * s
  BY <1>1, <1>2
<1>4. (q + 1) * s = q * s + s /\ (a - 1) * s = a * s - s
  BY <1>1
<1>5. q * s \in Int /\ a * s \in Int
  BY <1>1
<1> QED
  BY <1>1, <1>3, <1>4, <1>5

LEMMA ListStep ==
  ASSUME PagesInv, Pages!List
  PROVE  PagesInv'
<1> DEFINE n == Cardinality(todos)
           next == IF at < (n + size - 1) \div size THEN at + 1 ELSE 0
<1>1. /\ server = "page" /\ walk = "asked"
      /\ Pages!Answer(Pages!Window(Pages!Sorted(todos), (at - 1) * size, size), next)
  BY CountedByPages DEF Pages!List
<1>2. /\ Offset = (at - 1) * size /\ at \in Nat /\ at >= 1 /\ size \in Nat /\ size >= 1
      /\ n \in Nat
  BY <1>1, PagesFacts, TodoRanks DEF PagesInv, Offset, Position, Underway
<1>3. next \in Nat
  BY <1>2
<1>4. next # 0 => Offset' = Offset + size
  <2>1. next # 0 => Offset' = ((at + 1) - 1) * size
    BY <1>1 DEF Offset, Position, Pages!Answer
  <2>2. (at + 1) - 1 = (at - 1) + 1 /\ at - 1 \in Nat
    BY <1>2
  <2>3. ((at - 1) + 1) * size = (at - 1) * size + size
    BY <1>2, <2>2
  <2> QED
    BY <2>1, <2>2, <2>3, <1>2
<1>5. ASSUME next = 0, NEW i \in before \cap todos
      PROVE  Rank(todos, i) <= Offset + size
  <2>1. ~(at < (n + size - 1) \div size)
    BY <1>2, <1>5
  <2>2. n <= (at - 1) * size + size
    BY <2>1, <1>2, LastPage
  <2>3. Rank(todos, i) <= n /\ Rank(todos, i) \in Nat
    BY TodoRanks
  <2>4. Offset \in Nat
    BY <1>1, PagesFacts DEF Underway
  <2> QED
    BY <2>2, <2>3, <2>4, <1>2
<1> HIDE DEF next
<1> QED
  BY <1>1, <1>2, <1>3, <1>4, <1>5, OffsetStep

LEMMA ListCursorStep ==
  ASSUME PagesInv, Pages!ListCursor
  PROVE  PagesInv'
<1> DEFINE S == {i \in todos : i > at}
           all == Pages!Window(Pages!Sorted(S), 0, size + 1)
           items == Pages!Window(all, 0, size)
           next == IF Len(all) > size THEN all[size] ELSE 0
<1>1. server = "cursor" /\ walk = "asked" /\ Pages!Answer(items, next)
  BY DEF Pages!ListCursor, Pages!ListAfter
<1>2. /\ at \in Nat /\ size \in Nat /\ size >= 1 /\ size + 1 \in Nat
      /\ todos \in SUBSET Nat /\ IsFiniteSet(todos) /\ \A i \in todos : i \in Nat
  BY PagesFacts
<1>3. S \in SUBSET Nat /\ IsFiniteSet(S) /\ S \subseteq todos
  BY <1>2, FS_Subset
<1>s. \A i \in todos : i \in S <=> at < i
  BY <1>2
<1> HIDE DEF S
<1>4. /\ all \in Seq(S) /\ Len(all) <= size + 1
      /\ Len(all) < size + 1 => \A i \in S : Rank(S, i) < size + 1
      /\ \A k \in 1..Len(all) : all[k] \in S /\ Rank(S, all[k]) = k
      /\ \A i \in S : Rank(S, i) <= size + 1 => \E k \in 1..Len(all) : all[k] = i
  BY <1>2, <1>3, FirstsFacts, Zenon
<1> HIDE DEF all
<1>5. /\ items \in Seq(S)
      /\ Len(items) = IF size <= Len(all) THEN size ELSE Len(all)
      /\ \A k \in 1..Len(items) : k \in 1..Len(all) /\ items[k] = all[k]
  BY <1>2, <1>4, PrefixFacts
<1> HIDE DEF items
<1>6. Len(all) \in Nat /\ Len(items) \in Nat
  BY <1>4, <1>5
<1>7. \A k \in 1..Len(items) : items[k] \in S /\ Rank(S, items[k]) = k
  BY <1>4, <1>5
<1>8. /\ \A i \in S : i \in Nat /\ Rank(S, i) \in Nat
      /\ \A i, k \in S : Rank(S, i) <= Rank(S, k) <=> i <= k
  <2>1. Cardinality(S) \in Nat
    BY <1>3, RankFacts
  <2>2. \A i \in S : i \in Nat /\ Rank(S, i) \in Nat
    BY <2>1, <1>3, RankFacts
  <2> SUFFICES ASSUME NEW i \in S, NEW k \in S
               PROVE  Rank(S, i) <= Rank(S, k) <=> i <= k
    BY <2>2
  <2>3. i <= k => Rank(S, i) <= Rank(S, k)
    BY <2>2, <1>3, RankFacts
  <2>4. k < i => Rank(S, k) < Rank(S, i)
    BY <2>2, <1>3, RankFacts
  <2> QED
    BY <2>2, <2>3, <2>4
<1>9. \A i \in S : Rank(S, i) <= size => \E k \in 1..Len(items) : items[k] = i
  <2> SUFFICES ASSUME NEW i \in S, Rank(S, i) <= size
               PROVE  \E k \in 1..Len(items) : items[k] = i
    OBVIOUS
  <2>1. Rank(S, i) <= size + 1
    BY <1>2, <1>8
  <2>2. PICK k \in 1..Len(all) : all[k] = i
    BY <2>1, <1>4
  <2>3. k = Rank(S, i)
    BY <2>2, <1>4
  <2>4. k \in 1..Len(items)
    BY <2>3, <1>2, <1>5, <1>6
  <2> QED
    BY <2>2, <2>4, <1>5
<1>10. \A j, k \in 1..Len(items) : j < k => items[j] < items[k]
  <2> SUFFICES ASSUME NEW j \in 1..Len(items), NEW k \in 1..Len(items), j < k
               PROVE  items[j] < items[k]
    OBVIOUS
  <2>1. items[j] \in S /\ items[k] \in S /\ Rank(S, items[j]) = j /\ Rank(S, items[k]) = k
    BY <1>7
  <2>2. ~(items[k] <= items[j])
    BY <2>1, <1>6, <1>8
  <2> QED
    BY <2>1, <2>2, <1>8
<1>11. /\ \A i : Past(i) <=> i <= at
       /\ \A i : next # 0 => (Past(i)' <=> i <= next)
  BY <1>1 DEF Past, Position, Pages!Answer
<1>12. items \in Seq(todos) /\ \A k \in 1..Len(items) : ~Past(items[k])
  <2>1. items \in Seq(todos)
    BY <1>3, <1>5, SeqMonotonic
  <2> SUFFICES ASSUME NEW k \in 1..Len(items)
               PROVE  ~Past(items[k])
    BY <2>1
  <2>2. items[k] \in S /\ items[k] \in Nat /\ at < items[k]
    BY <1>3, <1>7, <1>8, <1>s
  <2> QED
    BY <2>2, <1>2, <1>11
<1>13. Len(all) > size => Len(items) = size /\ all[size] \in S /\ Rank(S, all[size]) = size
  BY <1>2, <1>4, <1>5, <1>6
<1>14. /\ next # 0 => Len(all) > size /\ next \in S /\ Rank(S, next) = size
       /\ next = 0 => Len(all) <= size
       /\ next \in Nat
  <2>1. CASE Len(all) > size
    <3>1. all[size] \in Nat /\ at < all[size]
      BY <2>1, <1>3, <1>8, <1>13, <1>s
    <3> QED
      BY <2>1, <3>1, <1>2, <1>13
  <2>2. CASE ~(Len(all) > size)
    BY <2>2, <1>2, <1>6
  <2> QED
    BY <2>1, <2>2
<1> HIDE DEF next
<1>15. ASSUME next # 0, NEW i \in todos
       PROVE  /\ Past(i)' => Past(i) \/ \E k \in 1..Len(items) : items[k] = i
              /\ ~Past(i)' => ~Past(i) /\ \A k \in 1..Len(items) : items[k] < i
  <2>0. i \in Nat /\ next \in Nat /\ next \in S /\ Rank(S, next) = size /\ at < next
    BY <1>2, <1>3, <1>14, <1>15, <1>s
  <2>1. ASSUME i <= next, ~(i <= at)
        PROVE  \E k \in 1..Len(items) : items[k] = i
    <3>1. i \in S
      BY <2>0, <2>1, <1>2, <1>s
    <3>2. Rank(S, i) <= size
      BY <3>1, <2>0, <2>1, <1>8
    <3> QED
      BY <3>1, <3>2, <1>9
  <2>2. ASSUME ~(i <= next), NEW k \in 1..Len(items)
        PROVE  items[k] < i
    <3>1. items[k] \in S /\ items[k] \in Nat /\ Rank(S, items[k]) <= Rank(S, next)
      <4>1. items[k] \in S /\ Rank(S, items[k]) = k
        BY <1>7
      <4>2. k <= size
        BY <1>2, <1>5, <1>6
      <4> QED
        BY <4>1, <4>2, <2>0, <1>8
    <3>2. items[k] <= next
      BY <3>1, <2>0, <1>8
    <3> QED
      BY <3>1, <3>2, <2>0, <2>2
  <2>3. ~(i <= next) => ~(i <= at)
    BY <2>0, <1>2
  <2> QED
    BY <2>1, <2>2, <2>3, <1>11, <1>15
<1>16. ASSUME next = 0, NEW i \in before \cap todos
       PROVE  Past(i) \/ \E k \in 1..Len(items) : items[k] = i
  <2>1. i \in S => Rank(S, i) <= size
    BY <1>2, <1>4, <1>6, <1>8, <1>14, <1>16
  <2>2. i \in S \/ i <= at
    <3>1. i \in todos /\ i \in Nat /\ at \in Nat
      BY <1>2
    <3>2. i \in S <=> at < i
      BY <3>1, <1>s
    <3> QED
      BY <3>1, <3>2
  <2> QED
    BY <2>1, <2>2, <1>9, <1>11
<1> QED
  BY <1>1, <1>10, <1>12, <1>14, <1>15, <1>16, AnswerStep

-----------------------------------------------------------------------------
(* Lists read page by page: the client *)

LEMMA StartStep ==
  ASSUME PagesInv, NEW q \in 0..(MaxSize + 1), Pages!Start(q)
  PROVE  PagesInv'
<1>1. /\ walk = "idle" /\ walk' = "asked" /\ at' = IF server = "page" THEN 1 ELSE 0
      /\ size' = Pages!SizeOf(q)
      /\ before' = todos /\ deleted' = 0 /\ server' = server /\ todos' = todos
      /\ nextId' = nextId /\ total' = total /\ link' = link /\ got' = got
  BY DEF Pages!Start
<1>2. got = <<>> /\ Len(got) = 0
  BY <1>1 DEF PagesInv
<1>3. Pages!SizeOf(q) \in 1..MaxSize
  BY PaginationAssumption DEF Pages!SizeOf
<1>4. size' \in Nat
  BY <1>1, <1>3, PaginationAssumption
<1>5. Position' = IF server = "page" THEN 1 ELSE 0
  BY <1>1 DEF Position
<1>6. Offset' = 0
  <2>1. \A n \in Nat : (1 - 1) * n = 0
    OBVIOUS
  <2> QED
    BY <1>1, <1>4, <1>5, <2>1 DEF Offset
<1>7. \A i \in todos : ~Past(i)'
  <2> SUFFICES ASSUME NEW i \in todos
               PROVE  ~Past(i)'
    OBVIOUS
  <2>1. i >= 1 /\ i \in Nat /\ Rank(todos, i) \in Nat /\ Rank(todos, i) >= 1
    BY PagesFacts, TodoRanks
  <2>2. Rank(todos, i)' = Rank(todos, i)
    BY <1>1 DEF Rank
  <2> QED
    BY <2>1, <2>2, <1>1, <1>5, <1>6 DEF Past
<1>8. Missed' = {}
  BY <1>1, <1>7 DEF Missed
<1>9. Cardinality(Missed') <= deleted'
  BY <1>1, <1>8, FS_EmptySet
<1>10. Pages!TypeOK'
  <2>1. todos \subseteq 1..MaxTodos
    <3>1. nextId \in 1..(MaxTodos + 1) /\ MaxTodos \in Nat
      BY PagesFacts DEF PagesInv, Pages!TypeOK
    <3> QED
      BY <3>1, PagesFacts
  <2> QED
    BY <1>1, <1>3, <2>1 DEF PagesInv, Pages!TypeOK, Pages!Ids
<1>11. todos \subseteq 1..(nextId - 1)
  BY DEF PagesInv, Pages!TypeOK
<1> QED
  BY <1>1, <1>2, <1>5, <1>9, <1>10, <1>11 DEF PagesInv

LEMMA FollowStep ==
  ASSUME PagesInv, Pages!Follow
  PROVE  PagesInv'
<1>1. /\ walk = "page" /\ link # 0 /\ at' = link /\ walk' = "asked"
      /\ server' = server /\ todos' = todos /\ nextId' = nextId /\ size' = size
      /\ total' = total /\ link' = link /\ got' = got /\ before' = before /\ deleted' = deleted
  BY DEF Pages!Follow
<1>2. Position' = Position /\ Offset' = Offset /\ Underway /\ Underway'
  BY <1>1 DEF Position, Offset, Underway
<1>3. \A i : Past(i)' <=> Past(i)
  BY <1>1, <1>2 DEF Past, Rank
<1>4. Missed' = Missed
  BY <1>1, <1>2, <1>3 DEF Missed
<1>5. Pages!TypeOK'
  BY <1>1 DEF PagesInv, Pages!TypeOK
<1> QED
  BY <1>1, <1>2, <1>3, <1>4, <1>5 DEF PagesInv

LEMMA CollectedStep ==
  ASSUME PagesInv, Pages!Collected
  PROVE  PagesInv'
<1>1. /\ walk = "page" /\ link = 0 /\ walk' = "all" /\ at' = at
      /\ server' = server /\ todos' = todos /\ nextId' = nextId /\ size' = size
      /\ total' = total /\ link' = link /\ got' = got /\ before' = before /\ deleted' = deleted
  BY DEF Pages!Collected
<1>2. ~Underway'
  BY <1>1 DEF Underway
<1>3. Missed' \subseteq Missed
  BY <1>1, <1>2 DEF Missed
<1>4. Cardinality(Missed') <= deleted'
  BY <1>1, <1>3, NoMoreMissed
<1>5. Pages!TypeOK'
  BY <1>1 DEF PagesInv, Pages!TypeOK
<1> QED
  BY <1>1, <1>2, <1>4, <1>5 DEF PagesInv

\* What First leaves out is after all that it keeps.
LEMMA FirstStep ==
  ASSUME PagesInv, Pages!First
  PROVE  PagesInv'
<1>1. /\ walk = "page" /\ Len(got) >= Wanted /\ got' = SubSeq(got, 1, Wanted)
      /\ walk' = "enough" /\ at' = at
      /\ server' = server /\ todos' = todos /\ nextId' = nextId /\ size' = size
      /\ total' = total /\ link' = link /\ before' = before /\ deleted' = deleted
  BY DEF Pages!First
<1>2. Wanted \in Nat /\ Wanted >= 1 /\ Len(got) \in Nat /\ got \in Seq(Pages!Ids)
      /\ \A k \in 1..Len(got) : got[k] \in Nat
  BY PagesFacts DEF PagesInv, Pages!TypeOK
<1>3. /\ got' \in Seq(Pages!Ids) /\ Len(got') = Wanted
      /\ \A k \in 1..Wanted : k \in 1..Len(got) /\ got'[k] = got[k]
  BY <1>1, <1>2
<1>4. ~Underway'
  BY <1>1 DEF Underway
<1>5. Pages!Last(got)' = got[Wanted]
  BY <1>2, <1>3 DEF Pages!Last
<1>6. Pages!ToSet(got)' = {got[k] : k \in 1..Wanted}
  <2>1. DOMAIN got' = 1..Wanted
    BY <1>2, <1>3
  <2>2. Pages!ToSet(got)' = {got'[k] : k \in 1..Wanted}
    BY <2>1 DEF Pages!ToSet
  <2> QED
    BY <2>2, <1>3
<1>7. Missed' \subseteq Missed
  <2> SUFFICES ASSUME NEW i \in Missed'
               PROVE  i \in Missed
    OBVIOUS
  <2>1. i \in before \cap todos /\ i \notin Pages!ToSet(got)' /\ i < got[Wanted]
    BY <1>1, <1>4, <1>5 DEF Missed
  <2>2. i \notin Pages!ToSet(got)
    <3> SUFFICES ASSUME NEW k \in 1..Len(got), got[k] = i
                 PROVE  FALSE
      BY PagesFacts
    <3>1. CASE k <= Wanted
      BY <3>1, <2>1, <1>2, <1>6
    <3>2. CASE Wanted < k
      <4>1. Wanted \in 1..Len(got) /\ got[Wanted] < got[k]
        BY <3>2, <1>1, <1>2 DEF PagesInv
      <4> QED
        BY <4>1, <2>1, <1>2
    <3> QED
      BY <3>1, <3>2, <1>2
  <2>3. CASE link = 0
    BY <2>1, <2>2, <2>3, <1>1 DEF Missed
  <2>4. CASE link # 0
    <3>1. Underway
      BY <2>4, <1>1 DEF Underway
    <3>2. Past(i)
      <4>1. Wanted \in 1..Len(got) /\ i \in Nat /\ i \in todos
        BY <2>1, <1>1, <1>2, PagesFacts
      <4>2. ~Past(i) => got[Wanted] < i
        BY <4>1, <3>1 DEF PagesInv
      <4> QED
        BY <4>1, <4>2, <2>1, <1>2
    <3> QED
      BY <2>1, <2>2, <3>1, <3>2 DEF Missed
  <2> QED
    BY <2>3, <2>4
<1>8. Cardinality(Missed') <= deleted'
  BY <1>1, <1>7, NoMoreMissed
<1>9. Pages!TypeOK'
  BY <1>1, <1>3 DEF PagesInv, Pages!TypeOK, Pages!Ids
<1>10. /\ \A k \in 1..Len(got') : got'[k] < nextId'
       /\ \A j, k \in 1..Len(got') : j < k => got'[j] < got'[k]
  BY <1>1, <1>3 DEF PagesInv
<1> QED
  BY <1>1, <1>3, <1>4, <1>8, <1>9, <1>10 DEF PagesInv

LEMMA ReturnStep ==
  ASSUME PagesInv, Pages!Return
  PROVE  PagesInv'
<1>1. /\ walk' = "idle" /\ at' = 0 /\ size' = DefaultSize /\ total' = 0 /\ link' = 0
      /\ got' = <<>> /\ before' = {} /\ deleted' = 0
      /\ server' = server /\ todos' = todos /\ nextId' = nextId
  BY DEF Pages!Return
<1>2. Missed' = {}
  BY <1>1 DEF Missed
<1>3. Cardinality(Missed') <= deleted'
  BY <1>1, <1>2, FS_EmptySet
<1>4. ~Underway'
  BY <1>1 DEF Underway
<1>5. Pages!TypeOK'
  BY <1>1, PagesFacts, PaginationAssumption DEF PagesInv, Pages!TypeOK, Pages!Ids
<1> QED
  BY <1>1, <1>3, <1>4, <1>5 DEF PagesInv

LEMMA PagesInit ==
  ASSUME Pages!Init
  PROVE  PagesInv
<1>1. /\ walk = "idle" /\ todos = {} /\ nextId = 1 /\ at = 0 /\ size = DefaultSize
      /\ total = 0 /\ link = 0 /\ got = <<>> /\ before = {} /\ deleted = 0
      /\ server \in {"offset", "page", "cursor"}
  BY DEF Pages!Init
<1>2. Missed = {} /\ ~Underway
  BY <1>1 DEF Missed, Underway
<1>3. Cardinality(Missed) <= deleted
  BY <1>1, <1>2, FS_EmptySet
<1>4. Pages!TypeOK
  BY <1>1, PaginationAssumption DEF Pages!TypeOK, Pages!Ids
<1> QED
  BY <1>1, <1>2, <1>3, <1>4 DEF PagesInv

LEMMA PagesStep ==
  ASSUME PagesInv, [Pages!Next]_(Pages!vars)
  PROVE  PagesInv'
<1>1. CASE Pages!Next
  <2>1. CASE Pages!Add
    BY <2>1, AddStep
  <2>2. CASE \E i \in Pages!Ids : Pages!Delete(i)
    BY <2>2, DeleteStep
  <2>3. CASE Pages!Count
    BY <2>3, CountStep
  <2>4. CASE Pages!Select
    BY <2>4, SelectStep
  <2>5. CASE Pages!List
    BY <2>5, ListStep
  <2>6. CASE Pages!ListCursor
    BY <2>6, ListCursorStep
  <2>7. CASE \E q \in 0..(MaxSize + 1) : Pages!Start(q)
    BY <2>7, StartStep
  <2>8. CASE Pages!Follow
    BY <2>8, FollowStep
  <2>9. CASE Pages!Collected
    BY <2>9, CollectedStep
  <2>10. CASE Pages!First
    BY <2>10, FirstStep
  <2>11. CASE Pages!Return
    BY <2>11, ReturnStep
  <2> QED
    BY <1>1, <2>1, <2>2, <2>3, <2>4, <2>5, <2>6, <2>7, <2>8, <2>9, <2>10, <2>11
       DEF Pages!Next
<1>2. CASE UNCHANGED Pages!vars
  <2>1. /\ walk' = walk /\ at' = at /\ size' = size /\ total' = total /\ link' = link
        /\ got' = got /\ before' = before /\ deleted' = deleted
        /\ server' = server /\ todos' = todos /\ nextId' = nextId
    BY <1>2 DEF Pages!vars
  <2>2. Position' = Position /\ Offset' = Offset /\ (Underway' <=> Underway)
    BY <2>1 DEF Position, Offset, Underway
  <2>3. \A i : Past(i)' <=> Past(i)
    BY <2>1, <2>2 DEF Past, Rank
  <2>4. Missed' = Missed
    BY <2>1, <2>2, <2>3 DEF Missed
  <2>5. Pages!TypeOK'
    BY <2>1 DEF PagesInv, Pages!TypeOK
  <2>6. \A i : Rank(todos, i)' = Rank(todos, i)
    BY <2>1 DEF Rank
  <2> QED
    BY <2>1, <2>2, <2>3, <2>4, <2>5, <2>6 DEF PagesInv
<1> QED
  BY <1>1, <1>2

\* What is missed of the list at its end was moved back by a deletion.
LEMMA PagesInvShows ==
  ASSUME PagesInv
  PROVE  Pages!ListingsComplete
<1> DEFINE seen == Pages!ToSet(got)
           due == CASE walk = "all" -> before \cap todos
                    [] walk = "enough" -> {i \in before \cap todos : i < Pages!Last(got)}
                    [] OTHER -> {}
<1>1. Cardinality(seen) = Len(got)
  <2>1. Len(got) \in Nat /\ seen = {got[k] : k \in 1..Len(got)}
        /\ \A k \in 1..Len(got) : got[k] \in Nat
    BY PagesFacts
  <2> DEFINE f == [k \in 1..Len(got) |-> got[k]]
  <2>2. \A j, k \in 1..Len(got) : got[j] = got[k] => j = k
    <3> SUFFICES ASSUME NEW j \in 1..Len(got), NEW k \in 1..Len(got), got[j] = got[k]
                 PROVE  j = k
      OBVIOUS
    <3>1. (j < k => got[j] < got[k]) /\ (k < j => got[k] < got[j])
      BY DEF PagesInv
    <3> QED
      BY <3>1, <2>1
  <2>3. f \in Bijection(1..Len(got), seen)
    BY <2>1, <2>2 DEF Bijection, Injection, Surjection, IsInjective
  <2>4. ExistsBijection(1..Len(got), seen)
    BY <2>3 DEF ExistsBijection
  <2>5. IsFiniteSet(1..Len(got)) /\ Cardinality(1..Len(got)) = Len(got)
    <3>1. 1 \in Int /\ Len(got) \in Int
      BY <2>1
    <3>2. /\ IsFiniteSet(1..Len(got))
          /\ Cardinality(1..Len(got)) = IF 1 > Len(got) THEN 0 ELSE Len(got) - 1 + 1
      BY <3>1, FS_Interval
    <3> QED
      BY <3>2, <2>1
  <2> QED
    BY <2>4, <2>5, FS_Bijection
<1>2. due \ seen \subseteq Missed
  BY DEF Missed
<1>3. Cardinality(due \ seen) <= Cardinality(Missed) /\ IsFiniteSet(due \ seen)
  BY <1>2, PagesFacts, FS_Subset
<1>4. Cardinality(due \ seen) <= deleted
  <2>1. Cardinality(due \ seen) \in Nat /\ Cardinality(Missed) \in Nat /\ deleted \in Nat
    BY <1>3, PagesFacts, FS_CardinalityType
  <2>2. Cardinality(Missed) <= deleted
    BY DEF PagesInv
  <2> QED
    BY <2>1, <2>2, <1>3
<1> QED
  BY <1>1, <1>4, CountedByPages DEF Pages!ListingsComplete

\* For any sizes of pages and any store: a list collected page by page from
\* server/ or from ch30, while todos come and go, holds no todo twice and misses
\* no more todos that were there all the time than were deleted meanwhile; what
\* First of ch12 collects skips no more.
THEOREM ListsMissOnlyDeletions == ServersSpec => []ListingsComplete
<1>1. ServersInit => PagesInv
  BY PagesInit DEF ServersInit
<1>2. PagesInv /\ [ServersNext]_allVars => PagesInv'
  BY StepOfPart, PagesStep
<1>3. PagesInv => ListingsComplete
  BY PagesInvShows DEF ListingsComplete
<1> QED
  BY <1>1, <1>2, <1>3, PTL DEF ServersSpec

-----------------------------------------------------------------------------
(* The client's cache of ch13 *)

\* Versions are replaced one after another, the first k - 1 of them so far.
ReplacedSoFar(k) ==
    \A v \in 1..MaxVersion : IF v < k THEN replaced[v] <= now ELSE replaced[v] = Http!Never

\* The version that the answer to c says is right.
Answered(c) == IF reply[c] = 0 THEN known[c] ELSE reply[c]

\* An answer was right when the server gave it, which is not before c asked and
\* so not longer ago than Latency; an entry outlives its version by no more.
HttpInv ==
    /\ Http!TypeOK
    /\ \E k \in 1..MaxVersion : ReplacedSoFar(k)
    /\ \A c \in HttpCallers : progress[c] # "idle" =>
           asked[c] <= now /\ now <= asked[c] + Latency
    /\ \A c \in HttpCallers : progress[c] = "replied" =>
           Answered(c) # 0 /\ asked[c] <= replaced[Answered(c)]
    /\ entry.body # 0 => entry.expires <= replaced[entry.body] + Latency + MaxAge
    /\ entry.expires <= now + MaxAge

\* What the steps below need of the types and the constants.
LEMMA HttpFacts ==
  ASSUME HttpInv
  PROVE  /\ HttpMaxTime \in Nat /\ now \in Nat /\ now <= HttpMaxTime
         /\ Http!Never \in Nat /\ now < Http!Never
         /\ MaxAge \in Nat /\ MaxAge > 0 /\ Latency \in Nat /\ MaxVersion \in Nat
         /\ \A v \in 1..MaxVersion : replaced[v] \in Nat /\ replaced[v] <= Http!Never
         /\ entry.body \in 0..MaxVersion /\ entry.expires \in Nat
         /\ \A c \in HttpCallers :
               /\ asked[c] \in Nat
               /\ known[c] \in 0..MaxVersion /\ reply[c] \in 0..MaxVersion
               /\ Answered(c) \in 0..MaxVersion
BY HttpCacheAssumption DEF HttpInv, Http!TypeOK, Http!Never, Http!Versions, Answered

\* There is one version that the server has now.
LEMMA CurrentIs ==
  ASSUME HttpInv, NEW k \in 1..MaxVersion, ReplacedSoFar(k)
  PROVE  Http!Current = k
<1> DEFINE P(v) == replaced[v] = Http!Never /\ \A u \in 1..(v - 1) : replaced[u] # Http!Never
<1>1. P(k)
  BY HttpFacts DEF ReplacedSoFar
<1>2. ASSUME NEW v \in 1..MaxVersion, P(v) PROVE v = k
  BY <1>1, <1>2, HttpFacts DEF ReplacedSoFar
<1> HIDE DEF P
<1>3. (CHOOSE v \in 1..MaxVersion : P(v)) = k
  BY <1>1, <1>2
<1> QED
  BY <1>3 DEF Http!Current, P

\* The cache is empty, and the first version is the current one.
LEMMA HttpInit == Http!Init => HttpInv
<1> SUFFICES ASSUME Http!Init PROVE HttpInv
  OBVIOUS
<1>1. Http!TypeOK
  <2> USE HttpCacheAssumption DEF Http!Init
  <2>1. now \in 0..HttpMaxTime
    OBVIOUS
  <2>6. tagged \in BOOLEAN /\ stale \in BOOLEAN
    BY Zenon
  <2>2. replaced \in [1..MaxVersion -> 0..Http!Never]
    BY DEF Http!Never
  <2>3. entry \in [body : Http!Versions, expires : Nat]
    BY DEF Http!NoEntry, Http!Versions
  <2>4. /\ progress \in [HttpCallers -> {"idle", "sent", "replied"}]
        /\ known \in [HttpCallers -> Http!Versions] /\ reply \in [HttpCallers -> Http!Versions]
    BY DEF Http!Versions
  <2>5. asked \in [HttpCallers -> 0..HttpMaxTime]
    OBVIOUS
  <2> QED
    BY <2>1, <2>2, <2>3, <2>4, <2>5, <2>6 DEF Http!TypeOK
<1>2. ReplacedSoFar(1) /\ 1 \in 1..MaxVersion
  BY HttpCacheAssumption DEF Http!Init, ReplacedSoFar
<1> QED
  BY <1>1, <1>2, HttpCacheAssumption DEF Http!Init, HttpInv, Http!NoEntry

\* A call that ends leaves nothing of an ill type behind.
LEMMA HttpDoneTypes ==
  ASSUME HttpInv, NEW c \in HttpCallers, Http!Done(c)
  PROVE  /\ progress' \in [HttpCallers -> {"idle", "sent", "replied"}]
         /\ known' \in [HttpCallers -> Http!Versions] /\ reply' \in [HttpCallers -> Http!Versions]
         /\ asked' \in [HttpCallers -> 0..HttpMaxTime]
<1>1. 0 \in Http!Versions /\ 0 \in 0..HttpMaxTime
  BY HttpFacts DEF Http!Versions
<1> QED
  BY <1>1 DEF HttpInv, Http!TypeOK, Http!Done

\* A call that ends, and changes no entry, takes its request with it.
LEMMA HttpDone ==
  ASSUME HttpInv, NEW c \in HttpCallers, Http!Done(c),
         UNCHANGED <<tagged, now, replaced, entry>>, stale' \in BOOLEAN
  PROVE  HttpInv'
<1>1. Http!TypeOK'
  BY HttpDoneTypes DEF HttpInv, Http!TypeOK, Http!Versions, Http!Never
<1>2. \A d \in HttpCallers : d # c =>
         progress'[d] = progress[d] /\ known'[d] = known[d] /\ asked'[d] = asked[d]
         /\ reply'[d] = reply[d]
  BY DEF HttpInv, Http!TypeOK, Http!Done
<1>3. progress'[c] = "idle"
  BY DEF HttpInv, Http!TypeOK, Http!Done
<1> QED
  BY <1>1, <1>2, <1>3 DEF HttpInv, ReplacedSoFar, Http!Never, Answered

LEMMA HttpStep == HttpInv /\ [Http!Next]_(Http!vars) => HttpInv'
<1> SUFFICES ASSUME HttpInv, [Http!Next]_(Http!vars) PROVE HttpInv'
  OBVIOUS
<1> USE HttpFacts
<1>1. ASSUME NEW c \in HttpCallers, Http!Hit(c) PROVE HttpInv'
  <2>1. stale' \in BOOLEAN
    BY <1>1 DEF Http!Hit, Http!Answer, HttpInv, Http!TypeOK
  <2> QED
    BY <1>1, <2>1 DEF Http!Hit, HttpInv, Http!TypeOK, ReplacedSoFar, Answered, Http!Never
<1>2. ASSUME NEW c \in HttpCallers, Http!Ask(c) PROVE HttpInv'
  <2>1. Http!TypeOK'
    BY <1>2 DEF Http!Ask, HttpInv, Http!TypeOK, Http!Versions
  <2>2. \A d \in HttpCallers :
           /\ d # c => progress'[d] = progress[d] /\ known'[d] = known[d] /\ asked'[d] = asked[d]
           /\ reply'[d] = reply[d]
    BY <1>2 DEF Http!Ask, HttpInv, Http!TypeOK
  <2>3. progress'[c] = "sent" /\ asked'[c] = now /\ UNCHANGED <<now, replaced, entry>>
    BY <1>2 DEF Http!Ask, HttpInv, Http!TypeOK
  <2> QED
    BY <2>1, <2>2, <2>3 DEF HttpInv, ReplacedSoFar, Answered, Http!Never
<1>3. ASSUME NEW c \in HttpCallers, Http!Reply(c) PROVE HttpInv'
  <2>1. PICK k \in 1..MaxVersion : ReplacedSoFar(k)
    BY DEF HttpInv
  <2>2. Http!Current = k
    BY <2>1, CurrentIs
  <2>3. Http!TypeOK'
    <3>1. 0 \in Http!Versions /\ k \in Http!Versions
      BY DEF Http!Versions
    <3> QED
      BY <1>3, <2>2, <3>1 DEF Http!Reply, HttpInv, Http!TypeOK
  <2>4. \A d \in HttpCallers :
           /\ d # c => progress'[d] = progress[d] /\ reply'[d] = reply[d]
           /\ known'[d] = known[d] /\ asked'[d] = asked[d]
    BY <1>3 DEF Http!Reply, HttpInv, Http!TypeOK
  <2>5. Answered(c)' = k /\ progress[c] = "sent" /\ UNCHANGED <<now, replaced, entry>>
    BY <1>3, <2>2 DEF Http!Reply, HttpInv, Http!TypeOK, Answered
  <2>6. replaced[k] = Http!Never
    BY <2>1 DEF ReplacedSoFar
  <2> QED
    BY <2>1, <2>3, <2>4, <2>5, <2>6 DEF HttpInv, ReplacedSoFar, Answered, Http!Never
<1>4. ASSUME NEW c \in HttpCallers, Http!NotModified(c) PROVE HttpInv'
  <2>1. stale' \in BOOLEAN
    BY <1>4 DEF Http!NotModified, Http!Answer, HttpInv, Http!TypeOK
  <2> QED
    BY <1>4, <2>1, HttpDone DEF Http!NotModified
<1>5. ASSUME NEW c \in HttpCallers, Http!OK(c) PROVE HttpInv'
  <2>1. stale' \in BOOLEAN
    BY <1>5 DEF Http!OK, Http!Answer, HttpInv, Http!TypeOK
  <2>2. entry'.body = reply[c] /\ entry'.expires = now + MaxAge
        /\ entry' \in [body : Http!Versions, expires : Nat]
    BY <1>5 DEF Http!OK, Http!Versions
  <2>3. Http!TypeOK'
    <3>1. Http!Done(c) /\ UNCHANGED <<tagged, now, replaced>>
      BY <1>5 DEF Http!OK
    <3> QED
      BY <2>1, <2>2, <3>1, HttpDoneTypes DEF HttpInv, Http!TypeOK
  <2>4. \A d \in HttpCallers : d # c =>
           progress'[d] = progress[d] /\ known'[d] = known[d] /\ asked'[d] = asked[d]
           /\ reply'[d] = reply[d]
    BY <1>5 DEF HttpInv, Http!TypeOK, Http!OK, Http!Done
  <2>5. progress'[c] = "idle" /\ UNCHANGED <<now, replaced>>
    BY <1>5 DEF HttpInv, Http!TypeOK, Http!OK, Http!Done
  <2>6. asked[c] <= replaced[reply[c]] /\ now <= asked[c] + Latency /\ reply[c] # 0
    BY <1>5 DEF HttpInv, Http!OK, Answered
  <2>7. entry'.expires <= replaced[entry'.body] + Latency + MaxAge
    BY <2>2, <2>6
  <2> QED
    BY <2>2, <2>3, <2>4, <2>5, <2>7 DEF HttpInv, ReplacedSoFar, Answered, Http!Never
<1>6. ASSUME NEW c \in HttpCallers, Http!Error(c) PROVE HttpInv'
  BY <1>6, HttpDone DEF Http!Error, HttpInv, Http!TypeOK
<1>7. CASE Http!Change
  <2>1. PICK k \in 1..MaxVersion : ReplacedSoFar(k)
    BY DEF HttpInv
  <2>2. Http!Current = k /\ k + 1 \in 1..MaxVersion
    BY <1>7, <2>1, CurrentIs DEF Http!Change
  <2>3. \A v \in 1..MaxVersion : replaced'[v] = IF v = k THEN now ELSE replaced[v]
    BY <1>7, <2>2 DEF Http!Change, HttpInv, Http!TypeOK
  <2>4. Http!TypeOK' /\ UNCHANGED <<now, entry, progress, known, asked, reply>>
    <3>1. UNCHANGED <<tagged, now, entry, progress, known, asked, reply, stale>>
          /\ replaced' = [replaced EXCEPT ![k] = now]
      BY <1>7, <2>2 DEF Http!Change
    <3>2. now \in 0..Http!Never /\ Http!Never' = Http!Never
      BY DEF Http!Never
    <3>3. replaced' \in [1..MaxVersion -> 0..Http!Never]
      BY <3>1, <3>2 DEF HttpInv, Http!TypeOK
    <3> QED
      BY <3>1, <3>2, <3>3 DEF HttpInv, Http!TypeOK
  <2>5. ReplacedSoFar(k + 1)'
    BY <2>1, <2>2, <2>3, <2>4 DEF ReplacedSoFar, Http!Never
  <2> QED
    BY <2>2, <2>3, <2>4, <2>5 DEF HttpInv, Answered
<1>8. CASE Http!ClearCache
  BY <1>8 DEF Http!ClearCache, HttpInv, Http!TypeOK, Http!NoEntry, Http!Versions, ReplacedSoFar,
              Answered, Http!Never
<1>9. CASE Http!Tick
  <2>1. now' = now + 1 /\ now' <= HttpMaxTime
        /\ UNCHANGED <<tagged, replaced, entry, progress, known, asked, reply, stale>>
    BY <1>9 DEF Http!Tick
  <2>2. \A c \in HttpCallers : progress[c] # "idle" => now' <= asked[c] + Latency
    BY <1>9 DEF Http!Tick
  <2>3. Http!TypeOK'
    BY <2>1, HttpCacheAssumption DEF HttpInv, Http!TypeOK, Http!Never
  <2> QED
    BY <2>1, <2>2, <2>3 DEF HttpInv, ReplacedSoFar, Answered, Http!Never
<1>10. CASE UNCHANGED Http!vars
  BY <1>10 DEF Http!vars, HttpInv, Http!TypeOK, ReplacedSoFar, Answered, Http!Never
<1> QED
  BY <1>1, <1>2, <1>3, <1>4, <1>5, <1>6, <1>7, <1>8, <1>9, <1>10 DEF Http!Next

\* No answer is too old: see HttpInv.
LEMMA StalenessStep ==
  HttpInv /\ Http!StalenessBounded /\ [Http!Next]_(Http!vars) => Http!StalenessBounded'
<1> SUFFICES ASSUME HttpInv, ~stale, [Http!Next]_(Http!vars) PROVE ~stale'
  BY DEF Http!StalenessBounded
<1> USE HttpFacts
<1>1. ASSUME NEW c \in HttpCallers, Http!Hit(c) PROVE ~stale'
  <2>1. entry.body # 0 /\ now < entry.expires
    BY <1>1 DEF Http!Hit, Http!Fresh
  <2>2. ~Http!TooOld(entry.body)
    BY <2>1 DEF Http!TooOld, HttpInv
  <2> QED
    BY <1>1, <2>2, Zenon DEF Http!Hit, Http!Answer
<1>2. ASSUME NEW c \in HttpCallers, Http!NotModified(c) \/ Http!OK(c) PROVE ~stale'
  <2>1. asked[c] <= replaced[Answered(c)] /\ now <= asked[c] + Latency /\ Answered(c) # 0
    BY <1>2 DEF HttpInv, Http!NotModified, Http!OK
  <2>2. stale' = (stale \/ Http!TooOld(Answered(c)))
    BY <1>2 DEF Http!NotModified, Http!OK, Http!Answer, Answered
  <2>3. ~Http!TooOld(Answered(c))
    BY <2>1 DEF Http!TooOld
  <2> QED
    BY <2>2, <2>3, Zenon
<1> QED
  BY <1>1, <1>2 DEF Http!Next, Http!Ask, Http!Reply, Http!Error, Http!Change, Http!ClearCache,
                    Http!Tick, Http!vars

\* The client of ch13 shows nobody a body that the server replaced MaxAge + Latency
\* ticks ago, or earlier, for any number of callers and versions.
LEMMA CachedReadsAreTrue == ServersSpec => [](part = "http" => Http!StalenessBounded)
<1> DEFINE I == part = "http" => HttpInv /\ Http!StalenessBounded
<1>1. ServersInit => I
  BY HttpInit DEF ServersInit, Http!Init, Http!StalenessBounded
<1>2. I /\ [ServersNext]_allVars => I'
  BY StepOfPart, HttpStep, StalenessStep
<1> QED
  BY <1>1, <1>2, PTL DEF ServersSpec

-----------------------------------------------------------------------------
(* The life of a server process *)

\* Shutdown gives up no earlier than ShutdownTimeout after the signal.
LifeInv ==
    /\ Life!TypeOK
    /\ phase \in {"draining", "stopped"} => deadline = signalled + ShutdownTimeout
    /\ Life!InFlightDrained

\* The timeouts and the clock are natural numbers.
LEMMA LifeFacts ==
  ASSUME LifeInv
  PROVE  /\ now \in Nat /\ now <= LifeMaxTime /\ LifeMaxTime \in Nat /\ signalled \in Nat
         /\ \A c \in Conns : since[c] \in Nat
         /\ WriteTimeout \in Nat /\ ShutdownTimeout \in Nat /\ WriteTimeout <= ShutdownTimeout
BY LifecycleAssumption DEF LifeInv, Life!TypeOK

\* A server starts without a connection.
LEMMA LifeInit == Life!Init => LifeInv
<1> SUFFICES ASSUME Life!Init PROVE LifeInv
  OBVIOUS
<1>1. 0 \in 0..LifeMaxTime
  BY LifecycleAssumption
<1> QED
  BY <1>1 DEF Life!Init, LifeInv, Life!TypeOK, Life!InFlightDrained

\* A connection changes its state, which nothing depends on before the end.
LEMMA LifeBecomes ==
  ASSUME LifeInv, NEW c \in Conns, NEW state \in {"closed", "new", "active", "idle"},
         Life!Becomes(c, state), Life!Running, UNCHANGED <<now, phase, deadline, signalled>>
  PROVE  LifeInv'
<1>1. now \in 0..LifeMaxTime /\ 0 \in 0..LifeMaxTime
  BY LifeFacts
<1>2. Life!TypeOK'
  BY <1>1 DEF LifeInv, Life!TypeOK, Life!Becomes
<1> QED
  BY <1>2 DEF LifeInv, Life!Running, Life!InFlightDrained

LEMMA LifeStep == LifeInv /\ [Life!Next]_(Life!vars) => LifeInv'
<1> SUFFICES ASSUME LifeInv, [Life!Next]_(Life!vars) PROVE LifeInv'
  OBVIOUS
<1> USE LifeFacts
<1>1. ASSUME NEW c \in Conns,
             Life!Accept(c) \/ Life!Request(c) \/ Life!NoRequest(c) \/ Life!Answer(c)
             \/ Life!TooLate(c)
      PROVE  LifeInv'
  BY <1>1, LifeBecomes DEF Life!Accept, Life!Request, Life!NoRequest, Life!Answer, Life!TooLate,
                           Life!Running
<1>2. CASE Life!ListenFails
  BY <1>2 DEF Life!ListenFails, LifeInv, Life!TypeOK, Life!InFlightDrained
<1>3. CASE Life!Signal
  BY <1>3 DEF Life!Signal, LifeInv, Life!TypeOK, Life!InFlightDrained
<1>4. CASE Life!Poll
  <2>1. UNCHANGED <<now, deadline, signalled>> /\ phase = "draining"
        /\ phase' \in {"draining", "stopped"}
    BY <1>4 DEF Life!Poll
  <2>2. /\ conn' \in [Conns -> {"closed", "new", "active", "idle"}]
        /\ since' \in [Conns -> 0..LifeMaxTime]
    BY <1>4 DEF Life!Poll, LifeInv, Life!TypeOK
  <2>3. phase' = "stopped" => \A c \in Conns : conn'[c] = "closed"
    BY <1>4, <2>1 DEF Life!Poll
  <2> QED
    BY <2>1, <2>2, <2>3 DEF LifeInv, Life!TypeOK, Life!InFlightDrained
<1>5. CASE Life!GiveUp
  BY <1>5 DEF Life!GiveUp, LifeInv, Life!TypeOK, Life!InFlightDrained
<1>6. CASE Life!Tick
  <2>1. phase # "stopped" /\ now' = now + 1 /\ now' \in 0..LifeMaxTime
        /\ UNCHANGED <<phase, deadline, conn, since, signalled>>
    BY <1>6 DEF Life!Tick, Life!Running
  <2> QED
    BY <2>1 DEF LifeInv, Life!TypeOK, Life!InFlightDrained
<1>7. CASE UNCHANGED Life!vars
  BY <1>7 DEF Life!vars, LifeInv, Life!TypeOK, Life!InFlightDrained
<1> QED
  BY <1>1, <1>2, <1>3, <1>4, <1>5, <1>6, <1>7 DEF Life!Next

\* A request that was being handled at the signal is answered, or has passed its
\* WriteTimeout, before Run closes the database, whenever Shutdown is given as
\* long as a request may take, for any number of connections.
THEOREM RequestsDrained == ServersSpec => []InFlightDrained
<1> DEFINE I == part = "life" => LifeInv
<1>1. ServersInit => I
  BY LifeInit DEF ServersInit
<1>2. I /\ [ServersNext]_allVars => I'
  BY StepOfPart, LifeStep
<1>3. I => InFlightDrained
  BY DEF InFlightDrained, LifeInv
<1> QED
  BY <1>1, <1>2, <1>3, PTL DEF ServersSpec

-----------------------------------------------------------------------------
(* The server of ch39 *)

\* The credentials of the user who has the id uid in the table us.
Belongs(us, uid, cred) ==
    \E n \in Names : us[n] # Nothing /\ us[n].id = uid
                     /\ cred = [name |-> n, pass |-> us[n].pass]

\* Whatever carries the id of a user comes with the credentials of this user, and
\* no two users have the same id.
MemoryInv ==
    /\ Memory!TypeOK
    /\ \A m, n \in Names : users[m] # Nothing /\ users[n] # Nothing /\ users[m].id = users[n].id =>
           m = n
    /\ \A c \in Clients : token[c] # 0 => Belongs(users, token[c], proved[c])
    /\ \A i \in Memory!Ids : owners[i] # 0 => i < nextMade /\ Belongs(users, owners[i], author[i])
    /\ \A c \in Clients : \A i \in shown[c] : token[c] # 0 /\ owners[i] = token[c]
    /\ \A c \in Clients : handler[c] \in {"create", "compare"} => given[c] \in Memory!Credentials
    /\ \A c \in Clients : handler[c] = "compare" =>
           users[given[c].name] # Nothing /\ user[c] = users[given[c].name]
    /\ \A c \in Clients : handler[c] = "add" => token[c] # 0

\* Nobody has an account.
LEMMA MemoryInit == Memory!Init => MemoryInv
<1> SUFFICES ASSUME Memory!Init PROVE MemoryInv
  OBVIOUS
<1> USE InMemoryApiAssumption DEF Memory!Init
<1>1. Memory!TypeOK
  BY DEF Memory!TypeOK, Memory!Ids
<1> QED
  BY <1>1 DEF MemoryInv, Memory!Ids

\* Users stay who they are.
LEMMA BelongsStays ==
  ASSUME NEW us, NEW vs, \A n \in Names : us[n] # Nothing => vs[n] = us[n],
         NEW uid, NEW cred, Belongs(us, uid, cred)
  PROVE  Belongs(vs, uid, cred)
BY DEF Belongs

\* An id belongs to one pair of name and password.
LEMMA BelongsToOne ==
  ASSUME MemoryInv, NEW uid, NEW a, NEW b,
         Belongs(users, uid, a), Belongs(users, uid, b)
  PROVE  a = b
BY DEF MemoryInv, Belongs

\* The new token is that of the user whose credentials c has given.
LEMMA MemoryIssue ==
  ASSUME MemoryInv, NEW c \in Clients, NEW uid \in Nat, Memory!Issue(c, uid),
         given[c] \in Memory!Credentials, Belongs(users', uid, given[c]),
         \A n \in Names : users[n] # Nothing => users'[n] = users[n],
         users' \in [Names -> Memory!User \cup {Nothing}], nextUser' \in Nat \ {0},
         \A n \in Names : users'[n] # Nothing => users'[n].id < nextUser',
         \A m, n \in Names :
            users'[m] # Nothing /\ users'[n] # Nothing /\ users'[m].id = users'[n].id => m = n,
         UNCHANGED <<owners, nextMade, author>>
  PROVE  MemoryInv'
<1>1. Memory!TypeOK'
  BY DEF MemoryInv, Memory!TypeOK, Memory!Issue, Memory!Done, Memory!Goto, Memory!Ids,
         Memory!Credentials, Memory!User
<1>2. \A d \in Clients : d # c => UNCHANGED <<token[d], proved[d], shown[d], handler[d], given[d],
                                               user[d]>>
  BY DEF MemoryInv, Memory!TypeOK, Memory!Issue, Memory!Done, Memory!Goto
<1>3. token'[c] = uid /\ proved'[c] = given[c] /\ shown'[c] = {} /\ handler'[c] = "idle"
  BY DEF MemoryInv, Memory!TypeOK, Memory!Issue, Memory!Done, Memory!Goto
<1>4. \A d \in Clients : token'[d] # 0 => Belongs(users', token'[d], proved'[d])
  <2> SUFFICES ASSUME NEW d \in Clients, token'[d] # 0
               PROVE  Belongs(users', token'[d], proved'[d])
    OBVIOUS
  <2>1. CASE d = c
    BY <1>3, <2>1
  <2>2. CASE d # c
    BY <1>2, <2>2, BelongsStays DEF MemoryInv
  <2> QED
    BY <2>1, <2>2
<1>5. \A i \in Memory!Ids : owners'[i] # 0 =>
         i < nextMade' /\ Belongs(users', owners'[i], author'[i])
  BY BelongsStays DEF MemoryInv
<1>6. \A d \in Clients : handler'[d] = "compare" =>
         users'[given'[d].name] # Nothing /\ user'[d] = users'[given'[d].name]
  BY <1>2, <1>3 DEF MemoryInv, Memory!Credentials
<1> QED
  BY <1>1, <1>2, <1>3, <1>4, <1>5, <1>6 DEF MemoryInv

LEMMA MemoryStep == MemoryInv /\ [Memory!Next]_(Memory!vars) => MemoryInv'
<1> SUFFICES ASSUME MemoryInv, [Memory!Next]_(Memory!vars) PROVE MemoryInv'
  OBVIOUS
<1> USE InMemoryApiAssumption
<1>1. ASSUME NEW c \in Clients, NEW cred \in Memory!Credentials, Memory!Register(c, cred)
      PROVE  MemoryInv'
  BY <1>1 DEF Memory!Register, Memory!Goto, MemoryInv, Memory!TypeOK, Memory!Ids,
                            Belongs
<1>2. ASSUME NEW c \in Clients, NEW cred \in Memory!Credentials, Memory!Login(c, cred)
      PROVE  MemoryInv'
  BY <1>2 DEF Memory!Login, Memory!Goto, MemoryInv, Memory!TypeOK, Memory!Ids,
              Memory!Credentials
<1>3. ASSUME NEW c \in Clients, Memory!CreateUser(c) PROVE MemoryInv'
  <2> DEFINE n == given[c].name
             u == [id |-> nextUser, pass |-> given[c].pass]
  <2>1. n \in Names /\ u \in Memory!User /\ given[c] = [name |-> n, pass |-> given[c].pass]
        /\ given[c] \in Memory!Credentials
    BY <1>3 DEF Memory!CreateUser, MemoryInv, Memory!TypeOK, Memory!Credentials, Memory!User
  <2>2. users[n] = Nothing /\ users' = [users EXCEPT ![n] = u] /\ nextUser' = nextUser + 1
        /\ Memory!Issue(c, nextUser) /\ UNCHANGED <<owners, nextMade, author>>
    BY <1>3 DEF Memory!CreateUser
  <2>3. u.id = nextUser /\ u.pass = given[c].pass /\ u # Nothing
    BY <2>1 DEF Memory!User
  <2>4. nextUser \in Nat \ {0} /\ \A m \in Names : users[m] # Nothing => users[m].id < nextUser
        /\ users[m].id \in Nat
    BY DEF MemoryInv, Memory!TypeOK, Memory!User
  <2> HIDE DEF n, u
  <2>5. users' \in [Names -> Memory!User \cup {Nothing}] /\ users'[n] = u
        /\ \A m \in Names : m # n => users'[m] = users[m]
    BY <2>1, <2>2 DEF MemoryInv, Memory!TypeOK
  <2>6. Belongs(users', nextUser, given[c])
    BY <2>1, <2>3, <2>5 DEF Belongs
  <2>7. \A m \in Names : users'[m] # Nothing => users'[m].id < nextUser'
    BY <2>2, <2>3, <2>4, <2>5
  <2>8. \A m, k \in Names :
           users'[m] # Nothing /\ users'[k] # Nothing /\ users'[m].id = users'[k].id => m = k
    BY <2>3, <2>4, <2>5 DEF MemoryInv
  <2> QED
    <3>1. nextUser \in Nat /\ nextUser' \in Nat \ {0}
      BY <2>2, <2>4
    <3>2. \A m \in Names : users[m] # Nothing => users'[m] = users[m]
      BY <2>2, <2>5
    <3> QED
      BY <2>1, <2>2, <2>5, <2>6, <2>7, <2>8, <3>1, <3>2, MemoryIssue
<1>4. ASSUME NEW c \in Clients, Memory!Conflict(c) PROVE MemoryInv'
  BY <1>4 DEF Memory!Conflict, Memory!Done, Memory!Goto, MemoryInv, Memory!TypeOK, Memory!Ids,
              Belongs
<1>5. ASSUME NEW c \in Clients, Memory!Compare(c) PROVE MemoryInv'
  <2>1. /\ given[c] \in Memory!Credentials /\ users[given[c].name] # Nothing
        /\ user[c] = users[given[c].name] /\ given[c].name \in Names
        /\ user[c] \in Memory!User
    BY <1>5 DEF Memory!Compare, MemoryInv, Memory!TypeOK, Memory!Credentials
  <2>2. UNCHANGED <<users, nextUser, owners, nextMade, author>>
    BY <1>5 DEF Memory!Compare
  <2>3. CASE user[c].pass = given[c].pass
    <3>1. Belongs(users, user[c].id, given[c])
      BY <2>1, <2>3 DEF Belongs, Memory!Credentials
    <3>2. Memory!Issue(c, user[c].id) /\ user[c].id \in Nat
      BY <1>5, <2>1, <2>3 DEF Memory!Compare, Memory!User
    <3>3. Belongs(users', user[c].id, given[c])
      BY <2>2, <3>1
    <3> QED
      BY <2>1, <2>2, <3>2, <3>3, MemoryIssue DEF MemoryInv, Memory!TypeOK
  <2>4. CASE user[c].pass # given[c].pass
    <3>1. UNCHANGED <<token, proved, shown>> /\ Memory!Done(c)
      BY <1>5, <2>4 DEF Memory!Compare
    <3>2. Memory!TypeOK'
      BY <2>2, <3>1 DEF Memory!Done, Memory!Goto, MemoryInv, Memory!TypeOK, Memory!Ids
    <3>3. \A d \in Clients : /\ d # c => UNCHANGED <<handler[d], given[d], user[d]>>
                             /\ handler'[c] = "idle"
      BY <3>1 DEF Memory!Done, Memory!Goto, MemoryInv, Memory!TypeOK
    <3> QED
      BY <2>2, <3>1, <3>2, <3>3 DEF MemoryInv, Memory!Ids
  <2> QED
    BY <2>3, <2>4
<1>6. ASSUME NEW c \in Clients, Memory!Expire(c) PROVE MemoryInv'
  BY <1>6 DEF Memory!Expire, MemoryInv, Memory!TypeOK, Memory!Ids
<1>7. ASSUME NEW c \in Clients, Memory!Post(c) PROVE MemoryInv'
  BY <1>7 DEF Memory!Post, Memory!Goto, MemoryInv, Memory!TypeOK, Memory!Ids
<1>8. ASSUME NEW c \in Clients, Memory!Add(c) PROVE MemoryInv'
  <2>1. UNCHANGED <<users, nextUser, given, user, token, proved, shown>>
        /\ handler' = [handler EXCEPT ![c] = "idle"] /\ handler[c] = "add"
    BY <1>8 DEF Memory!Add, Memory!Goto
  <2>2. \A d \in Clients : handler'[d] = IF d = c THEN "idle" ELSE handler[d]
    BY <2>1 DEF MemoryInv, Memory!TypeOK
  <2>3. CASE nextMade <= MaxMade
    <3>1. nextMade \in Memory!Ids /\ nextMade' = nextMade + 1
          /\ owners' = [owners EXCEPT ![nextMade] = token[c]]
          /\ author' = [author EXCEPT ![nextMade] = proved[c]]
      BY <1>8, <2>3 DEF Memory!Add, Memory!Ids, MemoryInv, Memory!TypeOK
    <3>2. Memory!TypeOK'
      BY <2>1, <3>1 DEF MemoryInv, Memory!TypeOK, Memory!Ids
    <3>3. owners[nextMade] = 0
      BY <3>1 DEF MemoryInv, Memory!TypeOK, Memory!Ids
    <3>4. \A i \in Memory!Ids : /\ i # nextMade => owners'[i] = owners[i] /\ author'[i] = author[i]
                                /\ i = nextMade => owners'[i] = token[c] /\ author'[i] = proved[c]
      BY <3>1 DEF MemoryInv, Memory!TypeOK
    <3>6. \A i \in Memory!Ids : owners'[i] # 0 =>
             i < nextMade' /\ Belongs(users', owners'[i], author'[i])
      BY <2>1, <3>1, <3>4 DEF MemoryInv, Memory!TypeOK, Memory!Ids
    <3>7. \A d \in Clients : token'[d] # 0 => Belongs(users', token'[d], proved'[d])
      BY <2>1 DEF MemoryInv
    <3>8. \A d \in Clients : \A i \in shown'[d] : token'[d] # 0 /\ owners'[i] = token'[d]
      BY <2>1, <3>3, <3>4 DEF MemoryInv, Memory!TypeOK
    <3> QED
      BY <2>1, <2>2, <3>2, <3>6, <3>7, <3>8 DEF MemoryInv
  <2>4. CASE ~(nextMade <= MaxMade)
    BY <1>8, <2>1, <2>4 DEF Memory!Add, MemoryInv, Memory!TypeOK, Memory!Ids
  <2> QED
    BY <2>3, <2>4
<1>9. ASSUME NEW c \in Clients, NEW ts \in SUBSET Memory!Ids, Memory!Show(c, ts),
             token[c] # 0, \A i \in ts : owners[i] = token[c]
      PROVE  MemoryInv'
  BY <1>9 DEF Memory!Show, MemoryInv, Memory!TypeOK, Memory!Ids
<1>10. ASSUME NEW c \in Clients, Memory!List(c) PROVE MemoryInv'
  <2> DEFINE ts == {i \in Memory!Ids : owners[i] = token[c]}
  <2>1. ts \in SUBSET Memory!Ids /\ \A i \in ts : owners[i] = token[c]
    OBVIOUS
  <2> HIDE DEF ts
  <2> QED
    BY <1>9, <1>10, <2>1 DEF Memory!List, ts
<1>11. ASSUME NEW c \in Clients, NEW i \in Memory!Ids, Memory!Get(c, i) PROVE MemoryInv'
  BY <1>9, <1>11 DEF Memory!Get
<1>12. CASE UNCHANGED Memory!vars
  BY <1>12 DEF Memory!vars, MemoryInv, Memory!TypeOK, Memory!Ids
<1> QED
  BY <1>1, <1>2, <1>3, <1>4, <1>5, <1>6, <1>7, <1>8, <1>10, <1>11, <1>12 DEF Memory!Next

\* Whoever is shown a todo has given the same name and password as the one who
\* made it, for any number of clients, names and passwords.
THEOREM TodosKeepTheirUser == ServersSpec => []TodosStayWithTheirUser
<1>1. ServersInit => MemoryInv
  BY MemoryInit DEF ServersInit
<1>2. MemoryInv /\ [ServersNext]_allVars => MemoryInv'
  BY StepOfPart, MemoryStep
<1>3. MemoryInv => TodosStayWithTheirUser
  BY BelongsToOne DEF MemoryInv, Memory!TypeOK, TodosStayWithTheirUser,
                      Memory!TodosStayWithTheirUser
<1> QED
  BY <1>1, <1>2, <1>3, PTL DEF ServersSpec

-----------------------------------------------------------------------------
(* The lists of ch42 *)

\* What the proof needs of the types; the bounds of TypeOK are not among it.
TagsTyped ==
    /\ nextTagged \in Nat \ {0} /\ 1..(nextTagged - 1) \subseteq Tagged!Ids
    /\ tags \in [Tagged!Ids -> Nat]
    /\ lister \in [Readers -> {"idle", "naive", "batched"}]
    /\ listed \in [Readers -> SUBSET Tagged!Ids] /\ left \in [Readers -> SUBSET Tagged!Ids]
    /\ result \in [Readers -> [Tagged!Ids -> Nat]]
    /\ tagsBefore \in [Readers -> [Tagged!Ids -> Nat]]

\* Todos and tags only grow, so what was read lies between then and now.
TagsWithin ==
    \A r \in Readers :
        /\ listed[r] \subseteq 1..(nextTagged - 1) /\ left[r] \subseteq listed[r]
        /\ \A i \in Tagged!Ids : tagsBefore[r][i] <= tags[i]
        /\ \A i \in listed[r] \ left[r] : result[r][i] \in tagsBefore[r][i]..tags[i]

\* What a batched reader has read so far is still so: writers wait.
TagsFresh ==
    \A r \in Readers : lister[r] = "batched" =>
        /\ listed[r] = 1..(nextTagged - 1)
        /\ \A i \in listed[r] \ left[r] : result[r][i] = tags[i]

TagsInv == TagsTyped /\ TagsWithin /\ TagsFresh

\* A new todo is in no list yet, and no batched reader is under way.
LEMMA AddTodoKeeps == TagsInv /\ Tagged!AddTodo => TagsInv'
<1> SUFFICES ASSUME TagsInv, Tagged!AddTodo PROVE TagsInv'
  OBVIOUS
<1> USE DEF TagsInv
<1>1. TagsTyped'
  BY DEF TagsTyped, Tagged!AddTodo, Tagged!Ids
<1>2. TagsWithin'
  BY DEF TagsTyped, TagsWithin, Tagged!AddTodo, Tagged!Ids
<1>3. TagsFresh'
  BY DEF TagsTyped, Tagged!AddTodo, Tagged!Locked, TagsFresh
<1> QED
  BY <1>1, <1>2, <1>3

\* A new tag raises the upper bound of every list read so far.
LEMMA AddTagKeeps == ASSUME NEW i \in Tagged!Ids PROVE TagsInv /\ Tagged!AddTag(i) => TagsInv'
<1> SUFFICES ASSUME TagsInv, Tagged!AddTag(i) PROVE TagsInv'
  OBVIOUS
<1> USE DEF TagsInv
<1>1. TagsTyped'
  BY DEF TagsTyped, Tagged!AddTag
<1>2. \A j \in Tagged!Ids : tags[j] <= tags'[j] /\ tags'[j] \in Nat
  BY DEF TagsTyped, Tagged!AddTag
<1>3. TagsWithin'
  <2> SUFFICES ASSUME NEW r \in Readers
               PROVE  /\ listed[r] \subseteq 1..(nextTagged - 1) /\ left[r] \subseteq listed[r]
                      /\ \A j \in Tagged!Ids : tagsBefore[r][j] <= tags'[j]
                      /\ \A j \in listed[r] \ left[r] : result[r][j] \in tagsBefore[r][j]..tags'[j]
    BY DEF TagsWithin, Tagged!AddTag
  <2>1. /\ listed[r] \subseteq Tagged!Ids /\ tagsBefore[r] \in [Tagged!Ids -> Nat]
        /\ result[r] \in [Tagged!Ids -> Nat]
    BY DEF TagsTyped
  <2>2. \A j \in Tagged!Ids : tags[j] \in Nat /\ tagsBefore[r][j] \in Nat /\ result[r][j] \in Nat
    BY <2>1 DEF TagsTyped
  <2> QED
    BY <1>2, <2>1, <2>2 DEF TagsWithin
<1>4. TagsFresh'
  BY DEF TagsTyped, Tagged!AddTag, Tagged!Locked, TagsFresh
<1> QED
  BY <1>1, <1>3, <1>4

\* A list starts with all todos and none of their tags.
LEMMA StartListKeeps ==
    ASSUME NEW r \in Readers, NEW l \in {"naive", "batched"}
    PROVE  TagsInv /\ Tagged!Start(r, l) => TagsInv'
<1> SUFFICES ASSUME TagsInv, Tagged!Start(r, l) PROVE TagsInv'
  OBVIOUS
<1> USE DEF TagsInv
<1>1. TagsTyped'
  BY DEF TagsTyped, Tagged!Start, Tagged!NoTags
<1>2. TagsWithin'
  <2> SUFFICES ASSUME NEW s \in Readers
               PROVE  /\ listed'[s] \subseteq 1..(nextTagged - 1) /\ left'[s] \subseteq listed'[s]
                      /\ \A i \in Tagged!Ids : tagsBefore'[s][i] <= tags[i]
                      /\ \A i \in listed'[s] \ left'[s] :
                            result'[s][i] \in tagsBefore'[s][i]..tags[i]
    BY DEF TagsWithin, Tagged!Start
  <2>1. CASE s = r
    BY <2>1 DEF TagsTyped, Tagged!Start
  <2>2. CASE s # r
    BY <2>2 DEF TagsTyped, TagsWithin, Tagged!Start
  <2> QED
    BY <2>1, <2>2
<1>3. TagsFresh'
  BY DEF TagsTyped, Tagged!Start, TagsFresh
<1> QED
  BY <1>1, <1>2, <1>3

\* The tags of a todo are those at this moment.
LEMMA ReadTagsKeeps ==
    ASSUME NEW r \in Readers, NEW i \in Tagged!Ids
    PROVE  TagsInv /\ Tagged!ReadTags(r, i) => TagsInv'
<1> SUFFICES ASSUME TagsInv, Tagged!ReadTags(r, i) PROVE TagsInv'
  OBVIOUS
<1> USE DEF TagsInv
<1>1. TagsTyped'
  BY DEF TagsTyped, Tagged!ReadTags
<1>2. \A s \in Readers : left'[s] = (IF s = r THEN left[s] \ {i} ELSE left[s])
  BY DEF TagsTyped, Tagged!ReadTags
<1>3. \A s \in Readers, j \in Tagged!Ids :
         result'[s][j] = IF s = r /\ j = i THEN tags[i] ELSE result[s][j]
  BY DEF TagsTyped, Tagged!ReadTags
<1>4. \A s \in Readers : listed[s] \subseteq Tagged!Ids /\ \A j \in Tagged!Ids :
         tags[j] \in Nat /\ tagsBefore[s][j] \in Nat /\ tagsBefore[s][j] <= tags[j]
  BY DEF TagsTyped, TagsWithin
<1>5. TagsWithin'
  <2> SUFFICES ASSUME NEW s \in Readers
               PROVE  /\ listed[s] \subseteq 1..(nextTagged - 1) /\ left'[s] \subseteq listed[s]
                      /\ \A j \in Tagged!Ids : tagsBefore[s][j] <= tags[j]
                      /\ \A j \in listed[s] \ left'[s] :
                            result'[s][j] \in tagsBefore[s][j]..tags[j]
    BY DEF TagsWithin, Tagged!ReadTags
  <2>1. /\ listed[s] \subseteq 1..(nextTagged - 1) /\ left'[s] \subseteq listed[s]
        /\ \A j \in Tagged!Ids : tagsBefore[s][j] <= tags[j]
    BY <1>2 DEF TagsWithin
  <2>2. ASSUME NEW j \in listed[s] \ left'[s], s = r, j = i
        PROVE  result'[s][j] \in tagsBefore[s][j]..tags[j]
    BY <1>3, <1>4, <2>2
  <2>3. ASSUME NEW j \in listed[s] \ left'[s], ~(s = r /\ j = i)
        PROVE  result'[s][j] \in tagsBefore[s][j]..tags[j]
    <3>1. j \in Tagged!Ids /\ j \in listed[s] \ left[s]
      BY <1>2, <1>4, <2>3
    <3> QED
      BY <1>3, <2>3, <3>1 DEF TagsWithin
  <2> QED
    BY <2>1, <2>2, <2>3
<1>6. TagsFresh'
  BY <1>2, <1>3, <1>4 DEF Tagged!ReadTags, TagsFresh
<1> QED
  BY <1>1, <1>5, <1>6

\* Nothing is read or written.
LEMMA ReturnListKeeps == ASSUME NEW r \in Readers PROVE TagsInv /\ Tagged!Return(r) => TagsInv'
<1> SUFFICES ASSUME TagsInv, Tagged!Return(r) PROVE TagsInv'
  OBVIOUS
<1> USE DEF TagsInv
<1>1. TagsTyped' /\ TagsWithin'
  BY DEF TagsTyped, TagsWithin, Tagged!Return
<1>2. TagsFresh'
  BY DEF TagsTyped, TagsFresh, Tagged!Return
<1> QED
  BY <1>1, <1>2

\* TagsInv holds of an empty store that nobody reads.
LEMMA TagsInit == Tagged!Init => TagsInv
BY DEF Tagged!Init, TagsInv, TagsTyped, TagsWithin, TagsFresh, Tagged!NoTags, Tagged!Ids

\* Every step of the store keeps TagsInv.
LEMMA TagsStep == TagsInv /\ [Tagged!Next]_(Tagged!vars) => TagsInv'
<1> SUFFICES ASSUME TagsInv, [Tagged!Next]_(Tagged!vars) PROVE TagsInv'
  OBVIOUS
<1>1. CASE Tagged!AddTodo
  BY <1>1, AddTodoKeeps
<1>2. CASE \E i \in Tagged!Ids : Tagged!AddTag(i)
  BY <1>2, AddTagKeeps
<1>3. CASE \E r \in Readers : Tagged!List(r)
  <2> PICK r \in Readers : Tagged!List(r)
    BY <1>3
  <2>1. CASE Tagged!ListTodosNPlusOne(r) \/ Tagged!ListTodosBatched(r)
    BY <2>1, StartListKeeps DEF Tagged!ListTodosNPlusOne, Tagged!ListTodosBatched
  <2>2. CASE Tagged!Return(r)
    BY <2>2, ReturnListKeeps
  <2>3. CASE \E i \in Tagged!Ids : Tagged!ReadTags(r, i)
    BY <2>3, ReadTagsKeeps
  <2> QED
    BY <2>1, <2>2, <2>3 DEF Tagged!List
<1>4. CASE UNCHANGED Tagged!vars
  BY <1>4 DEF Tagged!vars, TagsInv, TagsTyped, TagsWithin, TagsFresh
<1> QED
  BY <1>1, <1>2, <1>3, <1>4 DEF Tagged!Next

\* A complete list has nothing left to read, so TagsInv says it is true.
LEMMA TagsTrue == TagsInv => Tagged!ListsAreTrue
BY DEF TagsInv, TagsWithin, TagsFresh, Tagged!ListsAreTrue, Tagged!BatchedIsSnapshot,
    Tagged!NaiveWithinCall, Tagged!Complete


\* A batched list of ch42 is the store at one instant, and a list read tag by tag
\* shows for each todo a number of tags that it had during the call; the client of
\* ch13 shows no body older than the age of its entry allows.
THEOREM WhatIsReadIsTrue == ServersSpec => []ReadsAreTrue
<1>1. ServersInit => TagsInv
  BY TagsInit DEF ServersInit
<1>2. TagsInv /\ [ServersNext]_allVars => TagsInv'
  BY StepOfPart, TagsStep
<1>3. TagsInv /\ (part = "http" => Http!StalenessBounded) => ReadsAreTrue
  BY TagsTrue DEF ReadsAreTrue
<1> QED
  BY <1>1, <1>2, <1>3, CachedReadsAreTrue, PTL DEF ServersSpec

-----------------------------------------------------------------------------
(* The repository of ch25 *)

\* The row that c is about to read is gone, or still its own or as its UPDATE or
\* a later one has left it; ids are not used twice.
RepoInv ==
    /\ Repo!TypeOK
    /\ \A c \in Callers : own[c] <= writes
    /\ \A c \in Callers : step[c] # "idle" => id[c] <= last
    /\ \A c \in Callers : step[c] = "created" /\ rows[id[c]] # NoRow => rows[id[c]].by = c
    /\ \A c \in Callers : step[c] = "updated" /\ rows[id[c]] # NoRow => rows[id[c]].wrote >= own[c]

\* What the steps below need of the types and the constants.
LEMMA RepoFacts ==
  ASSUME RepoInv
  PROVE  /\ MaxId \in Nat /\ MaxId >= 1 /\ MaxWrites \in Nat /\ NoRow \notin Repo!Row
         /\ last \in Nat /\ writes \in Nat
         /\ \A c \in Callers : id[c] \in Repo!Ids /\ own[c] \in Nat
         /\ \A i \in Repo!Ids : i \in Nat /\ (rows[i] # NoRow => rows[i] \in Repo!Row /\ i <= last)
BY SqlTodoRepoAssumption DEF RepoInv, Repo!TypeOK, Repo!Ids

\* The table is empty.
LEMMA RepoInit == Repo!Init => RepoInv
<1> SUFFICES ASSUME Repo!Init PROVE RepoInv
  OBVIOUS
<1>1. MaxId \in Nat /\ MaxId >= 1 /\ MaxWrites \in Nat /\ 1 \in Repo!Ids /\ 0 \in 0..MaxWrites
  BY SqlTodoRepoAssumption DEF Repo!Ids
<1>2. Repo!TypeOK
  BY <1>1 DEF Repo!Init, Repo!TypeOK
<1> QED
  BY <1>1, <1>2 DEF Repo!Init, RepoInv

\* The caller c has written row i and is about to read it.
LEMMA RepoThenGet ==
  ASSUME RepoInv, NEW c \in Callers, NEW l \in {"created", "updated"}, NEW i \in Repo!Ids,
         Repo!ThenGet(c, l, i)
  PROVE  /\ step' \in [Callers -> {"idle", "created", "updated"}]
         /\ id' \in [Callers -> Repo!Ids] /\ answer' \in [Callers -> Repo!Row \cup {NoRow}]
         /\ step'[c] = l /\ id'[c] = i
         /\ \A d \in Callers : d # c => step'[d] = step[d] /\ id'[d] = id[d]
         /\ \A d \in Callers : answer'[d] # NoRow => answer[d] # NoRow
BY DEF RepoInv, Repo!TypeOK, Repo!ThenGet

LEMMA RepoInsert == ASSUME NEW c \in Callers, RepoInv, Repo!Insert(c) PROVE RepoInv'
<1> DEFINE i == last + 1
           row == [by |-> c, done |-> FALSE, wrote |-> 0]
<1>1. i \in Repo!Ids /\ last < i /\ row \in Repo!Row /\ row.by = c /\ rows[i] = NoRow
  BY RepoFacts DEF Repo!Insert, Repo!Ids, Repo!Row, RepoInv, Repo!TypeOK
<1>2. /\ last' = i /\ rows' = [rows EXCEPT ![i] = row] /\ Repo!ThenGet(c, "created", i)
      /\ UNCHANGED <<writes, own>>
  BY DEF Repo!Insert
<1> HIDE DEF row
<1>3. /\ rows' \in [Repo!Ids -> Repo!Row \cup {NoRow}] /\ rows'[i] = row
      /\ \A j \in Repo!Ids : j # i => rows'[j] = rows[j]
  BY <1>1, <1>2 DEF RepoInv, Repo!TypeOK
<1>4. Repo!TypeOK'
  BY <1>1, <1>2, <1>3, RepoThenGet, RepoFacts DEF RepoInv, Repo!TypeOK, Repo!Ids
<1>5. \A d \in Callers : d # c /\ step[d] # "idle" => id[d] # i
  BY RepoFacts DEF RepoInv
<1> QED
  BY <1>1, <1>2, <1>3, <1>4, <1>5, RepoThenGet, RepoFacts DEF RepoInv

LEMMA RepoUpdate ==
  ASSUME NEW c \in Callers, NEW i \in Repo!Ids, NEW d \in BOOLEAN, RepoInv, Repo!Update(c, i, d)
  PROVE  RepoInv'
<1> DEFINE n == writes + 1
           row == [rows[i] EXCEPT !.done = d, !.wrote = n]
<1>1. n \in 0..MaxWrites /\ rows[i] \in Repo!Row /\ rows[i] # NoRow /\ i <= last
  BY RepoFacts DEF Repo!Update
<1> HIDE DEF n
<1>2. row \in Repo!Row /\ row.by = rows[i].by /\ row.wrote = n
  BY <1>1 DEF Repo!Row
<1>3. writes' = n /\ own' = [own EXCEPT ![c] = n] /\ Repo!ThenGet(c, "updated", i)
      /\ UNCHANGED last
  BY DEF Repo!Update, n
<1>4. rows' = [rows EXCEPT ![i] = row]
  BY DEF Repo!Update, n
<1> HIDE DEF row
<1>5. /\ rows' \in [Repo!Ids -> Repo!Row \cup {NoRow}] /\ rows'[i] = row
      /\ \A j \in Repo!Ids : j # i => rows'[j] = rows[j]
  BY <1>2, <1>4 DEF RepoInv, Repo!TypeOK
<1>6. /\ own' \in [Callers -> 0..MaxWrites] /\ own'[c] = n
      /\ \A e \in Callers : e # c => own'[e] = own[e]
  BY <1>1, <1>3 DEF RepoInv, Repo!TypeOK
<1>7. Repo!TypeOK'
  BY <1>1, <1>3, <1>5, <1>6, RepoThenGet, RepoFacts DEF RepoInv, Repo!TypeOK
<1>8. n > writes /\ n \in Nat /\ writes \in Nat
  BY RepoFacts DEF n
<1>9. \A e \in Callers : own'[e] <= n /\ (e # c => own[e] < n)
  BY <1>6, <1>8, RepoFacts DEF RepoInv
<1> QED
  BY <1>1, <1>2, <1>3, <1>5, <1>6, <1>7, <1>8, <1>9, RepoThenGet, RepoFacts DEF RepoInv

\* A row that is deleted answers nobody.
LEMMA RepoDeleted ==
  ASSUME RepoInv, UNCHANGED <<last, writes, step, id, own, answer>>,
         rows' \in [Repo!Ids -> Repo!Row \cup {NoRow}],
         \A i \in Repo!Ids : rows'[i] \in {rows[i], NoRow}
  PROVE  RepoInv'
BY RepoFacts DEF RepoInv, Repo!TypeOK

LEMMA RepoStep == RepoInv /\ [Repo!Next]_(Repo!vars) => RepoInv'
<1> SUFFICES ASSUME RepoInv, [Repo!Next]_(Repo!vars) PROVE RepoInv'
  OBVIOUS
<1>1. ASSUME NEW c \in Callers, Repo!Read(c) \/ Repo!ReadFails(c) PROVE RepoInv'
  <2>1. /\ UNCHANGED <<rows, last, writes, id, own>>
        /\ step' = [step EXCEPT ![c] = "idle"]
    BY <1>1 DEF Repo!Read, Repo!ReadFails
  <2>2. answer' \in [Callers -> Repo!Row \cup {NoRow}]
    BY <1>1, RepoFacts DEF Repo!Read, Repo!ReadFails, RepoInv, Repo!TypeOK
  <2> QED
    BY <2>1, <2>2 DEF RepoInv, Repo!TypeOK
<1>2. ASSUME NEW i \in Repo!Ids, Repo!Delete(i) PROVE RepoInv'
  BY <1>2, RepoDeleted DEF Repo!Delete, RepoInv, Repo!TypeOK
<1>3. CASE Repo!DeleteDone
  BY <1>3, RepoDeleted DEF Repo!DeleteDone, RepoInv, Repo!TypeOK
<1>4. CASE UNCHANGED Repo!vars
  BY <1>4 DEF Repo!vars, RepoInv, Repo!TypeOK
<1> QED
  BY <1>1, <1>2, <1>3, <1>4, RepoInsert, RepoUpdate DEF Repo!Next

\* The row that is read is the one that was written, or it has been written since.
LEMMA RepoAnswers ==
  ASSUME RepoInv, [Repo!Next]_(Repo!vars), NEW c \in Callers,
         answer[c] = NoRow, answer'[c] # NoRow
  PROVE  IF step[c] = "created" THEN answer'[c].by = c ELSE answer'[c].wrote >= own[c]
<1>1. ASSUME NEW d \in Callers, Repo!Insert(d) PROVE FALSE
  <2>1. last + 1 \in Repo!Ids /\ Repo!ThenGet(d, "created", last + 1)
    BY <1>1, RepoFacts DEF Repo!Insert, Repo!Ids
  <2> QED
    BY <2>1, RepoThenGet
<1>2. ASSUME NEW d \in Callers, NEW i \in Repo!Ids, NEW b \in BOOLEAN, Repo!Update(d, i, b)
      PROVE  FALSE
  BY <1>2, RepoThenGet DEF Repo!Update
<1>3. ASSUME NEW d \in Callers, Repo!Read(d)
      PROVE  step[c] # "idle" /\ answer'[c] = rows[id[c]]
  BY <1>3 DEF Repo!Read, RepoInv, Repo!TypeOK
<1>4. step[c] # "idle" /\ answer'[c] = rows[id[c]]
  BY <1>1, <1>2, <1>3 DEF Repo!Next, Repo!ReadFails, Repo!Delete, Repo!DeleteDone, Repo!vars
<1> QED
  BY <1>4 DEF RepoInv, Repo!TypeOK

-----------------------------------------------------------------------------
(* The in-memory stores of ch23, ch28, ch29 and ch34 *)

\* h may be writing the fields of its todo.
Writing(h) == does[h] \in {"locked", "loaded"}

\* Of the string that h sets, one word is in memory and the other is not.
HalfWritten(h) == \E w \in Store!String : todo[h] \cap Store!String = {w}

\* What h has done so far: what it has written is in memory as long as it has the
\* lock, or the todo to itself, and nothing older is there when it encodes.
StorePart(h) ==
    /\ ptr[h] < nextStored
    /\ does[h] # "idle" => ptr[h] >= 1
    /\ ownStore[h] <= stores
    /\ does[h] \in {"idle", "found"} => mine[h] = {} /\ ownStore[h] = 0
    /\ does[h] # "encode" => read[h] = Store!None
    /\ does[h] = "locked" => holder = h /\ app \in {"ch23", "ch29"}
    /\ does[h] = "loaded" => app = "ch34"
    /\ ~Writing(h) => todo[h] = {}
    /\ todo[h] \subseteq mine[h]
    /\ Writing(h) =>
           /\ Store!String \subseteq mine[h] \/ Store!String \cap mine[h] = {}
           /\ \A w \in mine[h] \ todo[h] : words[ptr[h]][w] = ownStore[h]
    /\ does[h] = "encode" => \A w \in mine[h] : words[ptr[h]][w] >= ownStore[h]
    /\ \A w \in mine[h] : read[h][w] # -1 => read[h][w] >= ownStore[h]

\* One handler at a time writes a todo, after those that encode it have.
StorePair(g, h) ==
    g # h /\ ptr[g] = ptr[h] /\ Writing(g) =>
        /\ ~Writing(h)
        /\ does[h] = "encode" => ownStore[h] <= ownStore[g]

StoreInv ==
    /\ Store!TypeOK
    /\ \A h \in Handlers : StorePart(h)
    /\ \A g, h \in Handlers : StorePair(g, h)
    /\ \A i \in Store!Ids :
           \/ words[i]["data"] = words[i]["len"]
           \/ \E h \in Handlers : Writing(h) /\ ptr[h] = i /\ HalfWritten(h)

\* What the steps below need of the types and the constants.
LEMMA StoreFacts ==
  ASSUME StoreInv
  PROVE  /\ MaxStored \in Nat /\ MaxStores \in Nat /\ stores \in 0..MaxStores
         /\ nextStored \in 1..(MaxStored + 1) /\ ids \subseteq 1..(nextStored - 1)
         /\ holder \in Handlers \cup {Nobody} /\ Nobody \notin Handlers
         /\ \A i \in ids : i \in Store!Ids /\ i < nextStored
         /\ \A i \in Store!Ids, w \in Store!Words : words[i][w] \in 0..MaxStores
         /\ \A h \in Handlers :
               /\ does[h] \in {"idle", "found", "locked", "loaded", "encode"}
               /\ ptr[h] \in 0..MaxStored /\ (does[h] # "idle" => ptr[h] \in Store!Ids)
               /\ todo[h] \subseteq Store!Words /\ mine[h] \subseteq Store!Words
               /\ ownStore[h] \in 0..MaxStores
               /\ \A w \in Store!Words : read[h][w] \in -1..MaxStores
<1>1. Store!TypeOK /\ MaxStored \in Nat /\ MaxStores \in Nat /\ Nobody \notin Handlers
  BY SharedStoreAssumption DEF StoreInv
<1>2. \A h \in Handlers : does[h] # "idle" => ptr[h] >= 1
  BY DEF StoreInv, StorePart
<1> QED
  BY <1>1, <1>2 DEF Store!TypeOK, Store!Ids

\* The store is empty.
LEMMA StoreInit == Store!Init => StoreInv
<1> SUFFICES ASSUME Store!Init PROVE StoreInv
  OBVIOUS
<1> USE SharedStoreAssumption DEF Store!Init
<1>1. /\ words \in [Store!Ids -> [Store!Words -> 0..MaxStores]]
      /\ read \in [Handlers -> [Store!Words -> -1..MaxStores]]
  <2>1. 0 \in 0..MaxStores /\ -1 \in -1..MaxStores
    OBVIOUS
  <2>2. Store!None \in [Store!Words -> -1..MaxStores]
    BY <2>1 DEF Store!None
  <2>3. [w \in Store!Words |-> 0] \in [Store!Words -> 0..MaxStores]
    BY <2>1
  <2> QED
    BY <2>2, <2>3
<1>2. /\ ptr \in [Handlers -> 0..MaxStored] /\ ownStore \in [Handlers -> 0..MaxStores]
      /\ does \in [Handlers -> {"idle", "found", "locked", "loaded", "encode"}]
      /\ todo \in [Handlers -> SUBSET Store!Words] /\ mine \in [Handlers -> SUBSET Store!Words]
  OBVIOUS
<1>3. Store!TypeOK
  BY <1>1, <1>2 DEF Store!TypeOK
<1>4. \A i \in Store!Ids : words[i]["data"] = 0 /\ words[i]["len"] = 0
  BY DEF Store!Ids, Store!Words, Store!String
<1> QED
  BY <1>3, <1>4 DEF StoreInv, StorePart, StorePair, Writing

\* Nothing of another handler changes.
OthersStay(h) ==
    \A g \in Handlers : g # h =>
        UNCHANGED <<does[g], ptr[g], todo[g], ownStore[g], mine[g], read[g]>>

\* A request begins: h reads todo i, or is to write the words ws of it, which
\* nobody else is writing.
LEMMA StoreBegins ==
  ASSUME StoreInv, Store!TypeOK', NEW h \in Handlers, NEW i \in Store!Ids, NEW ws,
         does[h] = "idle", OthersStay(h), UNCHANGED <<app, words, read>>,
         ptr'[h] = i, todo'[h] = ws, mine'[h] = ws, i < nextStored', nextStored <= nextStored',
         stores <= stores',
         \/ does'[h] \in {"found", "encode"} /\ ws = {} /\ ownStore'[h] = 0 /\ holder' = holder
         \/ /\ ownStore'[h] = stores' /\ stores < stores'
            /\ Store!String \subseteq ws \/ Store!String \cap ws = {}
            /\ \A g \in Handlers : Writing(g) => ptr[g] # i
            /\ \/ does'[h] = "locked" /\ holder = Nobody /\ holder' = h /\ app \in {"ch23", "ch29"}
               \/ does'[h] = "loaded" /\ app = "ch34" /\ holder' = holder
  PROVE  StoreInv'
<1> USE StoreFacts
<1>1. stores' \in Nat /\ nextStored' \in Nat /\ i >= 1
  BY DEF Store!TypeOK, Store!Ids
<1>2. StorePart(h)'
  <2>1. read'[h] = Store!None /\ mine'[h] \subseteq Store!Words
    BY DEF StoreInv, StorePart, Store!TypeOK
  <2>2. \A w \in mine'[h] : read'[h][w] = -1
    BY <2>1 DEF Store!None
  <2>3. mine'[h] \ todo'[h] = {}
    OBVIOUS
  <2>4. CASE does'[h] \in {"found", "encode"}
    BY <1>1, <2>1, <2>2, <2>4 DEF StorePart, Writing
  <2>5. CASE does'[h] \in {"locked", "loaded"}
    BY <1>1, <2>1, <2>2, <2>3, <2>5 DEF StorePart, Writing
  <2> QED
    BY <2>4, <2>5
<1>3. \A g \in Handlers : g # h => StorePart(g)'
  BY <1>1 DEF StoreInv, StorePart, Writing, OthersStay
<1>4. \A f, g \in Handlers : StorePair(f, g)'
  <2> SUFFICES ASSUME NEW f \in Handlers, NEW g \in Handlers PROVE StorePair(f, g)'
    OBVIOUS
  <2>1. CASE f # h /\ g # h
    BY <2>1 DEF StoreInv, StorePair, Writing, OthersStay
  <2>2. CASE f = h /\ g # h
    BY <1>1, <2>2 DEF StoreInv, StorePart, StorePair, Writing, OthersStay
  <2>3. CASE f # h /\ g = h
    BY <1>1, <2>3 DEF StoreInv, StorePart, StorePair, Writing, OthersStay
  <2> QED
    BY <2>1, <2>2, <2>3 DEF StorePair
<1>5. ASSUME NEW j \in Store!Ids
      PROVE  \/ words'[j]["data"] = words'[j]["len"]
             \/ \E g \in Handlers : Writing(g)' /\ ptr'[g] = j /\ HalfWritten(g)'
  <2>1. CASE words[j]["data"] = words[j]["len"]
    BY <2>1
  <2>2. CASE words[j]["data"] # words[j]["len"]
    <3>1. PICK g \in Handlers : Writing(g) /\ ptr[g] = j /\ HalfWritten(g)
      BY <2>2 DEF StoreInv
    <3>2. g # h
      BY <3>1 DEF Writing
    <3> QED
      BY <3>1, <3>2 DEF Writing, HalfWritten, OthersStay
  <2> QED
    BY <2>1, <2>2
<1> QED
  BY <1>2, <1>3, <1>4, <1>5 DEF StoreInv

\* Create, Get and TodoCtx: h has a pointer to todo i, and nothing to write.
LEMMA StoreReads ==
  ASSUME StoreInv, NEW h \in Handlers, NEW i \in Store!Ids, NEW l \in {"found", "encode"},
         does[h] = "idle", Store!Load(h, l, i), i < nextStored',
         nextStored' \in {nextStored, nextStored + 1}, nextStored' \in 1..(MaxStored + 1),
         ids' \subseteq 1..(nextStored' - 1),
         UNCHANGED <<app, words, holder, todo, ownStore, mine, read, stores>>
  PROVE  StoreInv'
<1>1. does' = [does EXCEPT ![h] = l] /\ ptr' = [ptr EXCEPT ![h] = i]
  BY DEF Store!Load, Store!Goto
<1>2. Store!TypeOK'
  <2>1. /\ i \in 0..MaxStored /\ nextStored' \in 1..(MaxStored + 1)
        /\ ids' \subseteq 1..(nextStored' - 1)
    BY StoreFacts DEF Store!Ids
  <2>2. /\ ptr' \in [Handlers -> 0..MaxStored]
        /\ does' \in [Handlers -> {"idle", "found", "locked", "loaded", "encode"}]
    BY <1>1, <2>1 DEF StoreInv, Store!TypeOK
  <2> QED
    BY <2>1, <2>2 DEF StoreInv, Store!TypeOK
<1>3. does'[h] = l /\ ptr'[h] = i /\ OthersStay(h)
  BY <1>1 DEF StoreInv, Store!TypeOK, OthersStay
<1>4. todo'[h] = {} /\ mine'[h] = {} /\ ownStore'[h] = 0
  BY DEF StoreInv, StorePart, Writing
<1>5. nextStored <= nextStored' /\ stores <= stores'
  BY StoreFacts
<1> QED
  BY <1>2, <1>3, <1>4, <1>5, StoreBegins

\* AddV2, Update, Replace and Patch: h has the words ws of todo i to write.
LEMMA StoreWrites ==
  ASSUME StoreInv, NEW h \in Handlers, NEW i \in Store!Ids,
         NEW ws \in {{}, Store!String, {"done"}, Store!Words}, NEW l \in {"locked", "loaded"},
         does[h] = "idle", Store!Load(h, l, i), Store!Sets(h, ws), i < nextStored',
         nextStored' \in {nextStored, nextStored + 1}, nextStored' \in 1..(MaxStored + 1),
         ids' \subseteq 1..(nextStored' - 1), UNCHANGED <<app, words, read>>,
         \/ l = "locked" /\ holder = Nobody /\ holder' = h /\ app \in {"ch23", "ch29"}
         \/ l = "loaded" /\ app = "ch34" /\ holder' = holder /\ i = nextStored
  PROVE  StoreInv'
<1>1. does' = [does EXCEPT ![h] = l] /\ ptr' = [ptr EXCEPT ![h] = i]
  BY DEF Store!Load, Store!Goto
<1>2. /\ ownStore' = [ownStore EXCEPT ![h] = stores'] /\ todo' = [todo EXCEPT ![h] = ws]
      /\ mine' = [mine EXCEPT ![h] = ws]
      /\ stores' = stores + 1 /\ stores' \in 0..MaxStores
  BY StoreFacts DEF Store!Sets
<1>3. ws \subseteq Store!Words /\ (Store!String \subseteq ws \/ Store!String \cap ws = {})
  BY DEF Store!Words, Store!String
<1>4. Store!TypeOK'
  <2>1. /\ i \in 0..MaxStored /\ nextStored' \in 1..(MaxStored + 1)
        /\ ids' \subseteq 1..(nextStored' - 1)
    BY StoreFacts DEF Store!Ids
  <2>2. /\ ptr' \in [Handlers -> 0..MaxStored]
        /\ does' \in [Handlers -> {"idle", "found", "locked", "loaded", "encode"}]
    BY <1>1, <2>1 DEF StoreInv, Store!TypeOK
  <2>3. /\ ownStore' \in [Handlers -> 0..MaxStores]
        /\ todo' \in [Handlers -> SUBSET Store!Words] /\ mine' \in [Handlers -> SUBSET Store!Words]
    BY <1>2, <1>3 DEF StoreInv, Store!TypeOK
  <2>4. holder' \in Handlers \cup {Nobody}
    BY StoreFacts
  <2> QED
    BY <1>2, <2>1, <2>2, <2>3, <2>4 DEF StoreInv, Store!TypeOK
<1>5. /\ does'[h] = l /\ ptr'[h] = i /\ ownStore'[h] = stores' /\ todo'[h] = ws /\ mine'[h] = ws
      /\ OthersStay(h)
  BY <1>1, <1>2 DEF StoreInv, Store!TypeOK, OthersStay
<1>6. \A g \in Handlers : Writing(g) => ptr[g] # i
  <2>1. CASE holder = Nobody /\ app \in {"ch23", "ch29"}
    BY <2>1, StoreFacts DEF StoreInv, StorePart, Writing
  <2>2. CASE i = nextStored
    BY <2>2, StoreFacts DEF StoreInv, StorePart
  <2> QED
    BY <2>1, <2>2
<1>7. stores < stores' /\ nextStored <= nextStored' /\ stores <= stores'
  BY <1>2, StoreFacts
<1> QED
  BY <1>3, <1>4, <1>5, <1>6, <1>7, StoreBegins

\* One more word of the todo of h is in memory, which only h is writing.
LEMMA StoreWriteWord ==
  ASSUME StoreInv, NEW h \in Handlers, NEW w \in Store!Words, Writing(h), Store!Write(h, w),
         UNCHANGED <<app, ids, nextStored, holder, does, ptr, ownStore, mine, read, stores>>
  PROVE  StoreInv'
<1> DEFINE i == ptr[h]
<1>1. i \in Store!Ids /\ w \in todo[h] /\ todo[h] \subseteq mine[h] /\ ownStore[h] \in 0..MaxStores
  BY StoreFacts DEF Store!Write, Writing, StoreInv, StorePart
<1>2. words' = [words EXCEPT ![i][w] = ownStore[h]] /\ todo' = [todo EXCEPT ![h] = @ \ {w}]
  BY DEF Store!Write
<1>3. /\ words' \in [Store!Ids -> [Store!Words -> 0..MaxStores]]
      /\ \A j \in Store!Ids, v \in Store!Words :
            words'[j][v] = IF j = i /\ v = w THEN ownStore[h] ELSE words[j][v]
  BY <1>1, <1>2 DEF StoreInv, Store!TypeOK
<1>4. /\ todo' \in [Handlers -> SUBSET Store!Words] /\ todo'[h] = todo[h] \ {w}
      /\ \A g \in Handlers : g # h => todo'[g] = todo[g]
  BY <1>2 DEF StoreInv, Store!TypeOK
<1>5. Store!TypeOK'
  BY <1>3, <1>4 DEF StoreInv, Store!TypeOK
<1> HIDE DEF i
<1>6. StorePart(h)'
  <2>1. StorePart(h)
    BY DEF StoreInv
  <2>2. \A v \in mine[h] \ todo'[h] : words'[ptr[h]][v] = ownStore[h]
    BY <1>1, <1>3, <1>4, <2>1, StoreFacts DEF StorePart, i, Writing
  <2> QED
    BY <1>4, <2>1, <2>2 DEF StorePart, Writing
<1>7. ASSUME NEW g \in Handlers, g # h PROVE StorePart(g)'
  <2>1. StorePart(g) /\ StorePair(h, g) /\ todo'[g] = todo[g]
    BY <1>4, <1>7 DEF StoreInv
  <2>2. Writing(g) => ptr[g] # i
    BY <1>7, <2>1 DEF StorePair, i
  <2>3. does[g] = "encode" /\ ptr[g] = i => ownStore[g] <= ownStore[h]
    BY <1>7, <2>1 DEF StorePair, i
  <2>4. Writing(g) => \A v \in mine[g] \ todo[g] : words'[ptr[g]][v] = ownStore[g]
    BY <1>3, <2>1, <2>2, StoreFacts DEF StorePart, Writing
  <2>5. does[g] = "encode" => \A v \in mine[g] : words'[ptr[g]][v] >= ownStore[g]
    BY <1>3, <2>1, <2>3, StoreFacts DEF StorePart
  <2> QED
    BY <2>1, <2>4, <2>5 DEF StorePart, Writing
<1>8. \A f, g \in Handlers : StorePair(f, g)'
  BY DEF StoreInv, StorePair, Writing
<1>9. ASSUME NEW j \in Store!Ids
      PROVE  \/ words'[j]["data"] = words'[j]["len"]
             \/ \E g \in Handlers : Writing(g)' /\ ptr'[g] = j /\ HalfWritten(g)'
  <2>1. {"data", "len"} \subseteq Store!Words
    BY DEF Store!Words, Store!String
  <2>2. CASE j # i
    <3>1. words'[j]["data"] = words[j]["data"] /\ words'[j]["len"] = words[j]["len"]
      BY <1>3, <2>1, <2>2
    <3>2. \A g \in Handlers : ptr[g] = j => todo'[g] = todo[g]
      BY <1>4, <2>2 DEF i
    <3> QED
      BY <3>1, <3>2 DEF StoreInv, Writing, HalfWritten
  <2>3. CASE j = i /\ w = "done"
    <3>1. words'[j]["data"] = words[j]["data"] /\ words'[j]["len"] = words[j]["len"]
      BY <1>3, <2>1, <2>3
    <3>2. \A g \in Handlers : todo'[g] \cap Store!String = todo[g] \cap Store!String
      BY <1>4, <2>3 DEF Store!String
    <3> QED
      BY <3>1, <3>2 DEF StoreInv, Writing, HalfWritten
  <2>4. CASE j = i /\ w # "done"
    <3>1. w \in Store!String /\ Store!String \subseteq mine[h]
      BY <1>1, <2>4 DEF StoreInv, StorePart, Writing, Store!Words, Store!String
    <3>2. CASE todo[h] \cap Store!String = Store!String
      BY <1>4, <2>4, <3>1, <3>2 DEF Writing, HalfWritten, i, Store!String
    <3>3. CASE todo[h] \cap Store!String = {w}
      <4>1. \A v \in Store!String : words'[i][v] = ownStore[h]
        <5> SUFFICES ASSUME NEW v \in Store!String PROVE words'[i][v] = ownStore[h]
          OBVIOUS
        <5>1. v # w => v \in mine[h] \ todo[h]
          BY <3>1, <3>3
        <5>2. v # w => words[i][v] = ownStore[h]
          BY <5>1 DEF StoreInv, StorePart, i
        <5> QED
          BY <1>1, <1>3, <5>2 DEF Store!Words
      <4> QED
        BY <2>4, <4>1 DEF Store!String
    <3> QED
      BY <1>1, <3>1, <3>2, <3>3 DEF Store!String
  <2> QED
    BY <2>2, <2>3, <2>4
<1> QED
  BY <1>5, <1>6, <1>7, <1>8, <1>9 DEF StoreInv

\* ch28: nobody has the lock for more than a step, and the number is the highest.
LEMMA StoreMarkDone ==
  ASSUME StoreInv, NEW h \in Handlers, app = "ch28", Store!MarkDone(h)
  PROVE  StoreInv'
<1> DEFINE i == ptr[h]
           n == stores + 1
<1>1. i \in Store!Ids /\ n \in 0..MaxStores /\ stores \in Nat /\ does[h] = "found"
      /\ todo[h] = {} /\ read[h] = Store!None
  BY StoreFacts DEF Store!MarkDone, StoreInv, StorePart, Writing
<1>2. /\ stores' = n /\ words' = [words EXCEPT ![i]["done"] = n]
      /\ ownStore' = [ownStore EXCEPT ![h] = n] /\ mine' = [mine EXCEPT ![h] = {"done"}]
      /\ does' = [does EXCEPT ![h] = "encode"]
      /\ UNCHANGED <<app, ids, nextStored, holder, ptr, todo, read>>
  BY DEF Store!MarkDone, Store!Goto
<1> HIDE DEF i, n
<1>3. n = stores + 1
  BY DEF n
<1>4. "done" \in Store!Words /\ {"data", "len"} \subseteq Store!Words
  BY DEF Store!Words, Store!String
<1>5. /\ words' \in [Store!Ids -> [Store!Words -> 0..MaxStores]]
      /\ \A j \in Store!Ids, v \in Store!Words :
            words'[j][v] = IF j = i /\ v = "done" THEN n ELSE words[j][v]
  BY <1>1, <1>2, <1>4 DEF StoreInv, Store!TypeOK
<1>6. /\ ownStore' \in [Handlers -> 0..MaxStores] /\ mine' \in [Handlers -> SUBSET Store!Words]
      /\ does' \in [Handlers -> {"idle", "found", "locked", "loaded", "encode"}]
  BY <1>1, <1>2, <1>4 DEF StoreInv, Store!TypeOK
<1>7. does'[h] = "encode" /\ ownStore'[h] = n /\ mine'[h] = {"done"} /\ OthersStay(h)
  BY <1>2 DEF StoreInv, Store!TypeOK, OthersStay
<1>8. Store!TypeOK'
  BY <1>1, <1>2, <1>5, <1>6 DEF StoreInv, Store!TypeOK
<1>9. \A g \in Handlers : ~Writing(g)
  BY DEF StoreInv, StorePart, Writing
<1>10. StorePart(h)'
  <2>1. StorePart(h) /\ words'[ptr[h]]["done"] = n /\ read[h]["done"] = -1
    BY <1>1, <1>4, <1>5 DEF StoreInv, i, Store!None
  <2> QED
    BY <1>1, <1>2, <1>7, <2>1, StoreFacts DEF StorePart, Writing
<1>11. ASSUME NEW g \in Handlers, g # h PROVE StorePart(g)'
  <2>1. StorePart(g) /\ UNCHANGED <<does[g], ptr[g], todo[g], ownStore[g], mine[g], read[g]>>
    BY <1>7, <1>11 DEF StoreInv, OthersStay
  <2>2. does[g] = "encode" => \A v \in mine[g] : words'[ptr[g]][v] >= ownStore[g]
    <3> SUFFICES ASSUME does[g] = "encode", NEW v \in mine[g]
                 PROVE  words'[ptr[g]][v] >= ownStore[g]
      OBVIOUS
    <3>1. ptr[g] \in Store!Ids /\ v \in Store!Words /\ words[ptr[g]][v] >= ownStore[g]
          /\ ownStore[g] <= stores /\ ownStore[g] \in Nat
      BY <2>1, StoreFacts DEF StorePart
    <3> QED
      BY <1>1, <1>3, <1>5, <3>1
  <2> QED
    BY <1>1, <1>2, <1>3, <1>9, <2>1, <2>2, StoreFacts DEF StorePart, Writing
<1>12. \A f, g \in Handlers : StorePair(f, g)'
  BY <1>7, <1>9 DEF StorePair, Writing, OthersStay
<1>13. \A j \in Store!Ids : words'[j]["data"] = words'[j]["len"]
  <2>1. \A j \in Store!Ids : words[j]["data"] = words[j]["len"]
    BY <1>9 DEF StoreInv
  <2> QED
    BY <1>4, <1>5, <2>1
<1> QED
  BY <1>8, <1>10, <1>11, <1>12, <1>13 DEF StoreInv

\* All is written: what the request sets is in memory.
LEMMA StoreWritten ==
  ASSUME StoreInv, NEW h \in Handlers, Store!Written(h)
  PROVE  StoreInv'
<1>1. /\ Writing(h) /\ todo[h] = {} /\ does' = [does EXCEPT ![h] = "encode"]
      /\ holder' = IF holder = h THEN Nobody ELSE holder
      /\ UNCHANGED <<app, ids, nextStored, words, ptr, todo, ownStore, mine, read, stores>>
  BY DEF Store!Written, Store!Goto, Writing
<1>2. does'[h] = "encode" /\ (\A g \in Handlers : g # h => does'[g] = does[g])
  BY <1>1 DEF StoreInv, Store!TypeOK
<1>3. Store!TypeOK'
  BY <1>1 DEF StoreInv, Store!TypeOK
<1>4. StorePart(h)'
  <2>1. StorePart(h) /\ ptr[h] \in Store!Ids /\ mine[h] \subseteq Store!Words
    BY <1>1, StoreFacts DEF StoreInv, Writing
  <2>2. \A w \in mine[h] : words[ptr[h]][w] = ownStore[h] /\ words[ptr[h]][w] \in Nat
    BY <1>1, <2>1, StoreFacts DEF StorePart
  <2> QED
    BY <1>1, <1>2, <2>1, <2>2, StoreFacts DEF StorePart, Writing, Store!None
<1>5. \A g \in Handlers : g # h => StorePart(g)'
  BY <1>1, <1>2 DEF StoreInv, StorePart, Writing
<1>6. \A f, g \in Handlers : StorePair(f, g)'
  BY <1>1, <1>2 DEF StoreInv, StorePair, Writing
<1>7. ASSUME NEW j \in Store!Ids
      PROVE  \/ words'[j]["data"] = words'[j]["len"]
             \/ \E g \in Handlers : Writing(g)' /\ ptr'[g] = j /\ HalfWritten(g)'
  <2>1. ~HalfWritten(h)
    BY <1>1 DEF HalfWritten
  <2> QED
    BY <1>1, <1>2, <2>1 DEF StoreInv, Writing, HalfWritten
<1> QED
  BY <1>3, <1>4, <1>5, <1>6, <1>7 DEF StoreInv

\* A word is read, which is not older than what the request has set.
LEMMA StoreEncode ==
  ASSUME StoreInv, NEW h \in Handlers, NEW w \in Store!Words, Store!Encode(h, w)
  PROVE  StoreInv'
<1>1. /\ does[h] = "encode" /\ read' = [read EXCEPT ![h][w] = words[ptr[h]][w]]
      /\ UNCHANGED <<app, ids, nextStored, words, holder, does, ptr, todo, ownStore, mine, stores>>
  BY DEF Store!Encode
<1>2. words[ptr[h]][w] \in 0..MaxStores /\ MaxStores \in Nat /\ mine[h] \subseteq Store!Words
  BY <1>1, StoreFacts
<1>3. /\ read' \in [Handlers -> [Store!Words -> -1..MaxStores]]
      /\ \A g \in Handlers : g # h => read'[g] = read[g]
      /\ \A v \in Store!Words : read'[h][v] = IF v = w THEN words[ptr[h]][w] ELSE read[h][v]
  BY <1>1, <1>2 DEF StoreInv, Store!TypeOK
<1>4. Store!TypeOK'
  BY <1>1, <1>3 DEF StoreInv, Store!TypeOK
<1>5. StorePart(h)'
  BY <1>1, <1>2, <1>3 DEF StoreInv, StorePart, Writing
<1>6. \A g \in Handlers : g # h => StorePart(g)'
  BY <1>1, <1>3 DEF StoreInv, StorePart, Writing
<1> QED
  BY <1>1, <1>4, <1>5, <1>6 DEF StoreInv, StorePair, Writing, HalfWritten

\* The request is over.
LEMMA StoreAnswer ==
  ASSUME StoreInv, NEW h \in Handlers, Store!Answer(h)
  PROVE  StoreInv'
<1>1. /\ does[h] = "encode" /\ does' = [does EXCEPT ![h] = "idle"] /\ ptr' = [ptr EXCEPT ![h] = 0]
      /\ ownStore' = [ownStore EXCEPT ![h] = 0] /\ mine' = [mine EXCEPT ![h] = {}]
      /\ read' = [read EXCEPT ![h] = Store!None]
      /\ UNCHANGED <<app, ids, nextStored, words, holder, todo, stores>>
  BY DEF Store!Answer, Store!Goto
<1>2. Store!None \in [Store!Words -> -1..MaxStores] /\ 0 \in 0..MaxStores /\ 0 \in 0..MaxStored
  BY StoreFacts DEF Store!None
<1>3. Store!TypeOK'
  BY <1>1, <1>2 DEF StoreInv, Store!TypeOK
<1>4. does'[h] = "idle" /\ ptr'[h] = 0 /\ ownStore'[h] = 0 /\ mine'[h] = {}
      /\ read'[h] = Store!None /\ OthersStay(h)
  BY <1>1 DEF StoreInv, Store!TypeOK, OthersStay
<1>5. StorePart(h)'
  BY <1>1, <1>4, StoreFacts DEF StoreInv, StorePart, Writing
<1>6. \A g \in Handlers : g # h => StorePart(g)'
  BY <1>1, <1>4 DEF StoreInv, StorePart, Writing, OthersStay
<1>7. \A f, g \in Handlers : StorePair(f, g)'
  BY <1>4 DEF StoreInv, StorePair, Writing, OthersStay
<1>8. \A g \in Handlers : Writing(g) => g # h
  BY <1>1 DEF Writing
<1> QED
  BY <1>1, <1>3, <1>4, <1>5, <1>6, <1>7, <1>8 DEF StoreInv, Writing, HalfWritten, OthersStay

LEMMA StoreStep == StoreInv /\ [Store!Next]_(Store!vars) => StoreInv'
<1> SUFFICES ASSUME StoreInv, [Store!Next]_(Store!vars) PROVE StoreInv'
  OBVIOUS
<1> USE StoreFacts
<1>1. ASSUME NEW h \in Handlers, Store!Create(h) PROVE StoreInv'
  <2>1. nextStored \in Store!Ids /\ ids \cup {nextStored} \subseteq 1..nextStored
    BY <1>1 DEF Store!Create, Store!Ids
  <2> QED
    BY <1>1, <2>1, StoreReads DEF Store!Create
<1>2. ASSUME NEW h \in Handlers, app = "ch34", Store!AddV2(h) PROVE StoreInv'
  <2>1. nextStored \in Store!Ids /\ ids \cup {nextStored} \subseteq 1..nextStored
    BY <1>2 DEF Store!AddV2, Store!Ids
  <2> QED
    BY <1>2, <2>1, StoreWrites DEF Store!AddV2
<1>3. ASSUME NEW h \in Handlers, NEW i \in Store!Ids, Store!Get(h, i) \/ Store!TodoCtx(h, i)
      PROVE  StoreInv'
  BY <1>3, StoreReads DEF Store!Get, Store!TodoCtx
<1>4. ASSUME NEW h \in Handlers, NEW i \in Store!Ids,
             app \in {"ch23", "ch29"},
             Store!Update(h, i) \/ Store!Replace(h, i) \/ Store!Patch(h, i)
      PROVE  StoreInv'
  <2>1. PICK ws \in {{}, Store!String, {"done"}, Store!Words} :
           /\ does[h] = "idle" /\ holder = Nobody /\ i \in ids /\ holder' = h
           /\ Store!Sets(h, ws) /\ Store!Load(h, "locked", i)
           /\ UNCHANGED <<app, ids, nextStored, words, read>>
    BY <1>4 DEF Store!Update, Store!Replace, Store!Patch
  <2> QED
    BY <1>4, <2>1, StoreWrites
<1>5. ASSUME NEW i \in Store!Ids, Store!Delete(i) PROVE StoreInv'
  BY <1>5 DEF Store!Delete, StoreInv, Store!TypeOK, StorePart, StorePair, Writing, HalfWritten
<1>6. ASSUME NEW h \in Handlers, Store!WriteWord(h) PROVE StoreInv'
  BY <1>6, StoreWriteWord DEF Store!WriteWord, Writing
<1>7. CASE UNCHANGED Store!vars
  BY <1>7 DEF Store!vars, StoreInv, Store!TypeOK, StorePart, StorePair, Writing, HalfWritten
<1>8. ASSUME NEW h \in Handlers, app = "ch23", Store!Ch23(h) PROVE StoreInv'
  <2>1. CASE Store!Create(h)
    BY <1>1, <2>1
  <2>2. ASSUME NEW i \in Store!Ids, Store!Get(h, i) PROVE StoreInv'
    BY <1>3, <2>2
  <2>3. ASSUME NEW i \in Store!Ids, Store!Update(h, i) PROVE StoreInv'
    BY <1>4, <1>8, <2>3
  <2> QED
    BY <1>5, <1>8, <2>1, <2>2, <2>3 DEF Store!Ch23
<1>9. ASSUME NEW h \in Handlers, app = "ch28", Store!Ch28(h) PROVE StoreInv'
  BY <1>1, <1>3, <1>9, StoreMarkDone DEF Store!Ch28
<1>10. ASSUME NEW h \in Handlers, app = "ch29", Store!Ch29(h) PROVE StoreInv'
  BY <1>1, <1>3, <1>4, <1>10 DEF Store!Ch29
<1>11. ASSUME NEW h \in Handlers, app = "ch34", Store!Ch34(h) PROVE StoreInv'
  BY <1>1, <1>2, <1>3, <1>11 DEF Store!Ch34
<1>12. ASSUME NEW h \in Handlers, NEW w \in Store!Words, Store!Encode(h, w) PROVE StoreInv'
  BY <1>12, StoreEncode
<1>13. ASSUME NEW h \in Handlers, Store!Written(h) \/ Store!Answer(h) PROVE StoreInv'
  BY <1>13, StoreWritten, StoreAnswer
<1> QED
  BY <1>6, <1>7, <1>8, <1>9, <1>10, <1>11, <1>12, <1>13 DEF Store!Next

LEMMA StoreInvariant == ServersSpec => []StoreInv
<1>1. ServersInit => StoreInv
  BY StoreInit DEF ServersInit
<1>2. StoreInv /\ [ServersNext]_allVars => StoreInv'
  BY StepOfPart, StoreStep
<1> QED
  BY <1>1, <1>2, PTL DEF ServersSpec

\* A string in one of the stores is one that some request sent, data and length,
\* unless a handler is in the middle of writing it, for any number of handlers,
\* todos and writes.
THEOREM StringsStayWhole == ServersSpec => []StoredStringsWhole
<1>1. StoreInv => StoredStringsWhole
  <2> SUFFICES ASSUME StoreInv, NEW i \in ids
               PROVE  \/ words[i]["data"] = words[i]["len"]
                      \/ \E h \in Handlers :
                            ptr[h] = i /\ Cardinality(todo[h] \cap Store!String) = 1
    BY Zenon DEF StoredStringsWhole, Store!StoredStringsWhole, Store!Cardinality, Cardinality
  <2> SUFFICES ASSUME words[i]["data"] # words[i]["len"]
               PROVE  \E h \in Handlers : ptr[h] = i /\ Cardinality(todo[h] \cap Store!String) = 1
    BY Zenon
  <2>1. PICK h \in Handlers : ptr[h] = i /\ HalfWritten(h)
    BY StoreFacts DEF StoreInv
  <2>2. Cardinality(todo[h] \cap Store!String) = 1
    BY <2>1, FS_Singleton DEF HalfWritten
  <2> QED
    BY <2>1, <2>2
<1> QED
  BY <1>1, StoreInvariant, PTL

\* A write is answered with what it wrote, or with a later write, by the repository
\* of ch25 as well as by the stores, for any number of callers and writes.
THEOREM OwnWritesAnswered == ServersSpec => AnswersIncludeOwnWrite
<1>1. ServersInit => RepoInv
  BY RepoInit DEF ServersInit
<1>2. RepoInv /\ [ServersNext]_allVars => RepoInv'
  BY StepOfPart, RepoStep
<1>3. RepoInv /\ [ServersNext]_allVars =>
         [\A c \in Callers : answer[c] = NoRow /\ answer'[c] # NoRow =>
             IF step[c] = "created" THEN answer'[c].by = c ELSE answer'[c].wrote >= own[c]
         ]_(Repo!vars)
  BY StepOfPart, RepoAnswers
<1>4. ServersSpec => Repo!AnswersIncludeOwnWrite
  BY <1>1, <1>2, <1>3, PTL DEF ServersSpec, Repo!AnswersIncludeOwnWrite
<1>5. StoreInv => Store!AnswersShowOwnWrite
  BY DEF StoreInv, StorePart, Store!AnswersShowOwnWrite
<1> QED
  BY <1>4, <1>5, StoreInvariant, PTL DEF AnswersIncludeOwnWrite

-----------------------------------------------------------------------------
(* The options of ch14 *)

\* A sequence of one element at most.
LEMMA ShortSeq ==
  ASSUME NEW S, NEW s \in Seq(S), Len(s) <= 1
  PROVE  s = <<>> \/ (Len(s) = 1 /\ s # <<>> /\ s = <<s[1]>> /\ s[1] \in S)
<1> DEFINE n == Len(s)
<1>1. n \in Nat /\ n <= 1
  BY LenProperties
<1> HIDE DEF n
<1>2. n = 0 \/ n = 1
  BY <1>1
<1>3. CASE n = 0
  <2>1. <<>> \in Seq(S) /\ Len(<<>>) = 0
    BY EmptySeq
  <2>2. s = <<>>
    BY <1>3, <2>1, SeqEqual DEF n
  <2> QED
    BY <2>2
<1>4. CASE n = 1
  <2>1. Len(s) = 1 /\ s[1] \in S
    BY <1>4, LenProperties DEF n
  <2>2. <<s[1]>> \in Seq(S) /\ Len(<<s[1]>>) = 1 /\ <<s[1]>>[1] = s[1]
    BY <2>1
  <2>3. s = <<s[1]>>
    BY <2>1, <2>2, SeqEqual
  <2>4. s # <<>>
    <3>1. Len(<<>>) = 0
      BY EmptySeq
    <3> QED
      BY <2>1, <3>1
  <2> QED
    BY <2>1, <2>3, <2>4
<1> QED
  BY <1>2, <1>3, <1>4

\* The last value of an option among opts is v, or it has its default 0.
LastOf(opts, kind, v) ==
    LET ofKind == {i \in DOMAIN opts : opts[i].kind = kind}
    IN  \/ ofKind = {} /\ v = 0
        \/ \E i \in ofKind : v = opts[i].value /\ \A j \in ofKind : j <= i

\* There is one loggingTransport at most, so that no option is ignored.
OptionsInv ==
    /\ wraps \in Seq(Loggers) /\ Len(wraps) <= 1 /\ options \in Seq(Client!Options)
    /\ LastOf(options, "timeout", timeout) /\ LastOf(options, "conns", maxConns)
    /\ requested \in BOOLEAN /\ lines \in [Loggers -> Nat]
    /\ \A l \in Loggers : lines[l] = IF requested /\ <<l>> = wraps THEN 1 ELSE 0
    /\ LastOf(options, "logger", IF wraps = <<>> THEN 0 ELSE wraps[1])

\* An option that is given becomes the last of its kind, and of no other kind.
LEMMA GivenLast ==
  ASSUME OptionsInv, NEW kind, NEW value, [kind |-> kind, value |-> value] \in Client!Options,
         Client!Apply(kind, value)
  PROVE  /\ options' \in Seq(Client!Options)
         /\ LastOf(options', kind, value)
         /\ \A k, v : k # kind /\ LastOf(options, k, v) => LastOf(options', k, v)
<1> DEFINE o == [kind |-> kind, value |-> value]
           n == Len(options)
<1>1. options' = Append(options, o) /\ options \in Seq(Client!Options) /\ n \in Nat
  BY DEF Client!Apply, OptionsInv
<1>2. /\ options' \in Seq(Client!Options) /\ DOMAIN options' = 1..(n + 1)
      /\ DOMAIN options = 1..n /\ options'[n + 1] = o
      /\ \A i \in 1..n : options'[i] = options[i]
  BY <1>1
<1>3. o.kind = kind /\ o.value = value
  OBVIOUS
<1> HIDE DEF o, n
<1>4. LastOf(options', kind, value)
  BY <1>1, <1>2, <1>3 DEF LastOf
<1>5. ASSUME NEW k, NEW v, k # kind, LastOf(options, k, v) PROVE LastOf(options', k, v)
  <2>1. {i \in DOMAIN options' : options'[i].kind = k}
          = {i \in DOMAIN options : options[i].kind = k}
    BY <1>1, <1>2, <1>3, <1>5
  <2> QED
    BY <1>2, <1>5, <2>1 DEF LastOf
<1> QED
  BY <1>2, <1>4, <1>5

\* The client has the defaults.
LEMMA OptionsInit == Client!Init => OptionsInv
<1> SUFFICES ASSUME Client!Init PROVE OptionsInv
  OBVIOUS
<1>1. \A k : LastOf(options, k, 0)
  BY DEF Client!Init, LastOf
<1>2. wraps = <<>> /\ options = <<>> /\ ~requested /\ requested \in BOOLEAN
      /\ lines \in [Loggers -> Nat] /\ (\A l \in Loggers : lines[l] = 0)
      /\ timeout = 0 /\ maxConns = 0
  BY DEF Client!Init
<1> QED
  BY <1>1, <1>2 DEF OptionsInv

\* Each option replaces what the last of its kind has set up.
LEMMA OptionsNew == ASSUME OptionsInv, Client!New PROVE OptionsInv'
<1>1. Client!Unwraps /\ ~requested
  BY DEF OptionsInv, Client!Unwraps, Client!New
<1>2. ASSUME NEW d \in Timeouts, Client!WithTimeout(d) PROVE OptionsInv'
  <2>1. [kind |-> "timeout", value |-> d] \in Client!Options /\ Client!Apply("timeout", d)
        /\ timeout' = d /\ UNCHANGED <<maxConns, wraps, requested, lines>>
    BY <1>2 DEF Client!WithTimeout, Client!Options, Client!Apply
  <2>2. /\ options' \in Seq(Client!Options)
        /\ LastOf(options', "timeout", d)
        /\ \A k, v : k # "timeout" /\ LastOf(options, k, v) => LastOf(options', k, v)
    BY <2>1, GivenLast
  <2> QED
    BY <1>1, <2>1, <2>2 DEF OptionsInv
<1>3. ASSUME NEW n \in MaxConns, Client!WithMaxConnsPerHost(n) PROVE OptionsInv'
  <2>1. [kind |-> "conns", value |-> n] \in Client!Options /\ Client!Apply("conns", n)
        /\ maxConns' = n /\ UNCHANGED <<timeout, wraps, requested, lines>>
    BY <1>1, <1>3 DEF Client!WithMaxConnsPerHost, Client!Options, Client!Apply
  <2>2. /\ options' \in Seq(Client!Options)
        /\ LastOf(options', "conns", n)
        /\ \A k, v : k # "conns" /\ LastOf(options, k, v) => LastOf(options', k, v)
    BY <2>1, GivenLast
  <2> QED
    BY <1>1, <2>1, <2>2 DEF OptionsInv
<1>4. ASSUME NEW l \in Loggers, Client!WithLogger(l) PROVE OptionsInv'
  <2>1. [kind |-> "logger", value |-> l] \in Client!Options /\ Client!Apply("logger", l)
        /\ wraps' = <<l>> /\ UNCHANGED <<timeout, maxConns, requested, lines>>
    BY <1>1, <1>4 DEF Client!WithLogger, Client!Options, Client!Apply
  <2>2. /\ options' \in Seq(Client!Options)
        /\ LastOf(options', "logger", l)
        /\ \A k, v : k # "logger" /\ LastOf(options, k, v) => LastOf(options', k, v)
    BY <2>1, GivenLast
  <2>3. wraps' \in Seq(Loggers) /\ Len(wraps') = 1 /\ wraps'[1] = l /\ wraps' # <<>>
    BY <2>1
  <2> QED
    BY <1>1, <2>1, <2>2, <2>3 DEF OptionsInv
<1> QED
  BY <1>2, <1>3, <1>4 DEF Client!New

\* The last logger, if there is one, writes a line.
LEMMA OptionsDo == ASSUME OptionsInv, Client!Do PROVE OptionsInv'
<1>1. /\ lines' = [l \in Loggers |-> Cardinality({i \in DOMAIN wraps : wraps[i] = l})]
      /\ requested' = TRUE /\ UNCHANGED <<timeout, maxConns, wraps, options>>
  BY DEF Client!Do, Client!Cardinality, Cardinality
<1>2. ASSUME NEW l \in Loggers PROVE lines'[l] = IF wraps = <<l>> THEN 1 ELSE 0
  <2> DEFINE S == {i \in DOMAIN wraps : wraps[i] = l}
  <2>1. wraps = <<>> \/ (Len(wraps) = 1 /\ wraps = <<wraps[1]>> /\ wraps[1] \in Loggers)
    BY ShortSeq DEF OptionsInv
  <2>2. S = IF wraps = <<l>> THEN {1} ELSE {}
    BY <2>1
  <2>3. Cardinality(S) = IF wraps = <<l>> THEN 1 ELSE 0
    BY <2>2, FS_Singleton, FS_EmptySet
  <2> QED
    BY <1>1, <2>3
<1>3. lines' \in [Loggers -> Nat]
  BY <1>1, <1>2
<1> QED
  BY <1>1, <1>2, <1>3 DEF OptionsInv

\* Whatever options come before and after it, the last value given to an option
\* is in force, and the request is logged once by the last logger and by no other,
\* for any number of options and values.
THEOREM LastOptionHolds == ServersSpec => []LastOptionCounts
<1>1. ServersInit => OptionsInv
  BY OptionsInit DEF ServersInit
<1>2. OptionsInv /\ [ServersNext]_allVars => OptionsInv'
  <2>1. OptionsInv /\ UNCHANGED Client!vars => OptionsInv'
    BY DEF Client!vars, OptionsInv
  <2> QED
    BY <2>1, StepOfPart, OptionsNew, OptionsDo DEF Client!Next
<1>3. OptionsInv => LastOptionCounts
  <2>1. \A k, v : LastOf(options, k, v) <=> Client!LastGiven(k, 0, v)
    BY Zenon DEF LastOf, Client!LastGiven
  <2>2. wraps # <<>> /\ wraps \in Seq(Loggers) /\ Len(wraps) <= 1 => Len(wraps) = 1
    BY ShortSeq
  <2> QED
    BY <2>1, <2>2 DEF OptionsInv, LastOptionCounts, Client!LastOptionCounts
<1> QED
  BY <1>1, <1>2, <1>3, PTL DEF ServersSpec

-----------------------------------------------------------------------------
(* Middleware: the layers of each router *)

Layers == {"SecurityHeaders", "Recoverer", "RequestID", "Logger", "CORS", "RateLimiter",
           "RequireAuth", "WithETag", "InstrumentHandler"}

Apps == {"server", "ch24", "ch31", "ch37", "ch38", "ch40", "ch43"}

\* The number of layers around a handler.
Depth(a, route) ==
    CASE a = "server" -> IF route \in {"login", "todos"} THEN 5 ELSE 4
      [] a = "ch24" -> 4
      [] a = "ch31" -> 2
      [] a = "ch38" -> 0
      [] OTHER -> 1

\* The layer of an app at an index.
LayerIs(a, i, layer) ==
    CASE layer = "SecurityHeaders" -> a \in {"server", "ch43"} /\ i = 1
      [] layer = "Recoverer" -> (a = "server" /\ i = 2) \/ (a = "ch24" /\ i = 1)
      [] layer = "RequestID" -> (a = "ch24" /\ i = 2) \/ (a = "ch31" /\ i = 1)
      [] layer = "Logger" -> (a \in {"server", "ch24"} /\ i = 3) \/ (a = "ch31" /\ i = 2)
      [] layer = "CORS" -> a = "ch24" /\ i = 4
      [] layer = "WithETag" -> a = "ch37" /\ i = 1
      [] layer = "InstrumentHandler" -> a = "ch40" /\ i = 1
      [] OTHER -> a = "server" /\ i >= 4

\* The chain of server/: four layers around every handler, five around some.
LEMMA ServerChainIs ==
  ASSUME NEW route
  PROVE  LET c == Stack!ServerChain(route) IN
         /\ Len(c) = Depth("server", route) /\ DOMAIN c = 1..Len(c)
         /\ c[1] = "SecurityHeaders" /\ c[2] = "Recoverer" /\ c[3] = "Logger"
         /\ c[4] = "RateLimiter"
         /\ Len(c) = 5 => c[5] \in {"RateLimiter", "RequireAuth"}
<1> DEFINE s == <<"SecurityHeaders", "Recoverer", "Logger", "RateLimiter">>
           t == CASE route = "login" -> <<"RateLimiter">>
                  [] route = "todos" -> <<"RequireAuth">>
                  [] OTHER -> <<>>
<1>1. s \in Seq(Layers) /\ Len(s) = 4
  BY DEF Layers
<1>2. s[1] = "SecurityHeaders" /\ s[2] = "Recoverer" /\ s[3] = "Logger" /\ s[4] = "RateLimiter"
  OBVIOUS
<1>3. t \in Seq(Layers) /\ Len(t) = Depth("server", route) - 4 /\ Len(t) \in {0, 1}
      /\ (Len(t) = 1 => t[1] \in {"RateLimiter", "RequireAuth"})
  <2>1. CASE route = "login"
    <3>1. t = <<"RateLimiter">> BY <2>1
    <3> HIDE DEF t
    <3> QED BY <3>1, <2>1 DEF Layers, Depth
  <2>2. CASE route = "todos"
    <3>1. t = <<"RequireAuth">> BY <2>2
    <3> HIDE DEF t
    <3> QED BY <3>1, <2>2 DEF Layers, Depth
  <2>3. CASE route \notin {"login", "todos"}
    <3>1. t = <<>> BY <2>3
    <3> HIDE DEF t
    <3> QED BY <3>1, <2>3 DEF Layers, Depth
  <2> QED BY <2>1, <2>2, <2>3
<1> HIDE DEF s, t
<1>4. Stack!ServerChain(route) = s \o t
  BY DEF Stack!ServerChain, s, t
<1> DEFINE n == Len(t)
           c == s \o t
<1>5. n \in {0, 1} /\ c \in Seq(Layers) /\ Len(c) = 4 + n /\ 4 + n = Depth("server", route)
  <2>1. Len(c) = Len(s) + Len(t) /\ c \in Seq(Layers)
    BY <1>1, <1>3, ConcatProperties
  <2>2. Depth("server", route) \in {4, 5}
    BY DEF Depth
  <2> QED BY <2>1, <2>2, <1>1, <1>3
<1>6. \A i \in 1..(4 + n) : c[i] = IF i <= 4 THEN s[i] ELSE t[i - 4]
  <2>1. \A i \in 1..(Len(s) + Len(t)) :
           (s \o t)[i] = IF i <= Len(s) THEN s[i] ELSE t[i - Len(s)]
    BY <1>1, <1>3, ConcatProperties
  <2> QED BY <2>1, <1>1
<1> HIDE DEF n, c
<1>7. c[1] = s[1] /\ c[2] = s[2] /\ c[3] = s[3] /\ c[4] = s[4]
  <2>1. \A i \in {1, 2, 3, 4} : i \in 1..(4 + n) /\ i <= 4
    BY <1>5
  <2> QED BY <2>1, <1>6
<1>8. n = 1 => c[5] = t[1]
  BY <1>5, <1>6
<1>9. DOMAIN c = 1..Len(c)
  BY <1>5
<1> QED
  BY <1>2, <1>3, <1>4, <1>5, <1>7, <1>8, <1>9 DEF c, n

\* Where each layer of each chain is.
LEMMA ChainIs ==
  ASSUME NEW route, stack \in Apps
  PROVE  LET c == Stack!Chain(route) IN
         /\ Len(c) = Depth(stack, route) /\ DOMAIN c = 1..Len(c)
         /\ \A i \in 1..Len(c) : c[i] \in Layers /\ LayerIs(stack, i, c[i])
<1> DEFINE c == Stack!Chain(route)
<1> USE DEF LayerIs, Layers, Depth
<1>1. CASE stack = "server"
  <2>1. c = Stack!ServerChain(route)
    BY <1>1 DEF Stack!Chain
  <2>2. /\ Len(c) = Depth("server", route) /\ DOMAIN c = 1..Len(c)
        /\ c[1] = "SecurityHeaders" /\ c[2] = "Recoverer" /\ c[3] = "Logger"
        /\ c[4] = "RateLimiter"
        /\ Len(c) = 5 => c[5] \in {"RateLimiter", "RequireAuth"}
    BY <2>1, ServerChainIs
  <2> HIDE DEF c
  <2>3. \A i \in 1..Len(c) : i \in {1, 2, 3, 4} \/ (i = 5 /\ Len(c) = 5)
    BY <2>2
  <2>4. ASSUME NEW i \in 1..Len(c)
        PROVE  c[i] \in Layers /\ LayerIs(stack, i, c[i])
    BY <1>1, <2>2, <2>3
  <2>5. Len(c) = Depth(stack, route) /\ DOMAIN c = 1..Len(c)
    BY <1>1, <2>2
  <2> QED
    BY <2>4, <2>5 DEF c
<1>2. CASE stack = "ch24"
  BY <1>2 DEF Stack!Chain, Stack!Chain24
<1>3. CASE stack = "ch31"
  BY <1>3 DEF Stack!Chain, Stack!Chain31
<1>4. CASE stack = "ch37"
  BY <1>4 DEF Stack!Chain
<1>5. CASE stack = "ch38"
  BY <1>5 DEF Stack!Chain
<1>6. CASE stack = "ch40"
  BY <1>6 DEF Stack!Chain
<1>7. CASE stack = "ch43"
  BY <1>7 DEF Stack!Chain
<1> QED
  BY <1>1, <1>2, <1>3, <1>4, <1>5, <1>6, <1>7 DEF Apps
-----------------------------------------------------------------------------
(* Middleware: requests and what is written for them *)

\* Headers that a layer sets, and the routes of all routers.
HeaderNames == {"security", "trace", "allow", "retry", "etag"}

RouteNames == {"none", "probe", "login", "todos", "missing", "hello", "panic", "preflight",
               "todo", "slow", "error", "metrics"}

\* What net/http may be given for a request, and a request.
Sent == [status : 0..500, headers : SUBSET HeaderNames]

Req == [route : RouteNames, at : Nat,
        doing : {"idle", "in", "out", "counted", "panic", "over"},
        headers : SUBSET HeaderNames, noted : 0..500, sent : Seq(Sent), logs : Seq(0..500),
        ran : BOOLEAN, panicked : BOOLEAN, tag : BOOLEAN]

\* The layer of a request is net/http, one of the chain, or the handler.
LEMMA LayerOf ==
  ASSUME NEW q \in Req, stack \in Apps, q.at <= Depth(stack, q.route) + 1
  PROVE  /\ Stack!Layer(q) = "net/http" <=> q.at = 0
         /\ Stack!Layer(q) = "handler" <=> q.at = Depth(stack, q.route) + 1
         /\ q.at \in 1..Depth(stack, q.route) => Stack!Layer(q) \in Layers
         /\ \A l \in Layers :
               Stack!Layer(q) = l =>
                   q.at \in 1..Depth(stack, q.route) /\ LayerIs(stack, q.at, l)
<1> DEFINE c == Stack!Chain(q.route)
           d == Depth(stack, q.route)
<1>1. /\ Len(c) = d /\ DOMAIN c = 1..Len(c)
      /\ \A i \in 1..Len(c) : c[i] \in Layers /\ LayerIs(stack, i, c[i])
  BY ChainIs
<1>2. d \in Nat /\ q.at \in Nat /\ q.at <= d + 1
  BY DEF Depth, Req
<1>3. Stack!Layer(q) = IF q.at = 0 THEN "net/http"
                       ELSE IF q.at \in DOMAIN c THEN c[q.at] ELSE "handler"
  BY <1>1, <1>2 DEF Stack!Layer
<1> HIDE DEF c, d
<1>4. CASE q.at = 0
  <2>1. Stack!Layer(q) = "net/http"
    BY <1>3, <1>4
  <2> QED BY <2>1, <1>2, <1>4 DEF Layers, d
<1>5. CASE q.at \in 1..d
  <2>1. Stack!Layer(q) = c[q.at] /\ c[q.at] \in Layers /\ LayerIs(stack, q.at, c[q.at])
    BY <1>1, <1>3, <1>5
  <2> QED BY <2>1, <1>2, <1>5 DEF Layers, d
<1>6. CASE q.at = d + 1
  <2>1. Stack!Layer(q) = "handler"
    BY <1>1, <1>2, <1>3, <1>6
  <2> QED BY <2>1, <1>2, <1>6 DEF Layers, d
<1> QED
  BY <1>2, <1>4, <1>5, <1>6

\* The index of the layer that logs, if there is one.
Logging(a) ==
    CASE a \in {"server", "ch24"} -> 3
      [] a = "ch31" -> 2
      [] a = "ch40" -> 1
      [] OTHER -> 0

Logs(a) == a \in {"server", "ch24", "ch31", "ch40"}

\* The wrappers of the ResponseWriter around a layer.
LEMMA WrapperOf ==
  ASSUME NEW q \in Req, stack \in Apps, q.at <= Depth(stack, q.route) + 1
  PROVE  /\ "WithETag" \in Stack!Wrapper(q) <=> stack = "ch37" /\ q.at > 1
         /\ "Logger" \in Stack!Wrapper(q)
               <=> stack \in {"server", "ch24", "ch31"} /\ q.at > Logging(stack)
         /\ "InstrumentHandler" \in Stack!Wrapper(q) <=> stack = "ch40" /\ q.at > 1
<1> DEFINE c == Stack!Chain(q.route)
           d == Depth(stack, q.route)
<1>1. Len(c) = d /\ \A i \in 1..Len(c) : c[i] \in Layers /\ LayerIs(stack, i, c[i])
  BY ChainIs
<1>2. d \in Nat /\ q.at \in Nat /\ q.at <= d + 1
  BY DEF Depth, Req
<1>3. Stack!Wrapper(q) = {c[i] : i \in 1..(q.at - 1)}
  BY DEF Stack!Wrapper
<1> HIDE DEF c
<1>4. \A i \in 1..(q.at - 1) : i \in 1..d /\ c[i] \in Layers /\ LayerIs(stack, i, c[i])
  BY <1>1, <1>2
<1>5. \A l \in Layers : l \in Stack!Wrapper(q) <=> \E i \in 1..(q.at - 1) : c[i] = l
  BY <1>3
<1>6. "WithETag" \in Stack!Wrapper(q) <=> stack = "ch37" /\ q.at > 1
  <2>1. ASSUME stack = "ch37", q.at > 1 PROVE c[1] = "WithETag" /\ 1 \in 1..(q.at - 1)
    BY <2>1, <1>2, <1>4 DEF LayerIs, Layers
  <2>2. ASSUME NEW i \in 1..(q.at - 1), c[i] = "WithETag" PROVE stack = "ch37" /\ q.at > 1
    BY <2>2, <1>2, <1>4 DEF LayerIs
  <2> QED BY <2>1, <2>2, <1>5 DEF Layers
<1>7. "InstrumentHandler" \in Stack!Wrapper(q) <=> stack = "ch40" /\ q.at > 1
  <2>1. ASSUME stack = "ch40", q.at > 1 PROVE c[1] = "InstrumentHandler" /\ 1 \in 1..(q.at - 1)
    BY <2>1, <1>2, <1>4 DEF LayerIs, Layers
  <2>2. ASSUME NEW i \in 1..(q.at - 1), c[i] = "InstrumentHandler"
        PROVE  stack = "ch40" /\ q.at > 1
    BY <2>2, <1>2, <1>4 DEF LayerIs
  <2> QED BY <2>1, <2>2, <1>5 DEF Layers
<1>8. "Logger" \in Stack!Wrapper(q)
        <=> stack \in {"server", "ch24", "ch31"} /\ q.at > Logging(stack)
  <2>1. ASSUME stack \in {"server", "ch24"}, q.at > 3
        PROVE  c[3] = "Logger" /\ 3 \in 1..(q.at - 1)
    BY <2>1, <1>2, <1>4 DEF LayerIs, Layers
  <2>2. ASSUME stack = "ch31", q.at > 2 PROVE c[2] = "Logger" /\ 2 \in 1..(q.at - 1)
    BY <2>2, <1>2, <1>4 DEF LayerIs, Layers
  <2>3. ASSUME NEW i \in 1..(q.at - 1), c[i] = "Logger"
        PROVE  stack \in {"server", "ch24", "ch31"} /\ q.at > Logging(stack)
    BY <2>3, <1>2, <1>4 DEF LayerIs, Logging
  <2> QED BY <2>1, <2>2, <2>3, <1>5 DEF Layers, Logging
<1> QED
  BY <1>6, <1>7, <1>8

\* All but what is written and noted.
SameRest(q, p) ==
    /\ p.route = q.route /\ p.at = q.at /\ p.doing = q.doing /\ p.headers = q.headers
    /\ p.logs = q.logs /\ p.ran = q.ran /\ p.panicked = q.panicked /\ p.tag = q.tag

\* One answer, with a status and headers.
SentIs(p, status, headers) ==
    Len(p.sent) = 1 /\ p.sent[1].status = status /\ p.sent[1].headers = headers

\* A request whose handler has panicked is still one of the records of Req.
LEMMA PanicIs ==
  ASSUME NEW q \in Req, NEW n \in Nat
  PROVE  [q EXCEPT !.at = n, !.doing = "panic", !.ran = TRUE, !.panicked = TRUE] \in Req
BY Zenon DEF Req

\* A layer takes down a status.
LEMMA NoteIs ==
  ASSUME NEW q \in Req, NEW n \in 0..500
  PROVE  LET p == [q EXCEPT !.noted = n] IN
         /\ p \in Req /\ SameRest(q, p) /\ p.noted = n /\ p.sent = q.sent
<1> DEFINE p == [q EXCEPT !.noted = n]
<1>1. p \in Req
  BY Zenon DEF Req
<1>2. SameRest(q, p) /\ p.noted = n /\ p.sent = q.sent
  BY DEF Req, SameRest
<1> QED
  BY <1>1, <1>2

\* What is sent first is the answer.
Sends(q, status, p) ==
    /\ p \in Req /\ SameRest(q, p) /\ p.noted = q.noted
    /\ q.sent = <<>> => SentIs(p, status, q.headers)

LEMMA SendIs ==
  ASSUME NEW q \in Req, NEW status \in 0..500
  PROVE  Sends(q, status, Stack!Send(q, status))
<1> DEFINE x == [status |-> status, headers |-> q.headers]
           s == Append(q.sent, x)
           p == [q EXCEPT !.sent = s]
<1>1. x \in Sent /\ x.status = status /\ x.headers = q.headers
  BY DEF Sent, Req
<1>2. q.sent \in Seq(Sent)
  BY DEF Req
<1> HIDE DEF x
<1>3. s \in Seq(Sent) /\ (q.sent = <<>> => Len(s) = 1 /\ s[1] = x)
  BY <1>1, <1>2
<1>4. Stack!Send(q, status) = p
  BY DEF Stack!Send, x
<1> HIDE DEF s
<1>5. p \in Req
  BY Zenon, <1>3 DEF Req
<1>6. SameRest(q, p) /\ p.noted = q.noted /\ p.sent = s
  BY DEF Req, SameRest
<1> HIDE DEF p
<1> QED
  BY <1>1, <1>3, <1>4, <1>5, <1>6 DEF SentIs, Sends

\* A status passes through the wrappers above: it is sent and noted, or noted and
\* held back by WithETag, or, in ch24 and ch31, dropped if one has been written.
HoldsBack(q) == stack = "ch37" /\ q.at > 1
Notes(q) == Logs(stack) /\ q.at > Logging(stack)
MayWrite(q) == q.noted = 0 \/ stack \in {"server", "ch40"}

Writes(q, status, p) ==
    /\ p \in Req /\ SameRest(q, p)
    /\ HoldsBack(q) => p.noted = status /\ p.sent = q.sent
    /\ Notes(q) /\ MayWrite(q) => p.noted = status
    /\ q.sent = <<>> /\ ~ HoldsBack(q) /\ (Notes(q) => MayWrite(q))
         => SentIs(p, status, q.headers)

LEMMA WriteHeaderIs ==
  ASSUME NEW q \in Req, stack \in Apps, q.at <= Depth(stack, q.route) + 1,
         NEW status \in 0..500
  PROVE  Writes(q, status, Stack!WriteHeader(q, status))
<1> DEFINE s == Stack!Send(q, status)
           p == Stack!WriteHeader(q, status)
           n == [s EXCEPT !.noted = status]
<1> USE DEF HoldsBack, Notes, MayWrite
<1>1. s \in Req /\ SameRest(q, s) /\ (q.sent = <<>> => SentIs(s, status, q.headers))
  BY SendIs DEF Sends
<1> HIDE DEF s
<1>2. /\ n \in Req /\ SameRest(q, n) /\ n.noted = status
      /\ q.sent = <<>> => SentIs(n, status, q.headers)
  <2>1. n \in Req /\ SameRest(s, n) /\ n.noted = status /\ n.sent = s.sent
    BY <1>1, NoteIs
  <2> HIDE DEF n
  <2> QED BY <1>1, <2>1 DEF SameRest, SentIs
<1> HIDE DEF n
<1>3. CASE stack = "ch37" /\ q.at > 1
  <2> DEFINE b == [q EXCEPT !.noted = status]
  <2>1. p = b
    BY <1>3, WrapperOf DEF Stack!WriteHeader, Stack!BufferedResponseWriter
  <2>2. b \in Req /\ SameRest(q, b) /\ b.noted = status /\ b.sent = q.sent
    BY NoteIs
  <2> HIDE DEF b, p
  <2>3. p \in Req /\ SameRest(q, p) /\ p.noted = status /\ p.sent = q.sent
    BY <2>1, <2>2
  <2> QED BY <1>3, <2>3 DEF Logs, Writes, p
<1>4. CASE stack \in {"ch24", "ch31"} /\ q.at > Logging(stack) /\ q.noted # 0
  <2>1. p = q
    BY <1>4, WrapperOf DEF Stack!WriteHeader, Stack!ResponseWriter
  <2> QED BY <1>4, <2>1 DEF SameRest, Logs, Writes
<1>5. CASE stack \in {"ch24", "ch31"} /\ q.at > Logging(stack) /\ q.noted = 0
  <2>1. p = n
    BY <1>5, WrapperOf DEF Stack!WriteHeader, Stack!ResponseWriter, s, n
  <2> QED BY <1>2, <1>5, <2>1 DEF Writes
<1>6. CASE stack \in {"server", "ch40"} /\ q.at > Logging(stack)
  <2>1. p = n
    BY <1>6, WrapperOf DEF Stack!WriteHeader, Stack!StatusWriter, s, n, Logging
  <2> QED BY <1>2, <1>6, <2>1 DEF Writes
<1>7. CASE ~ (stack = "ch37" /\ q.at > 1) /\ ~ (Logs(stack) /\ q.at > Logging(stack))
  <2>1. p = s
    BY <1>7, WrapperOf DEF Stack!WriteHeader, s, Logging, Logs
  <2> QED BY <1>1, <1>7, <2>1 DEF Writes
<1> QED
  BY <1>3, <1>4, <1>5, <1>6, <1>7 DEF Logs

-----------------------------------------------------------------------------
(* Middleware: the invariant of a request *)

\* The routes that only one router has.
LEMMA RoutesAre ==
  ASSUME NEW a \in Apps
  PROVE  /\ Stack!Routes[a] \subseteq RouteNames \ {"none"}
         /\ "panic" \in Stack!Routes[a] => a = "ch24"
         /\ "slow" \in Stack!Routes[a] => a = "ch38"
         /\ "todo" \in Stack!Routes[a] <=> a = "ch37"
         /\ a = "ch37" => Stack!Routes[a] = {"todo"}
<1>1. CASE a = "server"
  BY <1>1 DEF Stack!Routes, RouteNames
<1>2. CASE a = "ch24"
  BY <1>2 DEF Stack!Routes, RouteNames
<1>3. CASE a = "ch31"
  BY <1>3 DEF Stack!Routes, RouteNames
<1>4. CASE a = "ch37"
  BY <1>4 DEF Stack!Routes, RouteNames
<1>5. CASE a = "ch38"
  BY <1>5 DEF Stack!Routes, RouteNames
<1>6. CASE a = "ch40"
  BY <1>6 DEF Stack!Routes, RouteNames
<1>7. CASE a = "ch43"
  BY <1>7 DEF Stack!Routes, RouteNames
<1> QED
  BY <1>1, <1>2, <1>3, <1>4, <1>5, <1>6, <1>7 DEF Apps

\* The headers that an answer of an app must have.
Owed(a) ==
    CASE a \in {"server", "ch43"} -> {"security"}
      [] a \in {"ch24", "ch31"} -> {"trace"}
      [] OTHER -> {}

\* The answer is as it must be.
WellAnswered(a, q) ==
    /\ Len(q.sent) = 1
    /\ Owed(a) \subseteq q.sent[1].headers
    /\ q.panicked = TRUE => q.sent[1].status = 500
    /\ q.ran = TRUE <=> q.sent[1].status \notin {204, 401, 429}

LoggedOnce(q) ==
    IF q.panicked = TRUE THEN q.logs = <<>>
    ELSE Len(q.logs) = 1 /\ q.logs[1] = q.sent[1].status

\* On the way in nothing has been written, and each layer that sets a header has
\* done so for those below it.
Entering(a, q) ==
    /\ q.at >= 1
    /\ q.sent = <<>> /\ q.logs = <<>> /\ q.ran = FALSE /\ q.panicked = FALSE
    /\ a \in {"ch24", "ch31"} => q.noted = 0
    /\ a \in {"server", "ch43"} /\ q.at > 1 => "security" \in q.headers
    /\ (a = "ch24" /\ q.at > 2) \/ (a = "ch31" /\ q.at > 1) => "trace" \in q.headers

\* A panic is below a Recoverer, and nothing has been written either.
Panicking(a, q) ==
    /\ (a = "server" /\ q.at >= 2) \/ (a = "ch24" /\ q.at >= 1)
    /\ q.sent = <<>> /\ q.logs = <<>> /\ q.ran = TRUE /\ q.panicked = TRUE
    /\ Owed(a) \subseteq q.headers

\* On the way out there is an answer, but for the one that WithETag holds back and
\* the one that ch38 owes to nobody.  The layer that logs knows its status.
Leaving(a, q) ==
    /\ q.doing = "counted" => a = "ch40" /\ q.at = 1
    /\ a \in {"ch37", "ch40"} => q.at <= 1
    /\ IF a = "ch37" /\ q.at = 1
       THEN q.sent = <<>> /\ q.ran = TRUE /\ q.panicked = FALSE /\ q.noted \in {200, 404}
       ELSE \/ WellAnswered(a, q)
            \/ a = "ch38" /\ q.sent = <<>> /\ q.ran = TRUE /\ q.panicked = FALSE
    /\ Logs(a) =>
           IF q.at >= Logging(a)
           THEN q.logs = <<>> /\ q.noted = q.sent[1].status /\ q.panicked = FALSE
           ELSE LoggedOnce(q)

Fine(a, q) ==
    /\ q \in Req /\ q.at <= Depth(a, q.route) + 1
    /\ q.doing # "idle" => q.route \in Stack!Routes[a]
    /\ q.doing = "in" => Entering(a, q)
    /\ q.doing = "panic" => Panicking(a, q)
    /\ q.doing \in {"out", "counted"} => Leaving(a, q)
    /\ q.doing = "over" => q.at = 0 /\ WellAnswered(a, q) /\ (Logs(a) => LoggedOnce(q))
    /\ a = "ch40" /\ q.doing \in {"out", "counted", "over"}
         => q.noted = q.sent[1].status /\ q.noted \in Stack!Statuses

\* Whether ch40 has counted a request, and whether it has counted its error.
Tallied(q) == q.doing \in {"counted", "over"} \/ (q.doing = "out" /\ q.at = 0)
ErrorTallied(q) == q.doing = "over" \/ (q.doing = "out" /\ q.at = 0)

SameTally(q, p) ==
    /\ Tallied(q) <=> Tallied(p)
    /\ ErrorTallied(q) <=> ErrorTallied(p)
    /\ Tallied(q) => p.route = q.route /\ p.noted = q.noted

Good(a, q, p) == Fine(a, p) /\ (a = "ch40" => SameTally(q, p))

\* Request r becomes one that is as it must be, and counts for as much as before.
StepsTo(r) == \E p : Stack!Become(r, p) /\ Good(stack, req[r], p)

\* To the next layer, back to the layer above, and with one more header.
LEMMA DownIs ==
  ASSUME NEW q \in Req
  PROVE  LET p == Stack!Down(q) IN
         /\ p \in Req /\ p.at = q.at + 1 /\ p.route = q.route /\ p.doing = q.doing
         /\ p.headers = q.headers /\ p.noted = q.noted /\ p.sent = q.sent /\ p.logs = q.logs
         /\ p.ran = q.ran /\ p.panicked = q.panicked /\ p.tag = q.tag
<1> DEFINE n == q.at + 1
           p == [q EXCEPT !.at = n]
<1>1. n \in Nat
  BY DEF Req
<1>2. Stack!Down(q) = p
  BY DEF Stack!Down
<1> HIDE DEF n
<1>3. p \in Req
  BY Zenon, <1>1 DEF Req
<1>4. /\ p.at = n /\ p.route = q.route /\ p.doing = q.doing
      /\ p.headers = q.headers /\ p.noted = q.noted /\ p.sent = q.sent /\ p.logs = q.logs
      /\ p.ran = q.ran /\ p.panicked = q.panicked /\ p.tag = q.tag
  BY DEF Req
<1> QED
  BY <1>2, <1>3, <1>4 DEF n

LEMMA UpIs ==
  ASSUME NEW q \in Req, q.at >= 1
  PROVE  LET p == Stack!Up(q) IN
         /\ p \in Req /\ p.at = q.at - 1 /\ p.route = q.route /\ p.doing = "out"
         /\ p.headers = q.headers /\ p.noted = q.noted /\ p.sent = q.sent /\ p.logs = q.logs
         /\ p.ran = q.ran /\ p.panicked = q.panicked /\ p.tag = q.tag
<1> DEFINE n == q.at - 1
           p == [q EXCEPT !.at = n, !.doing = "out"]
<1>1. n \in Nat
  BY DEF Req
<1>2. Stack!Up(q) = p
  BY DEF Stack!Up
<1> HIDE DEF n
<1>3. p \in Req
  BY Zenon, <1>1 DEF Req
<1>4. /\ p.at = n /\ p.route = q.route /\ p.doing = "out"
      /\ p.headers = q.headers /\ p.noted = q.noted /\ p.sent = q.sent /\ p.logs = q.logs
      /\ p.ran = q.ran /\ p.panicked = q.panicked /\ p.tag = q.tag
  BY DEF Req
<1> QED
  BY <1>2, <1>3, <1>4 DEF n

LEMMA WithIs ==
  ASSUME NEW q \in Req, NEW h \in HeaderNames
  PROVE  LET p == Stack!With(q, h) IN
         /\ p \in Req /\ p.headers = q.headers \cup {h} /\ p.noted = q.noted
         /\ p.at = q.at /\ p.route = q.route /\ p.doing = q.doing
         /\ p.sent = q.sent /\ p.logs = q.logs
         /\ p.ran = q.ran /\ p.panicked = q.panicked /\ p.tag = q.tag
<1> DEFINE n == q.headers \cup {h}
           p == [q EXCEPT !.headers = n]
<1>1. n \in SUBSET HeaderNames
  BY DEF Req
<1>2. Stack!With(q, h) = p
  BY DEF Stack!With
<1> HIDE DEF n
<1>3. p \in Req
  BY Zenon, <1>1 DEF Req
<1>4. /\ p.headers = n /\ p.noted = q.noted
      /\ p.at = q.at /\ p.route = q.route /\ p.doing = q.doing
      /\ p.sent = q.sent /\ p.logs = q.logs
      /\ p.ran = q.ran /\ p.panicked = q.panicked /\ p.tag = q.tag
  BY DEF Req
<1> QED
  BY <1>2, <1>3, <1>4 DEF n

\* A layer passes a request on.
LEMMA GoesDown ==
  ASSUME NEW a \in Apps, NEW q, Fine(a, q), q.doing = "in", q.at <= Depth(a, q.route),
         NEW p \in Req, p.at = q.at + 1, p.route = q.route, p.doing = "in",
         p.sent = q.sent, p.logs = q.logs, p.ran = q.ran, p.panicked = q.panicked,
         q.headers \subseteq p.headers,
         a \in {"ch24", "ch31"} => p.noted = 0,
         a \in {"server", "ch43"} /\ q.at = 1 => "security" \in p.headers,
         (a = "ch24" /\ q.at = 2) \/ (a = "ch31" /\ q.at = 1) => "trace" \in p.headers
  PROVE  Good(a, q, p)
<1>1. q.at \in Nat /\ Depth(a, q.route) \in Nat
  BY DEF Fine, Req, Depth
<1>2. Entering(a, p)
  BY <1>1 DEF Fine, Entering
<1>3. Fine(a, p)
  BY <1>1, <1>2 DEF Fine
<1>4. SameTally(q, p)
  BY DEF SameTally, Tallied, ErrorTallied
<1> QED
  BY <1>3, <1>4 DEF Good

\* A layer or the handler writes an answer, and the request turns back.
LEMMA TurnsBack ==
  ASSUME stack \in Apps, NEW q, Fine(stack, q), q.doing = "in",
         NEW w \in Req, w.at = q.at, w.route = q.route, w.doing = "in", w.noted = q.noted,
         w.sent = q.sent, w.logs = q.logs, w.panicked = q.panicked,
         q.headers \subseteq w.headers,
         NEW status \in 0..500,
         \/ /\ w.ran = TRUE /\ q.at = Depth(stack, q.route) + 1
            /\ status \in Stack!Statuses /\ (stack = "ch37" => status \in {200, 404})
         \/ /\ w.ran = FALSE /\ q.at >= 4 /\ stack \in {"server", "ch24"}
            /\ status \in {204, 401, 429}
  PROVE  Good(stack, q, Stack!Up(Stack!WriteHeader(w, status)))
<1> DEFINE h == Stack!WriteHeader(w, status)
           p == Stack!Up(h)
<1>1. q \in Req /\ q.at \in Nat /\ q.at >= 1 /\ q.at <= Depth(stack, q.route) + 1
  BY DEF Fine, Req, Entering
<1>2. /\ h \in Req /\ SameRest(w, h)
      /\ stack = "ch37" /\ q.at > 1 => h.noted = status /\ h.sent = <<>>
      /\ Logs(stack) /\ q.at > Logging(stack) => h.noted = status
      /\ ~ (stack = "ch37" /\ q.at > 1) => SentIs(h, status, w.headers)
  <2>1. w.sent = <<>> /\ (stack \in {"ch24", "ch31"} => w.noted = 0)
    BY DEF Fine, Entering
  <2>2. Logs(stack) => w.noted = 0 \/ stack \in {"server", "ch40"}
    BY <2>1 DEF Logs
  <2>3. w.at <= Depth(stack, w.route) + 1
    BY <1>1
  <2>4. Writes(w, status, h)
    BY <2>3, WriteHeaderIs
  <2> HIDE DEF h
  <2> QED
    BY <2>1, <2>2, <2>4 DEF Writes, HoldsBack, Notes, MayWrite
<1> HIDE DEF h
<1>3. /\ p \in Req /\ p.at = q.at - 1 /\ p.route = q.route /\ p.doing = "out"
      /\ p.noted = h.noted /\ p.sent = h.sent /\ p.logs = <<>>
      /\ p.ran = w.ran /\ p.panicked = FALSE
  BY <1>1, <1>2, UpIs DEF SameRest, Fine, Entering
<1> HIDE DEF p
<1>4. stack = "ch37" <=> stack = "ch37" /\ q.at > 1
  BY <1>1 DEF Depth
<1>5. CASE stack = "ch37"
  <2>1. q.at = 2
    BY <1>5 DEF Depth
  <2>2. Leaving(stack, p)
    BY <1>2, <1>3, <1>5, <2>1 DEF Leaving, Logs
  <2> QED BY <1>1, <1>3, <1>5, <2>2 DEF Good, Fine, p, h
<1>6. CASE stack # "ch37"
  <2>1. Owed(stack) \subseteq w.headers
    BY <1>1 DEF Owed, Fine, Entering, Depth, Apps
  <2>2. WellAnswered(stack, p)
    BY <1>2, <1>3, <1>4, <1>6, <2>1 DEF WellAnswered, SentIs, Stack!Statuses
  <2>3. Logs(stack) => q.at > Logging(stack) /\ p.noted = p.sent[1].status
    BY <1>1, <1>2, <1>3, <1>4, <1>6 DEF Logs, Logging, Depth, SentIs
  <2>4. stack = "ch40" => q.at = 2 /\ p.noted \in Stack!Statuses
    BY <1>2, <1>3, <2>3 DEF Logs, Depth
  <2>5. Logging(stack) \in Nat
    BY DEF Logging
  <2>6. Leaving(stack, p)
    BY <1>1, <1>3, <1>6, <2>2, <2>3, <2>4, <2>5 DEF Leaving
  <2>7. p.at <= Depth(stack, p.route) + 1 /\ p.route \in Stack!Routes[stack]
    BY <1>1, <1>3 DEF Fine, Depth
  <2>9. stack = "ch40" => p.noted = p.sent[1].status /\ p.noted \in Stack!Statuses
    BY <2>3, <2>4 DEF Logs
  <2>10. Fine(stack, p)
    BY <1>3, <2>6, <2>7, <2>9 DEF Fine
  <2>8. stack = "ch40" => SameTally(q, p)
    BY <1>3, <2>4 DEF SameTally, Tallied, ErrorTallied
  <2> QED BY <2>8, <2>10 DEF Good, p, h
<1> QED
  BY <1>5, <1>6

\* So does one that notes a status to begin with.
LEMMA NoteGoesDown ==
  ASSUME NEW a \in Apps, NEW q, Fine(a, q), q.doing = "in", q.at <= Depth(a, q.route),
         ~ (a \in {"server", "ch43"} /\ q.at = 1),
         ~ ((a = "ch24" /\ q.at = 2) \/ (a = "ch31" /\ q.at = 1)),
         NEW n \in {0, 200}, a \in {"ch24", "ch31"} => n = 0,
         NEW w \in Req, SameRest(q, w), w.noted = n, w.sent = q.sent
  PROVE  Good(a, q, Stack!Down(w))
<1> DEFINE p == Stack!Down(w)
<1>1. /\ p \in Req /\ p.headers = w.headers /\ p.at = w.at + 1 /\ p.noted = w.noted
      /\ p.route = w.route /\ p.doing = w.doing
      /\ p.sent = w.sent /\ p.logs = w.logs /\ p.ran = w.ran /\ p.panicked = w.panicked
  BY DownIs
<1> HIDE DEF p
<1>2. Good(a, q, p)
  BY <1>1, GoesDown DEF SameRest
<1> QED
  BY <1>2 DEF p

-----------------------------------------------------------------------------
(* Middleware: on the way in *)

\* Every layer on the way in passes the request on as it found it, but for the
\* header it sets, or answers it.
LEMMA InIs ==
  ASSUME stack \in Apps, NEW r \in Requests, Fine(stack, req[r]), Stack!In(r)
  PROVE  StepsTo(r)
<1> DEFINE q == req[r]
           d == Depth(stack, q.route)
<1>0. q \in Req /\ q.at <= d + 1 /\ q.at \in Nat
  BY DEF Fine, Req
<1>1. /\ Stack!Layer(q) = "handler" <=> q.at = d + 1
      /\ \A l \in Layers : Stack!Layer(q) = l => q.at \in 1..d /\ LayerIs(stack, q.at, l)
  BY <1>0, LayerOf
<1>2. \A l \in Layers : Stack!At(r, l, "in") =>
         q.doing = "in" /\ q.at \in 1..d /\ LayerIs(stack, q.at, l)
  BY <1>1 DEF Stack!At
<1>3. q.doing = "in" => Entering(stack, q)
  BY DEF Fine
<1>4. CASE Stack!SecurityHeaders(r)
  <2> DEFINE w == Stack!With(q, "security")
             p == Stack!Down(w)
  <2>1. q.doing = "in" /\ q.at \in 1..d /\ q.at = 1 /\ stack \in {"server", "ch43"}
    BY <1>2, <1>4 DEF Stack!SecurityHeaders, Layers, LayerIs
  <2>2. /\ w \in Req /\ w.headers = q.headers \cup {"security"}
        /\ w.at = q.at /\ w.route = q.route /\ w.doing = q.doing
        /\ w.sent = q.sent /\ w.logs = q.logs /\ w.ran = q.ran /\ w.panicked = q.panicked
    BY <1>0, WithIs DEF HeaderNames
  <2>3. /\ p \in Req /\ p.headers = w.headers /\ p.at = w.at + 1
        /\ p.route = w.route /\ p.doing = w.doing
        /\ p.sent = w.sent /\ p.logs = w.logs /\ p.ran = w.ran /\ p.panicked = w.panicked
    BY <2>2, DownIs
  <2>4. Stack!Become(r, p)
    BY <1>4 DEF Stack!SecurityHeaders
  <2> HIDE DEF w, p
  <2>5. Good(stack, q, p)
    BY <1>0, <2>1, <2>2, <2>3, GoesDown
  <2> QED BY <2>4, <2>5 DEF StepsTo
<1>5. CASE Stack!RequestID(r)
  <2> DEFINE w == Stack!With(q, "trace")
             p == Stack!Down(w)
  <2>1. /\ q.doing = "in" /\ q.at \in 1..d
        /\ (stack = "ch24" /\ q.at = 2) \/ (stack = "ch31" /\ q.at = 1)
    BY <1>2, <1>5 DEF Stack!RequestID, Layers, LayerIs
  <2>2. /\ w \in Req /\ w.headers = q.headers \cup {"trace"} /\ w.noted = q.noted
        /\ w.at = q.at /\ w.route = q.route /\ w.doing = q.doing
        /\ w.sent = q.sent /\ w.logs = q.logs /\ w.ran = q.ran /\ w.panicked = q.panicked
    BY <1>0, WithIs DEF HeaderNames
  <2>3. /\ p \in Req /\ p.headers = w.headers /\ p.at = w.at + 1 /\ p.noted = w.noted
        /\ p.route = w.route /\ p.doing = w.doing
        /\ p.sent = w.sent /\ p.logs = w.logs /\ p.ran = w.ran /\ p.panicked = w.panicked
    BY <2>2, DownIs
  <2>4. Stack!Become(r, p)
    BY <1>5 DEF Stack!RequestID
  <2> HIDE DEF w, p
  <2>6. q.noted = 0
    BY <1>3, <2>1 DEF Entering
  <2>5. Good(stack, q, p)
    BY <1>0, <2>1, <2>2, <2>3, <2>6, GoesDown
  <2> QED BY <2>4, <2>5 DEF StepsTo
<1>6. \* A layer that passes the request on as it is.
      ASSUME q.doing = "in", q.at \in 1..d, Stack!Become(r, Stack!Down(q)),
             ~ (stack \in {"server", "ch43"} /\ q.at = 1),
             ~ ((stack = "ch24" /\ q.at = 2) \/ (stack = "ch31" /\ q.at = 1))
      PROVE  StepsTo(r)
  <2> DEFINE p == Stack!Down(q)
  <2>1. /\ p \in Req /\ p.headers = q.headers /\ p.at = q.at + 1 /\ p.noted = q.noted
        /\ p.route = q.route /\ p.doing = q.doing
        /\ p.sent = q.sent /\ p.logs = q.logs /\ p.ran = q.ran /\ p.panicked = q.panicked
    BY <1>0, DownIs
  <2>2. stack \in {"ch24", "ch31"} => q.noted = 0
    BY <1>3, <1>6 DEF Entering
  <2> HIDE DEF p
  <2>3. Good(stack, q, p)
    BY <1>0, <1>6, <2>1, <2>2, GoesDown
  <2> QED BY <1>6, <2>3 DEF StepsTo, p
<1>7. CASE Stack!Recoverer(r)
  <2>1. /\ q.doing = "in" /\ q.at \in 1..d
        /\ (stack = "server" /\ q.at = 2) \/ (stack = "ch24" /\ q.at = 1)
    BY <1>2, <1>7 DEF Stack!Recoverer, Layers, LayerIs
  <2>2. Stack!Become(r, Stack!Down(q))
    BY <1>7 DEF Stack!Recoverer
  <2> QED BY <1>6, <2>1, <2>2
<1>8. \* Logger and InstrumentHandler note a status to begin with.
      ASSUME NEW n \in 0..500, n \in {0, 200}, q.doing = "in", q.at \in 1..d,
             Stack!Become(r, Stack!Down([q EXCEPT !.noted = n])),
             ~ (stack \in {"server", "ch43"} /\ q.at = 1),
             ~ ((stack = "ch24" /\ q.at = 2) \/ (stack = "ch31" /\ q.at = 1)),
             stack \in {"ch24", "ch31"} => n = 0
      PROVE  StepsTo(r)
  <2> DEFINE w == [q EXCEPT !.noted = n]
  <2>1. q.at <= d /\ Fine(stack, q)
    BY <1>8
  <2>2. Stack!Become(r, Stack!Down(w))
    BY <1>8
  <2>3. w \in Req /\ SameRest(q, w) /\ w.noted = n /\ w.sent = q.sent
    BY <1>0, NoteIs
  <2> HIDE DEF w
  <2>4. Good(stack, q, Stack!Down(w))
    BY <1>8, <2>1, <2>3, NoteGoesDown
  <2> QED BY <2>2, <2>4 DEF StepsTo
<1>9. CASE Stack!Logger(r)
  <2> DEFINE n == IF stack = "server" THEN 200 ELSE 0
  <2>1. /\ q.doing = "in" /\ q.at \in 1..d
        /\ (stack \in {"server", "ch24"} /\ q.at = 3) \/ (stack = "ch31" /\ q.at = 2)
    BY <1>2, <1>9 DEF Stack!Logger, Layers, LayerIs
  <2>2. Stack!Become(r, Stack!Down([q EXCEPT !.noted = n]))
    BY <1>9 DEF Stack!Logger
  <2>3. n \in {0, 200} /\ (stack \in {"ch24", "ch31"} => n = 0)
    OBVIOUS
  <2> HIDE DEF n
  <2> QED BY <1>8, <2>1, <2>2, <2>3
<1>10. CASE Stack!StartWith200(r)
  <2>1. q.doing = "in" /\ q.at \in 1..d /\ stack \in {"ch37", "ch40"}
    BY <1>2, <1>10 DEF Stack!StartWith200, Layers, LayerIs
  <2>2. Stack!Become(r, Stack!Down([q EXCEPT !.noted = 200]))
    BY <1>10 DEF Stack!StartWith200
  <2> QED BY <1>8, <2>1, <2>2
<1>11. \* A layer that answers the request by itself.
       ASSUME NEW w \in Req, NEW status \in {204, 401, 429},
              q.doing = "in", q.at \in 1..d, q.at >= 4, stack \in {"server", "ch24"},
              w = q \/ \E h \in HeaderNames : w = Stack!With(q, h),
              Stack!Become(r, Stack!Up(Stack!WriteHeader(w, status)))
       PROVE  StepsTo(r)
  <2>1. /\ w.at = q.at /\ w.route = q.route /\ w.doing = "in" /\ w.noted = q.noted
        /\ w.sent = q.sent /\ w.logs = q.logs /\ w.panicked = q.panicked
        /\ w.ran = q.ran /\ q.headers \subseteq w.headers
    BY <1>0, <1>11, WithIs
  <2>2. w.ran = FALSE
    BY <1>3, <1>11, <2>1 DEF Entering
  <2>3. status \in 0..500
    BY <1>11
  <2>4. Good(stack, q, Stack!Up(Stack!WriteHeader(w, status)))
    BY <1>11, <2>1, <2>2, <2>3, TurnsBack
  <2> QED BY <1>11, <2>4 DEF StepsTo
<1>12. CASE Stack!CORS(r)
  <2>1. q.doing = "in" /\ q.at \in 1..d /\ stack = "ch24" /\ q.at = 4
    BY <1>2, <1>12 DEF Stack!CORS, Layers, LayerIs
  <2>2. PICK w \in {q, Stack!With(q, "allow")} :
           Stack!Become(r, IF w.route = "preflight"
                           THEN Stack!Up(Stack!WriteHeader(w, 204)) ELSE Stack!Down(w))
    BY <1>12 DEF Stack!CORS
  <2>3. /\ w \in Req /\ q.headers \subseteq w.headers /\ w.noted = q.noted
        /\ w.at = q.at /\ w.route = q.route /\ w.doing = q.doing
        /\ w.sent = q.sent /\ w.logs = q.logs /\ w.ran = q.ran /\ w.panicked = q.panicked
    BY <1>0, WithIs DEF HeaderNames
  <2>4. CASE w.route = "preflight"
    <3>1. Stack!Become(r, Stack!Up(Stack!WriteHeader(w, 204)))
      BY <2>2, <2>4
    <3>2. w = q \/ \E h \in HeaderNames : w = Stack!With(q, h)
      BY DEF HeaderNames
    <3> QED BY <1>11, <2>1, <2>3, <3>1, <3>2
  <2>5. CASE w.route # "preflight"
    <3> DEFINE p == Stack!Down(w)
    <3>1. Stack!Become(r, p)
      BY <2>2, <2>5
    <3>2. /\ p \in Req /\ p.headers = w.headers /\ p.at = w.at + 1 /\ p.noted = w.noted
          /\ p.route = w.route /\ p.doing = w.doing
          /\ p.sent = w.sent /\ p.logs = w.logs /\ p.ran = w.ran /\ p.panicked = w.panicked
      BY <2>3, DownIs
    <3>3. q.noted = 0
      BY <1>3, <2>1 DEF Entering
    <3> HIDE DEF p
    <3>4. Good(stack, q, p)
      BY <1>0, <2>1, <2>3, <3>2, <3>3, GoesDown
    <3> QED BY <3>1, <3>4 DEF StepsTo
  <2> QED BY <2>4, <2>5
<1>13. CASE Stack!RateLimiter(r)
  <2>1. q.doing = "in" /\ q.at \in 1..d /\ stack = "server" /\ q.at >= 4
    BY <1>2, <1>13 DEF Stack!RateLimiter, Layers, LayerIs
  <2>2. CASE Stack!Become(r, Stack!Down(q))
    BY <1>6, <2>1, <2>2
  <2>3. CASE Stack!Become(r, Stack!Up(Stack!WriteHeader(Stack!With(q, "retry"), 429)))
    <3>1. "retry" \in HeaderNames /\ Stack!With(q, "retry") \in Req
      BY <1>0, WithIs DEF HeaderNames
    <3> QED BY <1>11, <2>1, <2>3, <3>1
  <2> QED BY <1>13, <2>2, <2>3 DEF Stack!RateLimiter
<1>14. CASE Stack!RequireAuth(r)
  <2>1. q.doing = "in" /\ q.at \in 1..d /\ stack = "server" /\ q.at >= 4
    BY <1>2, <1>14 DEF Stack!RequireAuth, Layers, LayerIs
  <2>2. CASE Stack!Become(r, Stack!Down(q))
    BY <1>6, <2>1, <2>2
  <2>3. CASE Stack!Become(r, Stack!Up(Stack!WriteHeader(q, 401)))
    BY <1>0, <1>11, <2>1, <2>3
  <2> QED BY <1>14, <2>2, <2>3 DEF Stack!RequireAuth
<1> QED
  BY <1>4, <1>5, <1>7, <1>9, <1>10, <1>12, <1>13, <1>14 DEF Stack!In

-----------------------------------------------------------------------------
(* Middleware: the handler *)

\* The handler writes a status, or panics, or is gone.
LEMMA HandlerIs ==
  ASSUME stack \in Apps, NEW r \in Requests, Fine(stack, req[r]),
         \/ Stack!Handle(r) \/ Stack!HandleProbe(r) \/ Stack!HandleGone(r) \/ Stack!Panic(r)
  PROVE  StepsTo(r)
<1> DEFINE q == req[r]
           d == Depth(stack, q.route)
           w == [q EXCEPT !.ran = TRUE]
<1>0. q \in Req /\ q.at <= d + 1 /\ q.at \in Nat /\ d \in Nat
  BY DEF Fine, Req, Depth
<1>1. q.doing = "in" /\ q.at = d + 1
  BY <1>0, LayerOf DEF Stack!Handle, Stack!HandleProbe, Stack!HandleGone, Stack!Panic, Stack!At
<1>2. Entering(stack, q) /\ q.route \in Stack!Routes[stack]
  BY <1>1 DEF Fine
<1> HIDE DEF q
<1>3. w \in Req
  BY Zenon, <1>0 DEF Req
<1>4. /\ w.at = q.at /\ w.route = q.route /\ w.doing = q.doing /\ w.noted = q.noted
      /\ w.sent = q.sent /\ w.logs = q.logs /\ w.panicked = q.panicked
      /\ w.headers = q.headers /\ w.ran = TRUE
  BY <1>0 DEF Req
<1> HIDE DEF w
<1>5. ASSUME NEW status \in Stack!Statuses, stack = "ch37" => status \in {200, 404},
             Stack!Become(r, Stack!Up(Stack!WriteHeader(w, status)))
      PROVE  StepsTo(r)
  <2>1. status \in 0..500
    BY DEF Stack!Statuses
  <2>2. Good(stack, q, Stack!Up(Stack!WriteHeader(w, status)))
    <3>1. Fine(stack, q)
      BY DEF q
    <3>2. w.doing = "in" /\ q.headers \subseteq w.headers
      BY <1>1, <1>4
    <3> QED BY <1>1, <1>3, <1>4, <1>5, <2>1, <3>1, <3>2, TurnsBack
  <2> QED BY <1>5, <2>2 DEF StepsTo, q
<1>6. CASE Stack!Handle(r)
  <2>1. PICK status \in Stack!Answers(q.route) :
           Stack!Become(r, Stack!Up(Stack!WriteHeader(w, status)))
    BY <1>6 DEF Stack!Handle, w, q
  <2>2. status \in Stack!Statuses
    BY DEF Stack!Answers, Stack!Statuses
  <2>3. stack = "ch37" => status \in {200, 404}
    <3>1. stack = "ch37" => q.route = "todo"
      BY <1>2, RoutesAre
    <3> QED BY <3>1 DEF Stack!Answers
  <2> QED BY <1>5, <2>1, <2>2, <2>3
<1>7. CASE Stack!HandleProbe(r)
  <2>1. PICK status \in {200, 500} : Stack!Become(r, Stack!Up(Stack!WriteHeader(w, status)))
    BY <1>7 DEF Stack!HandleProbe, w, q
  <2>2. status \in Stack!Statuses
    BY DEF Stack!Statuses
  <2>3. stack # "ch37"
    BY <1>2, <1>7, RoutesAre DEF Stack!HandleProbe, q
  <2> QED BY <1>5, <2>1, <2>2, <2>3
<1>8. CASE Stack!HandleGone(r)
  <2> DEFINE p == Stack!Up(w)
  <2>1. stack = "ch38" /\ d = 0
    BY <1>2, <1>8, RoutesAre DEF Stack!HandleGone, q, Depth
  <2>2. Stack!Become(r, p)
    BY <1>8 DEF Stack!HandleGone, w, q
  <2>3. /\ p \in Req /\ p.at = 0 /\ p.route = q.route /\ p.doing = "out"
        /\ p.sent = <<>> /\ p.ran = TRUE /\ p.panicked = FALSE
    BY <1>1, <1>2, <1>3, <1>4, <2>1, UpIs DEF Entering
  <2> HIDE DEF p
  <2>4. Leaving(stack, p)
    BY <2>1, <2>3 DEF Leaving, Logs
  <2>5. Good(stack, q, p)
    BY <1>0, <1>2, <2>1, <2>3, <2>4 DEF Good, Fine
  <2> QED BY <2>2, <2>5 DEF StepsTo, q
<1>9. CASE Stack!Panic(r)
  <2> DEFINE n == q.at - 1
             p == [q EXCEPT !.at = n, !.doing = "panic", !.ran = TRUE, !.panicked = TRUE]
  <2>1. stack \in {"server", "ch24"}
    BY <1>2, <1>9, RoutesAre DEF Stack!Panic, q
  <2>2. n \in Nat /\ n = d /\ d >= 4
    BY <1>0, <1>1, <2>1 DEF Depth
  <2>3. Stack!Become(r, p)
    BY <1>9 DEF Stack!Panic, q
  <2> HIDE DEF n
  <2>4. p \in Req
    <3>1. n \in Nat
      BY <2>2
    <3> HIDE DEF q
    <3> QED BY <1>0, <3>1, PanicIs
  <2>5. /\ p.at = n /\ p.route = q.route /\ p.doing = "panic" /\ p.sent = q.sent
        /\ p.logs = q.logs /\ p.ran = TRUE /\ p.panicked = TRUE /\ p.headers = q.headers
    BY <1>0 DEF Req
  <2> HIDE DEF p
  <2>6. Owed(stack) \subseteq q.headers
    BY <1>1, <1>2, <2>1, <2>2 DEF Entering, Owed
  <2>7. Panicking(stack, p)
    BY <1>2, <2>1, <2>2, <2>5, <2>6 DEF Panicking, Entering
  <2>8. Good(stack, q, p)
    BY <1>0, <1>2, <2>1, <2>2, <2>4, <2>5, <2>7 DEF Good, Fine
  <2> QED BY <2>3, <2>8 DEF StepsTo, q
<1> QED
  BY <1>6, <1>7, <1>8, <1>9

\* A request that arrives has been through nothing.
LEMMA ArriveIs ==
  ASSUME stack \in Apps, NEW r \in Requests, Fine(stack, req[r]), Stack!Arrive(r)
  PROVE  StepsTo(r)
<1>1. PICK route \in Stack!Routes[stack], tag \in BOOLEAN :
         Stack!Become(r, Stack!New(route, tag))
  BY DEF Stack!Arrive
<1> DEFINE p == Stack!New(route, tag)
<1>2. route \in RouteNames
  BY RoutesAre
<1>3. p \in Req
  BY <1>2 DEF Stack!New, Req
<1>4. /\ p.at = 1 /\ p.route = route /\ p.doing = "in" /\ p.sent = <<>> /\ p.logs = <<>>
      /\ p.ran = FALSE /\ p.panicked = FALSE /\ p.noted = 0
  BY DEF Stack!New
<1> HIDE DEF p
<1>5. Entering(stack, p)
  BY <1>4 DEF Entering
<1>6. Fine(stack, p)
  BY <1>3, <1>4, <1>5 DEF Fine, Depth
<1>7. SameTally(req[r], p)
  BY <1>4 DEF SameTally, Tallied, ErrorTallied, Stack!Arrive
<1> QED
  BY <1>1, <1>6, <1>7 DEF StepsTo, Good, p

-----------------------------------------------------------------------------
(* Middleware: on the way out *)

\* On the way out, but for the counters: a layer logs, sends or does nothing.
LEMMA OutIs ==
  ASSUME stack \in Apps, NEW r \in Requests, Fine(stack, req[r]),
         \/ Stack!Recover(r) \/ Stack!Unwind(r) \/ Stack!Log(r) \/ Stack!SendTagged(r)
         \/ Stack!Pass(r) \/ Stack!Finish(r)
  PROVE  StepsTo(r)
<1> DEFINE q == req[r]
           d == Depth(stack, q.route)
<1>0. q \in Req /\ q.at <= d + 1 /\ q.at \in Nat /\ d \in Nat /\ Fine(stack, q)
  BY DEF Fine, Req, Depth
<1>1. /\ Stack!Layer(q) = "net/http" <=> q.at = 0
      /\ q.at \in 1..d => Stack!Layer(q) \in Layers
      /\ \A l \in Layers : Stack!Layer(q) = l => q.at \in 1..d /\ LayerIs(stack, q.at, l)
  BY <1>0, LayerOf
<1>2. /\ q.doing = "out" => Leaving(stack, q)
      /\ q.doing = "panic" => Panicking(stack, q)
      /\ q.doing # "idle" => q.route \in Stack!Routes[stack]
  BY DEF Fine
<1>3. \A l \in Layers : LayerIs(stack, q.at, l) /\ q.at \in 1..d =>
         /\ stack = "server" /\ q.at = 2 => l = "Recoverer"
         /\ stack = "ch24" /\ q.at = 1 => l = "Recoverer"
         /\ stack \in {"server", "ch24"} /\ q.at = 3 => l = "Logger"
         /\ stack = "ch31" /\ q.at = 2 => l = "Logger"
         /\ stack = "ch37" => l = "WithETag"
         /\ stack = "ch40" => l = "InstrumentHandler"
  BY <1>0 DEF LayerIs, Layers, Depth
<1>4. CASE Stack!Recover(r)
  <2> DEFINE h == Stack!WriteHeader(q, 500)
             p == Stack!Up(h)
  <2>1. /\ q.doing = "panic"
        /\ (stack = "server" /\ q.at = 2) \/ (stack = "ch24" /\ q.at = 1)
    BY <1>1, <1>4 DEF Stack!Recover, Stack!At, Layers, LayerIs
  <2>2. Stack!Become(r, p)
    BY <1>4 DEF Stack!Recover
  <2>3. q.sent = <<>> /\ q.logs = <<>> /\ q.ran = TRUE /\ q.panicked = TRUE
        /\ Owed(stack) \subseteq q.headers
    BY <1>2, <2>1 DEF Panicking
  <2>4. ~ (stack = "ch37" /\ q.at > 1) /\ ~ (Logs(stack) /\ q.at > Logging(stack))
    BY <2>1 DEF Logs, Logging
  <2>5. h \in Req /\ SameRest(q, h) /\ SentIs(h, 500, q.headers)
    <3>1. 500 \in 0..500
      OBVIOUS
    <3>2. q.at <= Depth(stack, q.route) + 1
      BY <1>0
    <3>3. Writes(q, 500, h)
      BY <1>0, <3>1, <3>2, WriteHeaderIs
    <3> HIDE DEF h, q
    <3> QED BY <2>3, <2>4, <3>3 DEF Writes, HoldsBack, Notes
  <2> HIDE DEF h, q
  <2>6. /\ p \in Req /\ p.at = q.at - 1 /\ p.route = q.route /\ p.doing = "out"
        /\ p.sent = h.sent /\ p.logs = <<>> /\ p.ran = TRUE /\ p.panicked = TRUE
    BY <1>0, <2>1, <2>3, <2>5, UpIs DEF SameRest
  <2> HIDE DEF p
  <2>7. WellAnswered(stack, p)
    BY <2>3, <2>5, <2>6 DEF WellAnswered, SentIs
  <2>8. Leaving(stack, p)
    BY <2>1, <2>6, <2>7 DEF Leaving, LoggedOnce, Logging
  <2>9. Good(stack, q, p)
    BY <1>0, <1>2, <2>1, <2>6, <2>8 DEF Good, Fine
  <2> QED BY <2>2, <2>9 DEF StepsTo, p, q
<1>5. CASE Stack!Unwind(r)
  <2> DEFINE n == q.at - 1
             p == [q EXCEPT !.at = n]
  <2>1. q.doing = "panic" /\ Stack!Layer(q) # "Recoverer" /\ Stack!Become(r, p)
    BY <1>5 DEF Stack!Unwind
  <2>2. Panicking(stack, q)
    BY <1>2, <2>1
  <2>3. n \in Nat /\ (stack = "server" => n >= 2) /\ (stack = "ch24" => n >= 1)
    <3>1. d >= 4
      BY <2>2 DEF Panicking, Depth
    <3>2. ~ (stack = "server" /\ q.at = 2) /\ ~ (stack = "ch24" /\ q.at = 1)
      BY <1>0, <1>1, <1>3, <2>1, <3>1
    <3> QED BY <1>0, <2>2, <3>2 DEF Panicking
  <2>4. n <= d + 1
    BY <1>0
  <2> HIDE DEF n, q
  <2>5. p \in Req
    BY Zenon, <1>0, <2>3 DEF Req
  <2>6. /\ p.at = n /\ p.route = q.route /\ p.doing = q.doing /\ p.sent = q.sent
        /\ p.logs = q.logs /\ p.ran = q.ran /\ p.panicked = q.panicked
        /\ p.headers = q.headers
    BY <1>0 DEF Req
  <2> HIDE DEF p
  <2>7. Panicking(stack, p)
    BY <2>2, <2>3, <2>6 DEF Panicking
  <2>8. stack # "ch40"
    BY <2>2 DEF Panicking
  <2>9. Good(stack, q, p)
    BY <1>2, <2>1, <2>4, <2>5, <2>6, <2>7, <2>8 DEF Good, Fine
  <2> QED BY <2>1, <2>9 DEF StepsTo, q, p
<1>6. CASE Stack!Log(r)
  <2> DEFINE s == Append(q.logs, q.noted)
             w == [q EXCEPT !.logs = s]
             p == Stack!Up(w)
  <2>1. /\ q.doing = "out" /\ q.at = Logging(stack) /\ q.at \in 1..d
        /\ stack \in {"server", "ch24", "ch31"}
    BY <1>1, <1>6 DEF Stack!Log, Stack!At, Layers, LayerIs, Logging
  <2>2. Stack!Become(r, p)
    BY <1>6 DEF Stack!Log
  <2>3. /\ Leaving(stack, q) /\ q.logs = <<>> /\ q.noted = q.sent[1].status
        /\ q.panicked = FALSE /\ WellAnswered(stack, q)
    BY <1>0, <1>2, <2>1 DEF Leaving, Logs
  <2> HIDE DEF q
  <2>4. s \in Seq(0..500) /\ Len(s) = 1 /\ s[1] = q.noted
    <3>1. q.noted \in 0..500
      BY <1>0 DEF Req
    <3> QED BY <2>3, <3>1
  <2> HIDE DEF s
  <2>5. w \in Req
    BY Zenon, <1>0, <2>4 DEF Req
  <2>6. /\ w.at = q.at /\ w.route = q.route /\ w.doing = q.doing /\ w.sent = q.sent
        /\ w.logs = s /\ w.ran = q.ran /\ w.panicked = q.panicked
    BY <1>0 DEF Req
  <2> HIDE DEF w
  <2>7. /\ p \in Req /\ p.at = q.at - 1 /\ p.route = q.route /\ p.doing = "out"
        /\ p.sent = q.sent /\ p.logs = s /\ p.ran = q.ran /\ p.panicked = q.panicked
    BY <2>1, <2>5, <2>6, UpIs
  <2> HIDE DEF p
  <2>8. WellAnswered(stack, p)
    BY <2>3, <2>7 DEF WellAnswered
  <2>9. Leaving(stack, p)
    BY <1>0, <2>1, <2>3, <2>4, <2>7, <2>8 DEF Leaving, LoggedOnce
  <2>10. Good(stack, q, p)
    BY <1>0, <1>2, <2>1, <2>7, <2>9 DEF Good, Fine
  <2> QED BY <2>2, <2>10 DEF StepsTo, q, p
<1>7. CASE Stack!SendTagged(r)
  <2> DEFINE w == IF q.noted = 200 THEN Stack!With(q, "etag") ELSE q
             status == IF q.noted = 200 /\ w.tag THEN 304 ELSE w.noted
             s == Stack!Send(w, status)
             p == Stack!Up(s)
  <2>1. q.doing = "out" /\ stack = "ch37" /\ q.at = 1
    BY <1>1, <1>7 DEF Stack!SendTagged, Stack!At, Layers, LayerIs
  <2>2. Stack!Become(r, p)
    BY <1>7 DEF Stack!SendTagged
  <2>3. q.sent = <<>> /\ q.ran = TRUE /\ q.panicked = FALSE /\ q.noted \in {200, 404}
    BY <1>2, <2>1 DEF Leaving
  <2>4. /\ w \in Req /\ w.at = q.at /\ w.route = q.route /\ w.sent = <<>> /\ w.noted = q.noted
        /\ w.ran = TRUE /\ w.panicked = FALSE
    BY <1>0, <2>3, WithIs DEF HeaderNames
  <2> HIDE DEF q, w
  <2>5. status \in {304, 200, 404}
    BY <2>3, <2>4
  <2> HIDE DEF status
  <2>6. s \in Req /\ SameRest(w, s) /\ SentIs(s, status, w.headers)
    <3>1. status \in 0..500
      BY <2>5
    <3> QED BY <2>4, <3>1, SendIs DEF Sends
  <2> HIDE DEF s
  <2>7. /\ p \in Req /\ p.at = 0 /\ p.route = q.route /\ p.doing = "out"
        /\ p.sent = s.sent /\ p.ran = TRUE /\ p.panicked = FALSE
    BY <2>1, <2>4, <2>6, UpIs DEF SameRest
  <2> HIDE DEF p
  <2>8. WellAnswered(stack, p)
    BY <2>1, <2>5, <2>6, <2>7 DEF WellAnswered, SentIs, Owed
  <2>9. Leaving(stack, p)
    BY <2>1, <2>7, <2>8 DEF Leaving, Logs
  <2>10. Good(stack, q, p)
    BY <1>0, <1>2, <2>1, <2>7, <2>9 DEF Good, Fine
  <2> QED BY <2>2, <2>10 DEF StepsTo, q, p, s, status, w
<1>8. CASE Stack!Pass(r)
  <2> DEFINE p == Stack!Up(q)
  <2>1. /\ q.doing = "out" /\ Stack!Become(r, p)
        /\ Stack!Layer(q) \notin {"net/http", "Logger", "InstrumentHandler", "WithETag"}
    BY <1>8 DEF Stack!Pass
  <2>2. q.at >= 1 /\ Leaving(stack, q)
    BY <1>0, <1>1, <1>2, <2>1
  <2>3. /\ stack \notin {"ch37", "ch40"}
        /\ stack \in {"server", "ch24"} => q.at # 3
        /\ stack = "ch31" => q.at # 2
    <3>1. stack \in {"ch37", "ch40"} => q.at = 1 /\ d = 1
      BY <1>0, <2>2 DEF Leaving, Depth
    <3>2. stack \in {"server", "ch24"} => d >= 4
      BY DEF Depth
    <3>3. stack = "ch31" => d = 2
      BY DEF Depth
    <3> QED BY <1>0, <1>1, <1>3, <2>1, <2>2, <3>1, <3>2, <3>3
  <2> HIDE DEF q
  <2>4. /\ p \in Req /\ p.at = q.at - 1 /\ p.route = q.route /\ p.doing = "out"
        /\ p.sent = q.sent /\ p.logs = q.logs /\ p.ran = q.ran /\ p.panicked = q.panicked
        /\ p.noted = q.noted
    BY <1>0, <2>2, UpIs
  <2> HIDE DEF p
  <2>5. WellAnswered(stack, q) => WellAnswered(stack, p)
    BY <2>4 DEF WellAnswered
  <2>6. Logs(stack) /\ q.at >= Logging(stack) => p.at >= Logging(stack)
    BY <1>0, <2>3, <2>4 DEF Logs, Logging
  <2>7. Logs(stack) /\ ~ (q.at >= Logging(stack)) => ~ (p.at >= Logging(stack))
    BY <1>0, <2>4 DEF Logs, Logging
  <2>8. Leaving(stack, p)
    BY <2>1, <2>2, <2>3, <2>4, <2>5, <2>6, <2>7 DEF Leaving, LoggedOnce
  <2>9. Good(stack, q, p)
    BY <1>0, <1>2, <2>1, <2>3, <2>4, <2>8 DEF Good, Fine
  <2> QED BY <2>1, <2>9 DEF StepsTo, q, p
<1>9. CASE Stack!Finish(r)
  <2> DEFINE w == IF q.sent = <<>> THEN Stack!Send(q, 200) ELSE q
             p == [w EXCEPT !.doing = "over"]
  <2>1. q.doing = "out" /\ q.at = 0 /\ Stack!Become(r, p) /\ Leaving(stack, q)
    BY <1>1, <1>2, <1>9 DEF Stack!Finish, Stack!At
  <2>2. \/ WellAnswered(stack, q)
        \/ stack = "ch38" /\ q.sent = <<>> /\ q.ran = TRUE /\ q.panicked = FALSE
    <3>1. ~ (stack = "ch37" /\ q.at = 1)
      BY <2>1
    <3> QED BY Zenon, <2>1, <3>1 DEF Leaving
  <2>3. 200 \in 0..500
    OBVIOUS
  <2>4. w \in Req /\ SameRest(q, w) /\ w.noted = q.noted /\ WellAnswered(stack, w)
    <3>1. CASE q.sent = <<>>
      <4>1. Len(q.sent) = 0
        BY <3>1
      <4>2. stack = "ch38" /\ q.ran = TRUE /\ q.panicked = FALSE
        BY <2>2, <4>1 DEF WellAnswered
      <4>3. w = Stack!Send(q, 200)
        BY <3>1
      <4> HIDE DEF w
      <4>4. Sends(q, 200, w)
        BY <1>0, <2>3, <4>3, SendIs
      <4> QED BY <3>1, <4>2, <4>4 DEF WellAnswered, Sends, SentIs, SameRest, Owed
    <3>2. CASE q.sent # <<>>
      BY <1>0, <2>2, <3>2 DEF SameRest
    <3> QED BY <3>1, <3>2
  <2>5. Logs(stack) => w = q /\ LoggedOnce(q)
    <3>1. stack # "ch38" => q.sent # <<>>
      BY <2>2 DEF WellAnswered
    <3>2. Logs(stack) => Logging(stack) > 0 /\ Logging(stack) \in Nat
      BY DEF Logs, Logging
    <3> QED BY <2>1, <3>1, <3>2 DEF Leaving, Logs
  <2>6. stack = "ch40" => w = q /\ q.noted = q.sent[1].status /\ q.noted \in Stack!Statuses
    BY <1>0, <2>1, <2>5 DEF Fine, Logs
  <2> HIDE DEF w, q
  <2>7. p \in Req
    BY Zenon, <2>4 DEF Req
  <2>8. /\ p.at = w.at /\ p.route = w.route /\ p.doing = "over" /\ p.sent = w.sent
        /\ p.logs = w.logs /\ p.ran = w.ran /\ p.panicked = w.panicked /\ p.noted = w.noted
    BY <2>4 DEF Req
  <2> HIDE DEF p
  <2>9. WellAnswered(stack, p) /\ (Logs(stack) => LoggedOnce(p))
    BY <2>4, <2>5, <2>8 DEF WellAnswered, LoggedOnce
  <2>10. p.at = 0 /\ p.route = q.route
    BY <2>1, <2>4, <2>8 DEF SameRest
  <2>11. Fine(stack, p)
    BY <1>0, <1>2, <2>1, <2>6, <2>7, <2>8, <2>9, <2>10 DEF Fine
  <2>12. SameTally(q, p)
    BY <2>1, <2>4, <2>8, <2>10 DEF SameTally, Tallied, ErrorTallied
  <2> QED BY <2>1, <2>11, <2>12 DEF StepsTo, Good, q, p, w
<1> QED
  BY <1>4, <1>5, <1>6, <1>7, <1>8, <1>9

-----------------------------------------------------------------------------
(* Middleware: the counters of ch40 *)

\* What ch40 has counted, by route and status.
Routes40 == Stack!Routes["ch40"]

TalliedAs(rs, x, status) ==
    {r \in Requests : Tallied(rs[r]) /\ rs[r].route = x /\ rs[r].noted = status}

ErrorsAt(rs, x) ==
    {r \in Requests : ErrorTallied(rs[r]) /\ rs[r].route = x /\ rs[r].noted >= 500}

\* The counters of ch40 are the numbers of the requests they have counted.
Sums(a, rs, counted, failed) ==
    /\ counted \in [Routes40 \X Stack!Statuses -> Nat]
    /\ failed \in [Routes40 -> Nat]
    /\ a = "ch40" =>
           /\ \A x \in Routes40, status \in Stack!Statuses :
                  counted[<<x, status>>] = Cardinality(TalliedAs(rs, x, status))
           /\ \A x \in Routes40 : failed[x] = Cardinality(ErrorsAt(rs, x))
    /\ a # "ch40" =>
           /\ \A x \in Routes40, status \in Stack!Statuses : counted[<<x, status>>] = 0
           /\ \A x \in Routes40 : failed[x] = 0

\* Every request is as it must be, and so are the counters.
ChainInv ==
    /\ stack \in Apps
    /\ req \in [Requests -> Req]
    /\ \A r \in Requests : Fine(stack, req[r])
    /\ Sums(stack, req, requestTotal, errorTotal)

\* These sets are finite.
LEMMA TallySets ==
  ASSUME NEW rs, NEW x, NEW status
  PROVE  /\ IsFiniteSet(TalliedAs(rs, x, status))
         /\ Cardinality(TalliedAs(rs, x, status)) \in Nat
         /\ IsFiniteSet(ErrorsAt(rs, x)) /\ Cardinality(ErrorsAt(rs, x)) \in Nat
<1>1. TalliedAs(rs, x, status) \subseteq Requests /\ ErrorsAt(rs, x) \subseteq Requests
  BY DEF TalliedAs, ErrorsAt
<1> QED
  BY <1>1, HttpChainAssumption, FS_Subset, FS_CardinalityType

\* No request has arrived.
LEMMA ChainInit == ServersInit => ChainInv
<1> SUFFICES ASSUME ServersInit PROVE ChainInv
  OBVIOUS
<1> DEFINE none == [Stack!New("none", FALSE) EXCEPT !.at = 0, !.doing = "idle"]
<1>1. stack \in Apps /\ req = [r \in Requests |-> none]
  BY DEF ServersInit, Stack!Init, Stack!Routes, Apps
<1>2. none \in Req /\ none.doing = "idle" /\ none.at = 0
  <2> DEFINE n == Stack!New("none", FALSE)
  <2>0. 0 \in Nat
    OBVIOUS
  <2>1. n \in Req
    BY DEF Stack!New, Req, RouteNames
  <2> HIDE DEF n
  <2>2. [n EXCEPT !.at = 0, !.doing = "idle"] \in Req
    BY Zenon, <2>1, <2>0 DEF Req
  <2>3. [n EXCEPT !.at = 0, !.doing = "idle"].doing = "idle"
    BY <2>1 DEF Req
  <2>4. [n EXCEPT !.at = 0, !.doing = "idle"].at = 0
    BY <2>1 DEF Req
  <2> QED BY <2>2, <2>3, <2>4 DEF n
<1> HIDE DEF none
<1>3. req \in [Requests -> Req] /\ \A r \in Requests : req[r] = none
  BY <1>1, <1>2
<1>4. \A r \in Requests : Fine(stack, req[r])
  BY <1>2, <1>3 DEF Fine, Depth
<1>5. \A x, status : TalliedAs(req, x, status) = {} /\ ErrorsAt(req, x) = {}
  BY <1>2, <1>3 DEF TalliedAs, ErrorsAt, Tallied, ErrorTallied
<1>6. Cardinality({}) = 0
  BY FS_EmptySet
<1>7. /\ requestTotal = [x \in Routes40 \X Stack!Statuses |-> 0]
      /\ errorTotal = [x \in Routes40 |-> 0]
  BY DEF ServersInit, Stack!Init, Routes40
<1>8. Sums(stack, req, requestTotal, errorTotal)
  BY <1>5, <1>6, <1>7 DEF Sums
<1> QED
  BY <1>1, <1>3, <1>4, <1>8 DEF ChainInv

\* A request that counts for as much as before leaves the counters right.
LEMMA StepsToInv ==
  ASSUME ChainInv, NEW r \in Requests, StepsTo(r)
  PROVE  ChainInv'
<1>1. PICK p : Stack!Become(r, p) /\ Good(stack, req[r], p)
  BY DEF StepsTo
<1>2. /\ req' = [req EXCEPT ![r] = p]
      /\ stack' = stack /\ requestTotal' = requestTotal /\ errorTotal' = errorTotal
  BY <1>1 DEF Stack!Become
<1>3. Fine(stack, p) /\ p \in Req
  BY <1>1 DEF Good, Fine
<1>4. /\ req' \in [Requests -> Req] /\ req'[r] = p
      /\ \A i \in Requests \ {r} : req'[i] = req[i]
  BY <1>2, <1>3 DEF ChainInv
<1>5. \A i \in Requests : Fine(stack, req'[i])
  BY <1>3, <1>4 DEF ChainInv
<1> DEFINE rs == req'
<1>6. ASSUME stack = "ch40", NEW x, NEW status
      PROVE  /\ TalliedAs(rs, x, status) = TalliedAs(req, x, status)
             /\ ErrorsAt(rs, x) = ErrorsAt(req, x)
  <2>1. SameTally(req[r], p)
    BY <1>1, <1>6 DEF Good
  <2>2. \A i \in Requests : SameTally(req[i], rs[i])
    BY <1>4, <2>1 DEF SameTally
  <2> HIDE DEF rs
  <2>3. \A i \in Requests : ErrorTallied(req[i]) => Tallied(req[i])
    BY DEF Tallied, ErrorTallied
  <2> QED BY <2>2, <2>3 DEF SameTally, TalliedAs, ErrorsAt
<1>7. Sums(stack, rs, requestTotal, errorTotal)
  BY <1>6 DEF ChainInv, Sums
<1> QED
  BY <1>2, <1>4, <1>5, <1>7 DEF ChainInv

\* RequestTotal counts a request once its handler has returned.
LEMMA CountRequestInv ==
  ASSUME ChainInv, NEW r \in Requests, Stack!CountRequest(r)
  PROVE  ChainInv'
<1> DEFINE q == req[r]
           p == [q EXCEPT !.doing = "counted"]
           rs == req'
<1>0. q \in Req /\ q.at <= Depth(stack, q.route) + 1 /\ q.at \in Nat /\ Fine(stack, q)
  BY DEF ChainInv, Fine, Req
<1>1. q.doing = "out" /\ stack = "ch40" /\ q.at = 1
  <2>1. "InstrumentHandler" \in Layers
    BY DEF Layers
  <2>2. LayerIs(stack, q.at, "InstrumentHandler") /\ q.doing = "out"
    BY <1>0, <2>1, LayerOf DEF ChainInv, Stack!CountRequest, Stack!At
  <2> QED BY <2>2 DEF LayerIs
<1>2. q.route \in Routes40 /\ q.noted \in Stack!Statuses /\ q.noted = q.sent[1].status
  BY <1>0, <1>1 DEF Fine, Routes40
<1>3. Leaving(stack, q)
  BY <1>0, <1>1 DEF Fine
<1>4. req' = [req EXCEPT ![r] = p] /\ stack' = stack /\ errorTotal' = errorTotal
  BY DEF Stack!CountRequest
<1> HIDE DEF q
<1>5. p \in Req
  BY Zenon, <1>0 DEF Req
<1>6. /\ p.at = q.at /\ p.route = q.route /\ p.doing = "counted" /\ p.sent = q.sent
      /\ p.logs = q.logs /\ p.ran = q.ran /\ p.panicked = q.panicked /\ p.noted = q.noted
  BY <1>0 DEF Req
<1> HIDE DEF p
<1>7. /\ rs \in [Requests -> Req] /\ rs[r] = p
      /\ \A i \in Requests \ {r} : rs[i] = req[i]
  BY <1>4, <1>5 DEF ChainInv
<1>8. Leaving(stack, p)
  <2>1. WellAnswered(stack, q)
    BY <1>1, <1>3 DEF Leaving
  <2>2. WellAnswered(stack, p)
    BY <1>6, <2>1 DEF WellAnswered
  <2> QED BY <1>1, <1>3, <1>6, <2>2 DEF Leaving, LoggedOnce
<1>9. Fine(stack, p)
  BY <1>0, <1>1, <1>2, <1>5, <1>6, <1>8 DEF Fine, Routes40
<1>10. \A i \in Requests : Fine(stack, rs[i])
  BY <1>7, <1>9 DEF ChainInv
<1> HIDE DEF rs
<1> DEFINE x == q.route
           n == q.noted
           pair == <<x, n>>
<1>11. /\ r \notin TalliedAs(req, x, n)
       /\ TalliedAs(rs, x, n) = TalliedAs(req, x, n) \cup {r}
  BY <1>1, <1>6, <1>7 DEF TalliedAs, Tallied, q
<1>12. \A y, m : <<y, m>> # pair => TalliedAs(rs, y, m) = TalliedAs(req, y, m)
  BY <1>1, <1>6, <1>7 DEF TalliedAs, Tallied, q
<1>13. \A y : ErrorsAt(rs, y) = ErrorsAt(req, y)
  BY <1>1, <1>6, <1>7 DEF ErrorsAt, ErrorTallied, q
<1>14. Cardinality(TalliedAs(rs, x, n)) = Cardinality(TalliedAs(req, x, n)) + 1
  BY <1>11, TallySets, FS_AddElement
<1>15. requestTotal' = [requestTotal EXCEPT ![pair] = requestTotal[pair] + 1]
  BY DEF Stack!CountRequest, q
<1>16. pair \in Routes40 \X Stack!Statuses
  BY <1>2
<1>17. /\ requestTotal \in [Routes40 \X Stack!Statuses -> Nat]
       /\ errorTotal \in [Routes40 -> Nat]
       /\ \A y \in Routes40, m \in Stack!Statuses :
              requestTotal[<<y, m>>] = Cardinality(TalliedAs(req, y, m))
       /\ \A y \in Routes40 : errorTotal[y] = Cardinality(ErrorsAt(req, y))
  BY <1>1 DEF ChainInv, Sums
<1> HIDE DEF pair
<1>18. requestTotal' \in [Routes40 \X Stack!Statuses -> Nat]
  BY <1>15, <1>16, <1>17
<1>19. ASSUME NEW y \in Routes40, NEW m \in Stack!Statuses
       PROVE  requestTotal'[<<y, m>>] = Cardinality(TalliedAs(rs, y, m))
  <2>0. <<y, m>> \in Routes40 \X Stack!Statuses
    OBVIOUS
  <2>1. CASE <<y, m>> = pair
    <3>1. y = x /\ m = n
      BY <2>1 DEF pair
    <3>2. requestTotal'[pair] = requestTotal[pair] + 1
      BY <1>15, <1>16, <1>17
    <3> QED BY <1>14, <1>17, <2>1, <3>1, <3>2
  <2>2. CASE <<y, m>> # pair
    <3>1. requestTotal'[<<y, m>>] = requestTotal[<<y, m>>]
      BY <1>15, <1>17, <2>0, <2>2
    <3> QED BY <1>12, <1>17, <2>2, <3>1
  <2> QED BY <2>1, <2>2
<1>20. Sums(stack, rs, requestTotal', errorTotal)
  BY <1>1, <1>13, <1>17, <1>18, <1>19 DEF Sums
<1> QED
  BY <1>4, <1>7, <1>10, <1>20 DEF ChainInv, rs

\* ErrorTotal counts it after that, if its status was 5xx, and logs it.
LEMMA CountErrorInv ==
  ASSUME ChainInv, NEW r \in Requests, Stack!CountError(r)
  PROVE  ChainInv'
<1> DEFINE q == req[r]
           s == Append(q.logs, q.noted)
           w == [q EXCEPT !.logs = s]
           p == Stack!Up(w)
           rs == req'
<1>0. q \in Req /\ q.at <= Depth(stack, q.route) + 1 /\ q.at \in Nat /\ Fine(stack, q)
  BY DEF ChainInv, Fine, Req
<1>1. q.doing = "counted" /\ stack = "ch40" /\ q.at = 1
  <2>1. "InstrumentHandler" \in Layers
    BY DEF Layers
  <2>2. LayerIs(stack, q.at, "InstrumentHandler") /\ q.doing = "counted"
    BY <1>0, <2>1, LayerOf DEF ChainInv, Stack!CountError, Stack!At
  <2> QED BY <2>2 DEF LayerIs
<1>2. q.route \in Routes40 /\ q.noted \in Stack!Statuses /\ q.noted = q.sent[1].status
  BY <1>0, <1>1 DEF Fine, Routes40
<1>3. Leaving(stack, q) /\ WellAnswered(stack, q) /\ q.logs = <<>> /\ q.panicked = FALSE
  BY <1>0, <1>1 DEF Fine, Leaving, Logs, Logging
<1>4. req' = [req EXCEPT ![r] = p] /\ stack' = stack /\ requestTotal' = requestTotal
  <2>1. req' = [req EXCEPT ![r] = p]
    BY DEF Stack!CountError
  <2>2. stack' = stack /\ requestTotal' = requestTotal
    BY DEF Stack!CountError
  <2> QED BY <2>1, <2>2
<1> HIDE DEF q
<1>5. s \in Seq(0..500) /\ Len(s) = 1 /\ s[1] = q.noted
  <2>1. q.noted \in 0..500
    BY <1>0 DEF Req
  <2> QED BY <1>3, <2>1
<1> HIDE DEF s
<1>6. w \in Req
  BY Zenon, <1>0, <1>5 DEF Req
<1>7. /\ w.at = q.at /\ w.route = q.route /\ w.sent = q.sent /\ w.noted = q.noted
      /\ w.logs = s /\ w.ran = q.ran /\ w.panicked = q.panicked
  BY <1>0 DEF Req
<1> HIDE DEF w
<1>8. /\ p \in Req /\ p.at = 0 /\ p.route = q.route /\ p.doing = "out" /\ p.noted = q.noted
      /\ p.sent = q.sent /\ p.logs = s /\ p.ran = q.ran /\ p.panicked = q.panicked
  BY <1>1, <1>6, <1>7, UpIs
<1> HIDE DEF p
<1>9. Leaving(stack, p)
  <2>1. WellAnswered(stack, p)
    BY <1>3, <1>8 DEF WellAnswered
  <2>2. LoggedOnce(p)
    BY <1>2, <1>3, <1>5, <1>8 DEF LoggedOnce
  <2> QED BY <1>1, <1>8, <2>1, <2>2 DEF Leaving, Logging
<1>10. Fine(stack, p)
  BY <1>1, <1>2, <1>8, <1>9 DEF Fine, Routes40, Depth
<1>11. /\ rs \in [Requests -> Req] /\ rs[r] = p
       /\ \A i \in Requests \ {r} : rs[i] = req[i]
  BY <1>4, <1>8 DEF ChainInv
<1>12. \A i \in Requests : Fine(stack, rs[i])
  BY <1>10, <1>11 DEF ChainInv
<1> HIDE DEF rs
<1> DEFINE x == q.route
           e == ErrorsAt(req, x)
<1>13. \A y, m : TalliedAs(rs, y, m) = TalliedAs(req, y, m)
  BY <1>1, <1>8, <1>11 DEF TalliedAs, Tallied, q
<1>14. \A y : y # x => ErrorsAt(rs, y) = ErrorsAt(req, y)
  BY <1>1, <1>8, <1>11 DEF ErrorsAt, ErrorTallied, q
<1>15. r \notin e /\ ErrorsAt(rs, x) = IF q.noted >= 500 THEN e \cup {r} ELSE e
  BY <1>1, <1>8, <1>11 DEF ErrorsAt, ErrorTallied, q
<1>16. IsFiniteSet(e) /\ Cardinality(e) \in Nat
  BY TallySets
<1> DEFINE c == IF q.noted >= 500 THEN Cardinality(e) + 1 ELSE Cardinality(e)
<1> HIDE DEF e
<1>17. Cardinality(ErrorsAt(rs, x)) = c /\ c \in Nat
  <2>1. Cardinality(e \cup {r}) = Cardinality(e) + 1
    BY <1>15, <1>16, FS_AddElement
  <2> QED BY <1>15, <1>16, <2>1
<1>18. /\ requestTotal \in [Routes40 \X Stack!Statuses -> Nat]
       /\ errorTotal \in [Routes40 -> Nat]
       /\ \A y \in Routes40, m \in Stack!Statuses :
              requestTotal[<<y, m>>] = Cardinality(TalliedAs(req, y, m))
       /\ \A y \in Routes40 : errorTotal[y] = Cardinality(ErrorsAt(req, y))
  BY <1>1 DEF ChainInv, Sums
<1>19. errorTotal' = [errorTotal EXCEPT ![x] = c]
  <2>1. errorTotal' = [errorTotal EXCEPT ![x] =
                          IF q.noted >= 500 THEN errorTotal[x] + 1 ELSE errorTotal[x]]
    BY DEF Stack!CountError, q
  <2>2. errorTotal[x] = Cardinality(e)
    BY <1>2, <1>18 DEF e
  <2> QED BY <2>1, <2>2
<1> HIDE DEF c
<1>20. /\ errorTotal' \in [Routes40 -> Nat]
       /\ \A y \in Routes40 : errorTotal'[y] = Cardinality(ErrorsAt(rs, y))
  BY <1>2, <1>14, <1>17, <1>18, <1>19
<1>21. Sums(stack, rs, requestTotal, errorTotal')
  BY <1>1, <1>13, <1>18, <1>20 DEF Sums
<1> QED
  BY <1>4, <1>11, <1>12, <1>21 DEF ChainInv, rs

\* A step of any layer keeps the invariant.
LEMMA ChainStep == ChainInv /\ [Stack!Next]_(Stack!vars) => ChainInv'
<1> SUFFICES ASSUME ChainInv, [Stack!Next]_(Stack!vars) PROVE ChainInv'
  OBVIOUS
<1>1. CASE UNCHANGED Stack!vars
  BY <1>1 DEF ChainInv, Stack!vars
<1>2. ASSUME NEW r \in Requests,
             \/ Stack!Arrive(r) \/ Stack!In(r) \/ Stack!Handle(r) \/ Stack!HandleProbe(r)
             \/ Stack!HandleGone(r) \/ Stack!Panic(r) \/ Stack!Out(r)
      PROVE  ChainInv'
  <2>1. stack \in Apps /\ Fine(stack, req[r])
    BY DEF ChainInv
  <2>2. CASE Stack!CountRequest(r)
    BY <2>2, CountRequestInv
  <2>3. CASE Stack!CountError(r)
    BY <2>3, CountErrorInv
  <2>4. CASE Stack!In(r)
    BY <2>1, <2>4, InIs, StepsToInv
  <2>5. CASE Stack!Arrive(r)
    BY <2>1, <2>5, ArriveIs, StepsToInv
  <2>6. CASE Stack!Handle(r) \/ Stack!HandleProbe(r) \/ Stack!HandleGone(r) \/ Stack!Panic(r)
    BY <2>1, <2>6, HandlerIs, StepsToInv
  <2>7. CASE \/ Stack!Recover(r) \/ Stack!Unwind(r) \/ Stack!Log(r) \/ Stack!SendTagged(r)
             \/ Stack!Pass(r) \/ Stack!Finish(r)
    BY <2>1, <2>7, OutIs, StepsToInv
  <2> QED
    BY <1>2, <2>2, <2>3, <2>4, <2>5, <2>6, <2>7 DEF Stack!Out
<1> QED
  BY <1>1, <1>2 DEF Stack!Next

\* It holds of all requests at all times.
LEMMA ChainAlways == ServersSpec => []ChainInv
BY ChainInit, ChainStep, StepOfPart, PTL DEF ServersSpec

\* However a request leaves the chain of any of the seven routers, the client gets
\* one answer, with the promised headers, 500 after a panic, and from the handler
\* unless it was refused, for any number of requests.
THEOREM EveryAnswerComplete == ServersSpec => []OneCompleteAnswer
<1>1. ChainInv => Stack!OneCompleteAnswer
  <2> SUFFICES ASSUME ChainInv, NEW r \in Requests, Stack!Over(r)
               PROVE  /\ Len(req[r].sent) = 1
                      /\ Stack!Promised \subseteq Stack!Answer(r).headers
                      /\ req[r].panicked => Stack!Answer(r).status = 500
                      /\ req[r].ran <=> Stack!Answer(r).status \notin {204, 401, 429}
    BY DEF Stack!OneCompleteAnswer
  <2> DEFINE q == req[r]
             a == q.sent[1]
  <2>1. q \in Req /\ WellAnswered(stack, q)
    BY DEF ChainInv, Fine, Stack!Over
  <2>2. Stack!Answer(r) = a
    BY DEF Stack!Answer
  <2>3. Stack!Promised = Owed(stack)
    BY DEF Stack!Promised, Owed
  <2>4. q.panicked \in BOOLEAN /\ q.ran \in BOOLEAN
    BY <2>1 DEF Req
  <2>5. /\ Len(q.sent) = 1 /\ Owed(stack) \subseteq a.headers
        /\ q.panicked = TRUE => a.status = 500
        /\ q.ran = TRUE <=> a.status \notin {204, 401, 429}
    BY <2>1 DEF WellAnswered
  <2> HIDE DEF a
  <2>6. q.panicked => a.status = 500
    BY <2>4, <2>5
  <2>7. q.ran <=> a.status \notin {204, 401, 429}
    BY <2>4, <2>5
  <2> HIDE DEF q
  <2>8. /\ q.panicked => Stack!Answer(r).status = 500
        /\ q.ran <=> Stack!Answer(r).status \notin {204, 401, 429}
    BY <2>2, <2>6, <2>7
  <2> QED BY <2>2, <2>3, <2>5, <2>8 DEF q
<1>2. Stack!OneCompleteAnswer => OneCompleteAnswer
  BY DEF OneCompleteAnswer
<1> QED
  BY <1>1, <1>2, ChainAlways, PTL

\* Whatever is logged or counted of a request is the status that its client got,
\* for any number of requests, whose counts ch40 keeps in two steps.
THEOREM LogsAndCountsAgree == ServersSpec => []LoggedAsAnswered
<1> SUFFICES ChainInv => LoggedAsAnswered
  BY ChainAlways, PTL
<1> SUFFICES ASSUME ChainInv PROVE Stack!LoggedAsAnswered
  BY DEF LoggedAsAnswered
<1>1. ASSUME NEW r \in Requests, Stack!Over(r), stack \in {"server", "ch24", "ch31", "ch40"}
      PROVE  req[r].logs = IF req[r].panicked THEN <<>> ELSE <<Stack!Answer(r).status>>
  <2> DEFINE q == req[r]
  <2>1. q \in Req /\ LoggedOnce(q)
    BY <1>1 DEF ChainInv, Fine, Stack!Over, Logs
  <2>2. CASE q.panicked = TRUE
    BY <2>1, <2>2 DEF LoggedOnce
  <2>3. CASE q.panicked = FALSE
    <3> DEFINE n == q.sent[1].status
    <3>1. Len(q.logs) = 1 /\ q.logs[1] = n /\ q.logs \in Seq(0..500)
      BY <2>1, <2>3 DEF LoggedOnce, Req
    <3> HIDE DEF n
    <3>2. q.logs = <<n>>
      BY <3>1
    <3> QED BY <2>3, <3>2 DEF n, Stack!Answer
  <2>4. q.panicked \in BOOLEAN
    BY <2>1 DEF Req
  <2> QED BY <2>2, <2>3, <2>4
<1>2. ASSUME NEW x \in Routes40
      PROVE  errorTotal[x] <= requestTotal[<<x, 500>>]
  <2>1. 500 \in Stack!Statuses
    BY DEF Stack!Statuses
  <2>2. CASE stack = "ch40"
    <3>1. ErrorsAt(req, x) \subseteq TalliedAs(req, x, 500)
      <4> SUFFICES ASSUME NEW r \in ErrorsAt(req, x) PROVE r \in TalliedAs(req, x, 500)
        OBVIOUS
      <4>1. r \in Requests /\ ErrorTallied(req[r]) /\ req[r].route = x /\ req[r].noted >= 500
        BY DEF ErrorsAt
      <4>2. req[r].noted \in Stack!Statuses /\ Tallied(req[r])
        BY <2>2, <4>1 DEF ChainInv, Fine, ErrorTallied, Tallied
      <4>3. req[r].noted = 500
        BY <4>1, <4>2 DEF Stack!Statuses
      <4> QED BY <4>1, <4>2, <4>3 DEF TalliedAs
    <3>2. Cardinality(ErrorsAt(req, x)) <= Cardinality(TalliedAs(req, x, 500))
      BY <3>1, TallySets, FS_Subset
    <3> QED BY <2>1, <2>2, <3>2 DEF ChainInv, Sums
  <2>3. CASE stack # "ch40"
    BY <2>1, <2>3 DEF ChainInv, Sums
  <2> QED BY <2>2, <2>3
<1>3. ASSUME \A r \in Requests : Stack!Over(r), stack = "ch40", NEW x \in DOMAIN requestTotal
      PROVE  requestTotal[x] =
                 Cardinality({r \in Requests : x = <<req[r].route, Stack!Answer(r).status>>})
  <2>1. PICK route \in Routes40, status \in Stack!Statuses : x = <<route, status>>
    BY DEF ChainInv, Sums
  <2>2. \A r \in Requests : Tallied(req[r]) /\ req[r].noted = Stack!Answer(r).status
    BY <1>3 DEF ChainInv, Fine, Stack!Over, Tallied, Stack!Answer
  <2>3. TalliedAs(req, route, status)
          = {r \in Requests : x = <<req[r].route, Stack!Answer(r).status>>}
    BY <2>1, <2>2 DEF TalliedAs
  <2> QED BY <1>3, <2>1, <2>3 DEF ChainInv, Sums
<1>4. \A S : Stack!Cardinality(S) = Cardinality(S)
  BY Zenon DEF Stack!Cardinality, Cardinality
<1> QED
  BY <1>1, <1>2, <1>3, <1>4 DEF Stack!LoggedAsAnswered, Routes40

-----------------------------------------------------------------------------
(* Types *)

\* No list shows more tags than there may be.
LEMMA TagTypes ==
  /\ Tagged!Init => Tagged!TypeOK
  /\ Tagged!TypeOK /\ [Tagged!Next]_(Tagged!vars) => Tagged!TypeOK'
<1> USE TaggedTodosAssumption DEF Tagged!Ids, Tagged!NoTags
<1>1. Tagged!Init => Tagged!TypeOK
  BY DEF Tagged!Init, Tagged!TypeOK
<1> SUFFICES ASSUME Tagged!TypeOK, [Tagged!Next]_(Tagged!vars)
             PROVE  Tagged!TypeOK'
  BY <1>1
<1> USE DEF Tagged!TypeOK
<1>2. CASE Tagged!AddTodo
  BY <1>2 DEF Tagged!AddTodo
<1>3. ASSUME NEW i \in Tagged!Ids, Tagged!AddTag(i) PROVE Tagged!TypeOK'
  <2>1. tags[i] + 1 \in 0..MaxTags
    BY <1>3 DEF Tagged!AddTag
  <2> QED
    BY <1>3, <2>1 DEF Tagged!AddTag
<1>4. ASSUME NEW r \in Readers, NEW l \in {"naive", "batched"}, Tagged!Start(r, l)
      PROVE  Tagged!TypeOK'
  BY <1>4 DEF Tagged!Start
<1>5. ASSUME NEW r \in Readers, Tagged!Return(r) PROVE Tagged!TypeOK'
  BY <1>5 DEF Tagged!Return
<1>6. ASSUME NEW r \in Readers, NEW i \in Tagged!Ids, Tagged!ReadTags(r, i)
      PROVE  Tagged!TypeOK'
  BY <1>6 DEF Tagged!ReadTags
<1>7. CASE UNCHANGED Tagged!vars
  BY <1>7 DEF Tagged!vars
<1> QED
  BY <1>2, <1>3, <1>4, <1>5, <1>6, <1>7
     DEF Tagged!Next, Tagged!List, Tagged!ListTodosNPlusOne, Tagged!ListTodosBatched

\* An option that counts is one that may be given.
LEMMA OptionTypes == OptionsInv => Client!TypeOK
<1> SUFFICES ASSUME OptionsInv PROVE Client!TypeOK
  OBVIOUS
<1>1. ASSUME NEW k, NEW v, LastOf(options, k, v), v # 0
      PROVE  [kind |-> k, value |-> v] \in Client!Options
  <2>1. PICK i \in DOMAIN options : options[i].kind = k /\ v = options[i].value
    BY <1>1 DEF LastOf
  <2>2. options[i] \in Client!Options
    BY <2>1 DEF OptionsInv
  <2> QED
    BY <2>1, <2>2 DEF Client!Options
<1>2. timeout # 0 => [kind |-> "timeout", value |-> timeout] \in Client!Options
  BY <1>1 DEF OptionsInv
<1>3. maxConns # 0 => [kind |-> "conns", value |-> maxConns] \in Client!Options
  BY <1>1 DEF OptionsInv
<1> QED
  BY <1>2, <1>3 DEF OptionsInv, Client!TypeOK, Client!Options

LEMMA ChainTypes == ChainInv => Stack!TypeOK
<1> SUFFICES ASSUME ChainInv PROVE Stack!TypeOK
  OBVIOUS
<1>1. ASSUME NEW r \in Requests
      PROVE  /\ req[r].doing \in {"idle", "in", "out", "counted", "panic", "over"}
             /\ req[r].at \in 0..(Len(Stack!Chain(req[r].route)) + 1)
             /\ req[r].noted \in 0..500
  <2>1. req[r] \in Req /\ req[r].at <= Depth(stack, req[r].route) + 1
    BY DEF ChainInv, Fine
  <2>2. Len(Stack!Chain(req[r].route)) = Depth(stack, req[r].route)
    BY ChainIs DEF ChainInv
  <2>3. Depth(stack, req[r].route) \in Nat
    BY DEF Depth
  <2>4. /\ req[r].doing \in {"idle", "in", "out", "counted", "panic", "over"}
        /\ req[r].at \in Nat /\ req[r].noted \in 0..500
    BY <2>1 DEF Req
  <2>5. req[r].at \in 0..(Depth(stack, req[r].route) + 1)
    BY <2>1, <2>3, <2>4
  <2> QED
    BY <2>2, <2>4, <2>5
<1>2. stack \in DOMAIN Stack!Routes
  BY DEF ChainInv, Apps, Stack!Routes
<1> QED
  BY <1>1, <1>2 DEF ChainInv, Sums, Routes40, Stack!TypeOK

\* The invariants of all parts.
PartsInv ==
    /\ part \in {"limits", "pages", "repo", "life", "store", "memory", "chain",
                 "tags", "http", "options"}
    /\ part = "limits" => LimitsInv
    /\ part = "life" => LifeInv
    /\ part = "http" => HttpInv
    /\ PagesInv /\ RepoInv /\ StoreInv /\ MemoryInv /\ ChainInv /\ OptionsInv
    /\ Tagged!TypeOK

\* For any numbers of clients, connections, requests, todos and options: the
\* state of each part is of its type; no list of ids, counter or pointer leaves
\* its range.
THEOREM ServersTyped == ServersSpec => []ServersTypeOK
<1>1. ServersInit => PartsInv
  BY LimitsInit, LifeInit, HttpInit, PagesInit, RepoInit, StoreInit, MemoryInit, ChainInit,
     OptionsInit, TagTypes DEF ServersInit, PartsInv
<1>2. PartsInv /\ [ServersNext]_allVars => PartsInv'
  <2> SUFFICES ASSUME PartsInv, [ServersNext]_allVars PROVE PartsInv'
    OBVIOUS
  <2>1. part' = part /\ part \in {"limits", "pages", "repo", "life", "store", "memory",
                                  "chain", "tags", "http", "options"}
    BY StepOfPart DEF PartsInv
  <2>2. (part = "limits" => LimitsInv') /\ (part = "life" => LifeInv')
        /\ (part = "http" => HttpInv')
    BY StepOfPart, LimitsStep, LifeStep, HttpStep DEF PartsInv
  <2>3. PagesInv' /\ RepoInv' /\ StoreInv' /\ MemoryInv' /\ ChainInv' /\ Tagged!TypeOK'
    BY StepOfPart, PagesStep, RepoStep, StoreStep, MemoryStep, ChainStep, TagTypes DEF PartsInv
  <2>4. OptionsInv'
    <3>1. CASE UNCHANGED Client!vars
      BY <3>1 DEF Client!vars, OptionsInv, PartsInv
    <3> QED
      BY <3>1, StepOfPart, OptionsNew, OptionsDo DEF Client!Next, PartsInv
  <2> QED
    BY <2>1, <2>2, <2>3, <2>4 DEF PartsInv
<1>3. PartsInv => ServersTypeOK
  <2> SUFFICES ASSUME PartsInv PROVE ServersTypeOK
    OBVIOUS
  <2>1. Pages!TypeOK /\ Repo!TypeOK /\ Store!TypeOK /\ Memory!TypeOK /\ Tagged!TypeOK
    BY DEF PartsInv, PagesInv, RepoInv, StoreInv, MemoryInv
  <2>2. Stack!TypeOK /\ Client!TypeOK
    BY ChainTypes, OptionTypes DEF PartsInv
  <2>3. /\ part = "limits" => TypeOK
        /\ part = "life" => Life!TypeOK
        /\ part = "http" => Http!TypeOK
    BY DEF PartsInv, LimitsInv, LifeInv, HttpInv
  <2>4. part \in {"limits", "pages", "repo", "life", "store", "memory",
                  "chain", "tags", "http", "options"}
    BY DEF PartsInv
  <2> QED
    BY <2>1, <2>2, <2>3, <2>4 DEF ServersTypeOK
<1> QED
  BY <1>1, <1>2, <1>3, PTL DEF ServersSpec

=============================================================================
