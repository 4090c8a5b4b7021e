----------------------------- MODULE VisitProofs -----------------------------
(***************************************************************************)
(* Proofs about Visit: that the audit log accounts for the receipts, that  *)
(* the stored ratings are those of the reviews, and that only two named    *)
(* races take more than the price.  The sums of the model are folds, and   *)
(* what they do is proved first.                                           *)
(***************************************************************************)
EXTENDS Visit, FiniteSetTheorems, WellFoundedInduction, TLAPS

-----------------------------------------------------------------------------
(* Sums.  The sum of a function over a set is a fold: one recursive        *)
(* function over the subsets, which picks the elements in an order of its  *)
(* own.  That the order does not matter is proved by taking a smallest set *)
(* that would be an exception.                                             *)

Pick(S) == CHOOSE x \in S : TRUE

Sum(f, S) == SumFunctionOnSet(f, S)

Sums(f, S, g) ==
  g = [T \in SUBSET S |-> IF T = {} THEN 0 ELSE f[Pick(T)] + g[T \ {Pick(T)}]]

LEMMA SumIs == \A f, S : Sum(f, S) = (CHOOSE g : Sums(f, S, g))[S]
BY DEF Sum, SumFunctionOnSet, FoldFunctionOnSet, MapThenFoldSet, Sums, Pick

LEMMA PickIn == \A S : S # {} => Pick(S) \in S
BY DEF Pick

LEMMA SumsAt ==
  ASSUME NEW f, NEW S, NEW g, Sums(f, S, g), NEW T \in SUBSET S
  PROVE  /\ T = {} => g[T] = 0
         /\ T # {} => g[T] = f[Pick(T)] + g[T \ {Pick(T)}]
<1>1. [U \in SUBSET S |-> IF U = {} THEN 0 ELSE f[Pick(U)] + g[U \ {Pick(U)}]][T]
        = IF T = {} THEN 0 ELSE f[Pick(T)] + g[T \ {Pick(T)}]
  OBVIOUS
<1> QED BY <1>1 DEF Sums

LEMMA SumsEmpty == \A f, S, g : Sums(f, S, g) => g[{}] = 0
<1> SUFFICES ASSUME NEW f, NEW S, NEW g, Sums(f, S, g) PROVE g[{}] = 0
  OBVIOUS
<1>1. {} \in SUBSET S
  OBVIOUS
<1> QED BY <1>1, SumsAt

\* A set of subsets of a finite set has a smallest member.
LEMMA Smallest ==
  ASSUME NEW S, IsFiniteSet(S), NEW Bad, Bad \subseteq SUBSET S, Bad # {}
  PROVE  \E T \in Bad : \A U \in Bad : U \subseteq T => U = T
<1> DEFINE R == StrictSubsetOrdering(S)
           F == FiniteSubsetsOf(S)
<1>1. IsWellFoundedOn(R, F)
  BY FS_StrictSubsetOrderingWellFounded
<1>2. Bad \subseteq F
  BY FS_FiniteSubsetsOfFinite
<1> HIDE DEF R, F
<1>3. \E T \in Bad : \A U \in Bad : ~(<<U, T>> \in R)
  BY <1>1, <1>2, WFMin
<1> QED BY <1>3 DEF R, StrictSubsetOrdering

\* The recursions of functions that agree on Q agree on its subsets.
LEMMA SumsAgree ==
  ASSUME NEW f, NEW h, NEW R, IsFiniteSet(R), NEW Q \in SUBSET R, NEW g, NEW k,
         Sums(f, R, g), Sums(h, Q, k), \A x \in Q : f[x] = h[x]
  PROVE  \A T \in SUBSET Q : g[T] = k[T]
<1> DEFINE Bad == {T \in SUBSET Q : g[T] # k[T]}
<1> SUFFICES ASSUME Bad # {} PROVE FALSE
  OBVIOUS
<1>1. Bad \subseteq SUBSET Q /\ IsFiniteSet(Q)
  BY FS_Subset
<1>2. PICK T \in Bad : \A U \in Bad : U \subseteq T => U = T
  <2> HIDE DEF Bad
  <2> QED BY <1>1, Smallest
<1>3. T \in SUBSET R /\ T \in SUBSET Q /\ g[T] # k[T]
  OBVIOUS
<1>4. T # {}
  <2> HIDE DEF Bad
  <2>1. g[{}] = 0 /\ k[{}] = 0
    BY SumsEmpty
  <2> QED BY <1>3, <2>1
<1>5. g[T \ {Pick(T)}] = k[T \ {Pick(T)}] /\ f[Pick(T)] = h[Pick(T)]
  BY <1>2, <1>4, PickIn
<1> HIDE DEF Bad
<1>6. g[T] = f[Pick(T)] + g[T \ {Pick(T)}]
  BY <1>3, <1>4, SumsAt
<1>7. k[T] = h[Pick(T)] + k[T \ {Pick(T)}]
  BY <1>3, <1>4, SumsAt
<1> QED BY <1>3, <1>5, <1>6, <1>7, Zenon

\* The recursion has a solution: a smallest set without one could be given one.
LEMMA SumsExist == ASSUME NEW f, NEW R, IsFiniteSet(R) PROVE \E g : Sums(f, R, g)
<1> DEFINE Bad == {S \in SUBSET R : ~\E g : Sums(f, S, g)}
<1> SUFFICES ASSUME Bad # {} PROVE FALSE
  OBVIOUS
<1>1. Bad \subseteq SUBSET R
  OBVIOUS
<1>2. PICK T \in Bad : \A U \in Bad : U \subseteq T => U = T
  <2> HIDE DEF Bad
  <2> QED BY <1>1, Smallest
<1> DEFINE G(S) == CHOOSE g : Sums(f, S, g)
           k == [S \in SUBSET T |-> IF S = {} THEN 0
                   ELSE f[Pick(S)] + G(S \ {Pick(S)})[S \ {Pick(S)}]]
<1>3. \A S \in SUBSET T : S # T => Sums(f, S, G(S))
  <2> SUFFICES ASSUME NEW S \in SUBSET T, S # T PROVE \E g : Sums(f, S, g)
    OBVIOUS
  <2> QED BY <1>2
<1>4. \A S \in SUBSET T : S # T => k[S] = G(S)[S]
  <2> SUFFICES ASSUME NEW S \in SUBSET T, S # T, S # {} PROVE k[S] = G(S)[S]
    <3>1. {} # T => G({})[{}] = 0
      <4> HIDE DEF G, k
      <4>1. {} # T => Sums(f, {}, G({}))
        BY <1>3
      <4> QED BY <4>1, SumsEmpty
    <3> QED BY <3>1
  <2> DEFINE V == S \ {Pick(S)}
  <2>1. V \in SUBSET S /\ V # T /\ V \in SUBSET T
    BY PickIn
  <2>2. Sums(f, S, G(S)) /\ Sums(f, V, G(V))
    BY <1>3, <2>1
  <2>3. IsFiniteSet(S)
    BY FS_Subset
  <2> HIDE DEF G, k
  <2>4. G(S)[V] = G(V)[V]
    <3> HIDE DEF V
    <3>1. V \in SUBSET V
      OBVIOUS
    <3> QED BY <2>1, <2>2, <2>3, <3>1, SumsAgree
  <2>5. G(S)[S] = f[Pick(S)] + G(S)[V]
    <3>1. S \in SUBSET S
      OBVIOUS
    <3> QED BY <2>2, <3>1, SumsAt
  <2> QED BY <2>4, <2>5 DEF k
<1> HIDE DEF G
<1>5. Sums(f, T, k)
  <2> SUFFICES ASSUME NEW S \in SUBSET T, S # {}
               PROVE  G(S \ {Pick(S)})[S \ {Pick(S)}] = k[S \ {Pick(S)}]
    BY DEF Sums
  <2>1. S \ {Pick(S)} # T /\ S \ {Pick(S)} \in SUBSET T
    BY PickIn
  <2> HIDE DEF k
  <2> QED BY <1>4, <2>1
<1> QED BY <1>2, <1>5

\* The sum over a set only depends on the function there.
LEMMA SumSame ==
  ASSUME NEW f, NEW h, NEW S, IsFiniteSet(S), \A x \in S : f[x] = h[x]
  PROVE  Sum(f, S) = Sum(h, S)
<1>1. PICK g : Sums(f, S, g) /\ Sum(f, S) = g[S]
  BY SumsExist, SumIs
<1>2. PICK k : Sums(h, S, k) /\ Sum(h, S) = k[S]
  BY SumsExist, SumIs
<1>3. S \in SUBSET S
  OBVIOUS
<1> QED BY <1>1, <1>2, <1>3, SumsAgree

\* One step of the fold.
LEMMA SumStep ==
  ASSUME NEW f, NEW S, IsFiniteSet(S)
  PROVE  /\ S = {} => Sum(f, S) = 0
         /\ S # {} => Sum(f, S) = f[Pick(S)] + Sum(f, S \ {Pick(S)})
<1> DEFINE V == S \ {Pick(S)}
<1>1. S \in SUBSET S /\ V \in SUBSET S /\ V \in SUBSET V /\ IsFiniteSet(V)
  BY FS_Subset
<1>2. PICK g : Sums(f, S, g) /\ Sum(f, S) = g[S]
  BY SumsExist, SumIs
<1>3. PICK k : Sums(f, V, k) /\ Sum(f, V) = k[V]
  <2> HIDE DEF V
  <2> QED BY <1>1, SumsExist, SumIs
<1>4. g[V] = k[V]
  <2> HIDE DEF V
  <2> QED BY <1>1, <1>2, <1>3, SumsAgree
<1> QED BY <1>1, <1>2, <1>3, <1>4, SumsAt

LEMMA SumInt ==
  ASSUME NEW f, NEW S, IsFiniteSet(S), \A x \in S : f[x] \in Int
  PROVE  Sum(f, S) \in Int
<1> DEFINE Bad == {T \in SUBSET S : Sum(f, T) \notin Int}
<1> SUFFICES ASSUME Bad # {} PROVE FALSE
  OBVIOUS
<1>1. PICK T \in Bad : \A U \in Bad : U \subseteq T => U = T
  <2>1. Bad \subseteq SUBSET S
    OBVIOUS
  <2> HIDE DEF Bad
  <2> QED BY <2>1, Smallest
<1>2. T \in SUBSET S /\ Sum(f, T) \notin Int /\ IsFiniteSet(T)
  BY FS_Subset
<1>3. T # {} => Sum(f, T \ {Pick(T)}) \in Int /\ f[Pick(T)] \in Int
  BY <1>1, PickIn
<1> HIDE DEF Bad
<1>4. T = {} => Sum(f, T) = 0
  BY <1>2, SumStep, Zenon
<1>5. T # {} => Sum(f, T) = f[Pick(T)] + Sum(f, T \ {Pick(T)})
  BY <1>2, SumStep, Zenon
<1> QED BY <1>2, <1>3, <1>4, <1>5

\* Any element can be taken out of the sum.
LEMMA SumWithout ==
  ASSUME NEW f, NEW S, IsFiniteSet(S), \A x \in S : f[x] \in Int
  PROVE  \A x \in S : Sum(f, S) = f[x] + Sum(f, S \ {x})
<1> DEFINE Good(T) == \A x \in T : Sum(f, T) = f[x] + Sum(f, T \ {x})
           Bad == {T \in SUBSET S : ~Good(T)}
<1> SUFFICES Bad = {}
  OBVIOUS
<1> SUFFICES ASSUME Bad # {} PROVE FALSE
  OBVIOUS
<1>1. PICK T \in Bad : \A U \in Bad : U \subseteq T => U = T
  <2>1. Bad \subseteq SUBSET S
    OBVIOUS
  <2> HIDE DEF Bad
  <2> QED BY <2>1, Smallest
<1>2. PICK x \in T : Sum(f, T) # f[x] + Sum(f, T \ {x})
  OBVIOUS
<1> DEFINE p == Pick(T)
<1>3. T \in SUBSET S /\ IsFiniteSet(T) /\ p \in T
  BY FS_Subset, PickIn
<1>4. Good(T \ {p}) /\ Good(T \ {x})
  BY <1>1, <1>3
<1> HIDE DEF Bad
<1>5. Sum(f, T) = f[p] + Sum(f, T \ {p})
  BY <1>3, SumStep
<1> HIDE DEF p
<1>6. x # p
  BY <1>2, <1>5
<1>7. /\ Sum(f, T \ {p}) = f[x] + Sum(f, (T \ {p}) \ {x})
      /\ Sum(f, T \ {x}) = f[p] + Sum(f, (T \ {x}) \ {p})
  BY <1>3, <1>4, <1>6
<1>8. (T \ {p}) \ {x} = (T \ {x}) \ {p}
  OBVIOUS
<1>9. Sum(f, (T \ {x}) \ {p}) \in Int /\ f[x] \in Int /\ f[p] \in Int
  BY <1>3, FS_Subset, SumInt
<1>10. Sum(f, T) = f[p] + (f[x] + Sum(f, (T \ {x}) \ {p}))
  BY <1>5, <1>7, <1>8, Zenon
<1>11. f[x] + Sum(f, T \ {x}) = f[x] + (f[p] + Sum(f, (T \ {x}) \ {p}))
  BY <1>7, Zenon
<1>12. \A i, j, s \in Int : i + (j + s) = j + (i + s)
  OBVIOUS
<1>13. f[p] + (f[x] + Sum(f, (T \ {x}) \ {p})) = f[x] + (f[p] + Sum(f, (T \ {x}) \ {p}))
  BY <1>9, <1>12, Zenon
<1> QED BY <1>2, <1>10, <1>11, <1>13, Zenon

LEMMA SumOfZeros ==
  ASSUME NEW f, NEW S, IsFiniteSet(S), \A x \in S : f[x] = 0
  PROVE  Sum(f, S) = 0
<1> DEFINE Bad == {T \in SUBSET S : Sum(f, T) # 0}
<1> SUFFICES ASSUME Bad # {} PROVE FALSE
  OBVIOUS
<1>1. PICK T \in Bad : \A U \in Bad : U \subseteq T => U = T
  <2>1. Bad \subseteq SUBSET S
    OBVIOUS
  <2> HIDE DEF Bad
  <2> QED BY <2>1, Smallest
<1>2. T \in SUBSET S /\ Sum(f, T) # 0 /\ IsFiniteSet(T)
  BY FS_Subset
<1>3. T # {} => Sum(f, T \ {Pick(T)}) = 0 /\ f[Pick(T)] = 0
  BY <1>1, PickIn
<1> HIDE DEF Bad
<1> QED BY <1>2, <1>3, SumStep

\* The sum of a sequence, which has the positions as its domain.
LEMMA SumOfSeq ==
  ASSUME NEW s \in Seq(Int)
  PROVE  /\ SumFunction(s) = Sum(s, 1..Len(s)) /\ SumFunction(s) \in Int
         /\ Len(s) \in Nat /\ IsFiniteSet(1..Len(s))
<1>1. DOMAIN s = 1..Len(s) /\ Len(s) \in Nat /\ \A i \in 1..Len(s) : s[i] \in Int
  OBVIOUS
<1>2. IsFiniteSet(1..Len(s))
  BY <1>1, FS_Interval
<1>3. SumFunction(s) = Sum(s, 1..Len(s))
  BY <1>1, Zenon DEF SumFunction, Sum
<1> QED BY <1>1, <1>2, <1>3, SumInt

LEMMA SumOfNone == SumFunction(<<>>) = 0
<1>1. <<>> \in Seq(Int) /\ 1..Len(<<>>) = {}
  OBVIOUS
<1>2. Sum(<<>>, {}) = 0
  BY FS_EmptySet, SumStep
<1> QED BY <1>1, <1>2, SumOfSeq

LEMMA SumOfAppend ==
  ASSUME NEW s \in Seq(Int), NEW a \in Int
  PROVE  Append(s, a) \in Seq(Int) /\ SumFunction(Append(s, a)) = SumFunction(s) + a
<1> DEFINE t == Append(s, a)
           n == Len(s)
<1>1. /\ t \in Seq(Int) /\ Len(t) = n + 1 /\ t[n + 1] = a /\ n \in Nat
      /\ \A i \in 1..n : t[i] = s[i]
      /\ \A i \in 1..(n + 1) : t[i] \in Int
  OBVIOUS
<1> HIDE DEF t
<1>2. (1..(n + 1)) \ {n + 1} = 1..n /\ n + 1 \in 1..(n + 1)
  BY <1>1
<1>3. IsFiniteSet(1..n) /\ IsFiniteSet(1..(n + 1))
  BY <1>1, SumOfSeq
<1> HIDE DEF n
<1>4. Sum(t, 1..(n + 1)) = t[n + 1] + Sum(t, (1..(n + 1)) \ {n + 1})
  <2> DEFINE D == 1..(n + 1)
  <2>1. IsFiniteSet(D) /\ n + 1 \in D /\ \A i \in D : t[i] \in Int
    BY <1>1, <1>2, <1>3
  <2> HIDE DEF D
  <2>2. \A i \in D : Sum(t, D) = t[i] + Sum(t, D \ {i})
    BY <2>1, SumWithout
  <2>3. Sum(t, D) = t[n + 1] + Sum(t, D \ {n + 1})
    BY <2>1, <2>2, Zenon
  <2> QED BY <2>3 DEF D
<1>5. Sum(t, 1..n) = Sum(s, 1..n)
  BY <1>1, <1>3, SumSame
<1>6. SumFunction(t) = Sum(t, 1..(n + 1)) /\ SumFunction(s) = Sum(s, 1..n)
      /\ SumFunction(s) \in Int
  BY <1>1, SumOfSeq DEF n
<1>7. SumFunction(t) = a + SumFunction(s)
  BY <1>1, <1>2, <1>4, <1>5, <1>6, Zenon
<1>8. SumFunction(t) = SumFunction(s) + a
  BY <1>6, <1>7
<1> QED BY <1>1, <1>8 DEF t

-----------------------------------------------------------------------------
(* The invariant.                                                          *)

Row == [provider : {"pay_at_location", "online"},
        status : {"pending", "paid", "refunded", "cancelled"}, amount : Nat]

Job == [step : {"idle", "receiving", "settling", "reviewing", "counting"},
        booking : Bookings \cup {None}, rows : {<<>>} \cup (Row \X Seq(Int)),
        amount : Int, rated : {<<>>} \cup [Bookings -> Int]]

Types ==
  /\ booking \in [Bookings -> [status : {"open", "cancelled", "completed"}, staff : Staff]]
  /\ payment \in [Bookings -> Row]
  /\ receipts \in [Bookings -> Seq(Int)]
  /\ audited \in [Bookings -> Int]
  /\ review \in [Bookings -> Int]
  /\ job \in [Workers -> Job]

\* What was received for a booking with payment p and receipts s.
Gross(p, s) ==
  (IF p.status \in {"paid", "refunded"} THEN p.amount ELSE 0) + SumFunction(s)

\* What is paid at the location is the whole price, and a remainder is never
\* settled before that; the online payment is the deposit.
Paid ==
  \A b \in Bookings :
    IF AtLocation(payment[b])
    THEN /\ payment[b].amount = Price /\ payment[b].status # "refunded"
         /\ payment[b].status = "pending" => receipts[b] = <<>>
    ELSE payment[b].amount = Deposit

\* What a confirmation has read: a remainder is what the rows left open, and no
\* pending payment at the location comes back while it is settled.
Taking ==
  \A w \in Workers :
    /\ Is(w, "receiving") =>
         /\ job[w].booking \in Bookings /\ AtLocation(payment[job[w].booking])
         /\ job[w].amount = Price
    /\ Is(w, "settling") =>
         /\ job[w].booking \in Bookings
         /\ ~(AtLocation(payment[job[w].booking]) /\ payment[job[w].booking].status = "pending")
         /\ job[w].rows \in Row \X Seq(Int)
         /\ job[w].amount = Price - Gross(job[w].rows[1], job[w].rows[2])

\* A review is counted by one request at a time, which holds the business: what
\* it counted is what the reviews will be.
Counting ==
  \A w \in Workers :
    /\ Is(w, "reviewing") \/ Is(w, "counting") => job[w].booking \in Bookings
    /\ Is(w, "counting") =>
         /\ \A v \in Workers : Is(v, "counting") => v = w
         /\ review[job[w].booking] = 0
         /\ job[w].rated = [review EXCEPT ![job[w].booking] = job[w].amount]

Money == AuditMatchesReceipts /\ Paid /\ Taking

Stars ==
  /\ Counting /\ RatingsMatchReviews
  /\ DOMAIN rating = Staff \cup {None}

IInv == Types /\ Money /\ Stars

-----------------------------------------------------------------------------
(* Helpers of the steps.                                                   *)

LEMMA IdleIsJob == Idle \in Job /\ Idle.step = "idle"
BY DEF Idle, Job

LEMMA JobSet ==
  ASSUME Types, NEW w \in Workers, NEW fields \in Job, job' = [job EXCEPT ![w] = fields]
  PROVE  /\ job' \in [Workers -> Job] /\ job'[w] = fields
         /\ \A v \in Workers : v # w => job'[v] = job[v]
BY DEF Types

\* A step that ends a request's work or leaves it, and touches no money.
LEMMA MoneyKept ==
  ASSUME Types, Money, UNCHANGED money,
         \A v \in Workers : job'[v] = job[v] \/ job'[v].step \notin {"receiving", "settling"}
  PROVE  Money'
<1>1. AuditMatchesReceipts' /\ Paid'
  BY DEF Money, AuditMatchesReceipts, Paid, money, AtLocation
<1>2. Taking'
  BY DEF Money, Taking, money, AtLocation, Is, Gross
<1> QED BY <1>1, <1>2 DEF Money

\* The bookings a rating is about: their staff member never changes.
LEMMA BookingsKept ==
  ASSUME NEW x, \A b \in Bookings : booking'[b].staff = booking[b].staff
  PROVE  BookingsOf(x)' = BookingsOf(x) /\ BookingsOf(x) \subseteq Bookings
BY DEF BookingsOf

\* A step that touches no review and begins none.
LEMMA StarsKept ==
  ASSUME Types, Stars, UNCHANGED <<review, rating>>,
         \A b \in Bookings : booking'[b].staff = booking[b].staff,
         \A v \in Workers : job'[v] = job[v] \/ job'[v].step \notin {"reviewing", "counting"}
  PROVE  Stars'
<1>1. RatingsMatchReviews'
  <2>1. \A x \in Staff \cup {None} : BookingsOf(x)' = BookingsOf(x)
    BY BookingsKept
  <2> QED BY <2>1 DEF Stars, RatingsMatchReviews
<1>2. Counting'
  BY DEF Stars, Counting, Is
<1> QED BY <1>1, <1>2 DEF Stars

-----------------------------------------------------------------------------
(* The initial states.                                                     *)

LEMMA InitIInv == ASSUME Init PROVE IInv
<1>1. Types
  <2>1. /\ AtLocationRow \in Row /\ DepositRow \in Row
    BY VisitAssumption DEF AtLocationRow, DepositRow, Row
  <2>2. /\ payment \in [Bookings -> Row] /\ receipts \in [Bookings -> Seq(Int)]
        /\ audited \in [Bookings -> Int] /\ review \in [Bookings -> Int]
    BY <2>1 DEF Init
  <2>3. booking \in [Bookings -> [status : {"open", "cancelled", "completed"}, staff : Staff]]
    <3>1. [status : {"open"}, staff : Staff]
            \subseteq [status : {"open", "cancelled", "completed"}, staff : Staff]
      OBVIOUS
    <3>2. booking \in [Bookings -> [status : {"open"}, staff : Staff]]
      BY DEF Init
    <3> QED BY <3>1, <3>2
  <2>4. job \in [Workers -> Job]
    BY IdleIsJob DEF Init
  <2> QED BY <2>2, <2>3, <2>4 DEF Types
<1>2. Money
  <2>1. \A b \in Bookings : receipts[b] = <<>> /\ audited[b] = 0
                            /\ payment[b] \in {AtLocationRow, DepositRow}
    BY DEF Init
  <2>2. /\ AtLocationRow.status = "pending" /\ DepositRow.status = "pending"
        /\ AtLocationRow.amount = Price /\ DepositRow.amount = Deposit
        /\ AtLocation(AtLocationRow) /\ ~AtLocation(DepositRow)
    BY DEF AtLocationRow, DepositRow, AtLocation
  <2>3. AuditMatchesReceipts
    BY <2>1, <2>2, SumOfNone DEF AuditMatchesReceipts
  <2>4. Paid
    BY <2>1, <2>2 DEF Paid
  <2>5. Taking
    BY IdleIsJob DEF Init, Taking, Is
  <2> QED BY <2>3, <2>4, <2>5 DEF Money
<1>3. Stars
  <2>1. Counting
    BY IdleIsJob DEF Init, Counting, Is
  <2>2. ASSUME NEW x \in Staff \cup {None} PROVE rating[x] = Aggregate(review, BookingsOf(x))
    <3>1. BookingsOf(x) \subseteq Bookings
      BY DEF BookingsOf
    <3>2. \A b \in Bookings : review[b] = 0
      BY DEF Init
    <3>3. Sum(review, BookingsOf(x)) = 0
      BY <3>1, <3>2, VisitAssumption, FS_Subset, SumOfZeros
    <3>4. {b \in BookingsOf(x) : review[b] # 0} = {}
      BY <3>1, <3>2
    <3>5. Cardinality({b \in BookingsOf(x) : review[b] # 0}) = 0
      BY <3>4, FS_EmptySet
    <3>6. rating[x] = [count |-> 0, sum |-> 0]
      BY DEF Init
    <3> QED BY <3>3, <3>5, <3>6, Zenon DEF Aggregate, Sum
  <2>3. DOMAIN rating = Staff \cup {None}
    BY DEF Init
  <2> QED BY <2>1, <2>2, <2>3 DEF Stars, RatingsMatchReviews
<1> QED BY <1>1, <1>2, <1>3 DEF IInv

-----------------------------------------------------------------------------
(* The confirmations.                                                      *)

LEMMA ReadsKeeps ==
  ASSUME IInv, NEW w \in Workers, NEW b \in Bookings, ConfirmReads(w, b)
  PROVE  IInv'
<1> DEFINE pending == AtLocation(payment[b]) /\ payment[b].status = "pending"
<1>0. Types /\ Money /\ Stars
  BY DEF IInv
<1>1. PICK read : read = [Idle EXCEPT !.step = IF pending THEN "receiving" ELSE "settling",
                                      !.booking = b, !.rows = Rows(b),
                                      !.amount = Outstanding(b)]
  OBVIOUS
<1>2. UNCHANGED <<booking, money, review, rating>> /\ job' = [job EXCEPT ![w] = read]
  BY <1>1, Zenon DEF ConfirmReads, Begin
<1>3. /\ payment[b] \in Row /\ receipts[b] \in Seq(Int) /\ Price \in Nat
      /\ Outstanding(b) = Price - Gross(payment[b], receipts[b])
      /\ Gross(payment[b], receipts[b]) \in Int
  <2>1. payment[b] \in Row /\ receipts[b] \in Seq(Int) /\ Price \in Nat
    BY <1>0, VisitAssumption DEF Types
  <2>2. SumFunction(receipts[b]) \in Int
    BY <2>1, SumOfSeq
  <2> QED BY <2>1, <2>2 DEF Outstanding, GrossPaid, Gross, Row
<1>4. /\ read.step = IF pending THEN "receiving" ELSE "settling"
      /\ read.booking = b /\ read.amount = Outstanding(b) /\ read.rows = <<payment[b], receipts[b]>>
      /\ read.rows \in Row \X Seq(Int) /\ read \in Job
  <2>1. Rows(b) \in Row \X Seq(Int)
    BY <1>3 DEF Rows
  <2>2. read = [step |-> IF pending THEN "receiving" ELSE "settling", booking |-> b,
                rows |-> Rows(b), amount |-> Outstanding(b), rated |-> <<>>]
    BY <1>1 DEF Idle
  <2>3. read \in Job
    BY <1>3, <2>1, <2>2 DEF Job
  <2> QED BY <2>1, <2>2, <2>3 DEF Rows
<1>5. /\ job' \in [Workers -> Job] /\ job'[w] = read
      /\ \A v \in Workers : v # w => job'[v] = job[v]
  BY <1>0, <1>2, <1>4, JobSet
<1>6. pending => Outstanding(b) = Price
  <2>1. pending => receipts[b] = <<>>
    BY <1>0 DEF Money, Paid
  <2> QED BY <1>3, <2>1, SumOfNone DEF Gross
<1>7. Types'
  BY <1>0, <1>2, <1>5 DEF Types, money
<1>8. Stars'
  BY <1>0, <1>2, <1>4, <1>5, StarsKept
<1>9. Money'
  <2>1. AuditMatchesReceipts' /\ Paid'
    BY <1>0, <1>2 DEF Money, AuditMatchesReceipts, Paid, money, AtLocation
  <2>2. Taking'
    <3> SUFFICES ASSUME NEW v \in Workers, job'[v].step \in {"receiving", "settling"}
                 PROVE  LET p == payment[job'[v].booking] IN
                        /\ job'[v].booking \in Bookings
                        /\ IF job'[v].step = "receiving"
                           THEN AtLocation(p) /\ job'[v].amount = Price
                           ELSE /\ ~(AtLocation(p) /\ p.status = "pending")
                                /\ job'[v].rows \in Row \X Seq(Int)
                                /\ job'[v].amount = Price - Gross(job'[v].rows[1], job'[v].rows[2])
      BY <1>2 DEF Taking, Is, money, AtLocation, Gross
    <3>1. CASE v = w
      BY <1>3, <1>4, <1>5, <1>6, <3>1
    <3>2. CASE v # w
      BY <1>0, <1>5, <3>2 DEF Money, Taking, Is
    <3> QED BY <3>1, <3>2
  <2> QED BY <2>1, <2>2 DEF Money
<1> QED BY <1>7, <1>8, <1>9 DEF IInv

\* A confirmation that ends, or does nothing: its request is idle again.
LEMMA FinishMoves ==
  ASSUME Types, NEW w \in Workers, Finish(w)
  PROVE  /\ job' \in [Workers -> Job]
         /\ \A v \in Workers : job'[v] = job[v] \/ job'[v].step = "idle"
         /\ job'[w].step = "idle" /\ \A v \in Workers : v # w => job'[v] = job[v]
BY JobSet, IdleIsJob DEF Finish

\* The pending receipt is the price, and becomes what the audit log accounts for.
LEMMA PendingKeeps ==
  ASSUME IInv, NEW w \in Workers, ConfirmPending(w)
  PROVE  IInv'
<1> DEFINE c == job[w].booking
<1>0. /\ Types /\ Money /\ Stars /\ Finish(w) /\ UNCHANGED <<booking, receipts, review, rating>>
      /\ c \in Bookings /\ AtLocation(payment[c]) /\ job[w].amount = Price
  BY DEF IInv, ConfirmPending, Money, Taking
<1>1. /\ job' \in [Workers -> Job]
      /\ \A v \in Workers : job'[v] = job[v] \/ job'[v].step = "idle"
  BY <1>0, FinishMoves
<1>2. Stars'
  BY <1>0, <1>1, StarsKept
<1>3. CASE ~StillPending(c)
  <2>1. UNCHANGED money
    BY <1>0, <1>3 DEF ConfirmPending, money
  <2>2. Money'
    BY <1>0, <1>1, <2>1, MoneyKept
  <2>3. Types'
    BY <1>0, <1>1, <2>1 DEF Types, money
  <2> QED BY <1>2, <2>2, <2>3 DEF IInv
<1>4. CASE StillPending(c)
  <2>1. /\ payment' = [payment EXCEPT ![c].status = "paid"]
        /\ audited' = [audited EXCEPT ![c] = @ + job[w].amount]
    BY <1>4 DEF ConfirmPending
  <2>2. /\ payment \in [Bookings -> Row] /\ audited \in [Bookings -> Int] /\ Price \in Nat
        /\ payment[c].status = "pending" /\ payment[c].amount = Price /\ receipts[c] = <<>>
    BY <1>0, <1>4, VisitAssumption DEF Types, StillPending, Money, Paid
  <2>3. /\ payment' \in [Bookings -> Row] /\ audited' \in [Bookings -> Int]
        /\ \A b \in Bookings : b # c => payment'[b] = payment[b] /\ audited'[b] = audited[b]
        /\ payment'[c].provider = payment[c].provider /\ payment'[c].status = "paid"
        /\ payment'[c].amount = Price /\ audited'[c] = audited[c] + Price
    <3> HIDE DEF c
    <3>1. /\ payment' \in [Bookings -> Row]
          /\ \A b \in Bookings : b # c => payment'[b] = payment[b]
          /\ payment'[c].provider = payment[c].provider /\ payment'[c].status = "paid"
          /\ payment'[c].amount = Price
      BY <1>0, <2>1, <2>2 DEF Row
    <3>2. /\ audited' \in [Bookings -> Int] /\ audited'[c] = audited[c] + Price
          /\ \A b \in Bookings : b # c => audited'[b] = audited[b]
      BY <1>0, <2>1, <2>2
    <3> QED BY <3>1, <3>2
  <2>4. Types'
    BY <1>0, <1>1, <2>3 DEF Types
  <2> HIDE DEF c
  <2>5. AuditMatchesReceipts'
    <3> SUFFICES ASSUME NEW b \in Bookings
                 PROVE  audited'[b] = SumFunction(receipts[b])
                          + (IF AtLocation(payment'[b]) /\ payment'[b].status = "paid"
                             THEN payment'[b].amount ELSE 0)
      BY <1>0 DEF AuditMatchesReceipts, AtLocation
    <3>1. audited[b] = SumFunction(receipts[b])
            + (IF AtLocation(payment[b]) /\ payment[b].status = "paid"
               THEN payment[b].amount ELSE 0)
      BY <1>0 DEF Money, AuditMatchesReceipts
    <3>2. CASE b = c
      BY <1>0, <2>2, <2>3, <3>1, <3>2, SumOfNone DEF AtLocation
    <3>3. CASE b # c
      BY <2>3, <3>1, <3>3
    <3> QED BY <3>2, <3>3
  <2>6. Paid'
    BY <1>0, <2>2, <2>3 DEF Money, Paid, AtLocation
  <2>7. Taking'
    <3>1. \A b \in Bookings :
            /\ payment'[b].provider = payment[b].provider
            /\ payment'[b].status = "pending" => payment[b].status = "pending"
      BY <2>3
    <3> QED BY <1>0, <1>1, <3>1 DEF Money, Taking, Is, AtLocation, Gross
  <2> QED BY <1>2, <2>4, <2>5, <2>6, <2>7 DEF IInv, Money
<1> QED BY <1>3, <1>4

\* A receipt of its own for the remainder: the log and the receipts grow alike.
LEMMA RemainderKeeps ==
  ASSUME IInv, NEW w \in Workers, ConfirmRemainder(w)
  PROVE  IInv'
<1> DEFINE c == job[w].booking
           a == job[w].amount
<1>0. /\ Types /\ Money /\ Stars /\ Finish(w) /\ UNCHANGED <<booking, payment, review, rating>>
      /\ c \in Bookings /\ ~(AtLocation(payment[c]) /\ payment[c].status = "pending")
      /\ a \in Int
  BY DEF IInv, ConfirmRemainder, Money, Taking, Types, Job
<1>1. /\ job' \in [Workers -> Job]
      /\ \A v \in Workers : job'[v] = job[v] \/ job'[v].step = "idle"
  BY <1>0, FinishMoves
<1>2. Stars'
  BY <1>0, <1>1, StarsKept
<1>3. /\ receipts' = [receipts EXCEPT ![c] = Append(@, a)]
      /\ audited' = [audited EXCEPT ![c] = @ + a]
  BY DEF ConfirmRemainder
<1>4. /\ receipts \in [Bookings -> Seq(Int)] /\ audited \in [Bookings -> Int]
      /\ Append(receipts[c], a) \in Seq(Int) /\ SumFunction(receipts[c]) \in Int
      /\ SumFunction(Append(receipts[c], a)) = SumFunction(receipts[c]) + a
  BY <1>0, SumOfAppend, SumOfSeq DEF Types
<1> HIDE DEF c, a
<1>5. /\ receipts' \in [Bookings -> Seq(Int)] /\ audited' \in [Bookings -> Int]
      /\ \A b \in Bookings : b # c => receipts'[b] = receipts[b] /\ audited'[b] = audited[b]
      /\ receipts'[c] = Append(receipts[c], a) /\ audited'[c] = audited[c] + a
  BY <1>0, <1>3, <1>4
<1>6. Types'
  BY <1>0, <1>1, <1>5 DEF Types
<1>7. AuditMatchesReceipts'
  <2> DEFINE Owed(b) == IF AtLocation(payment[b]) /\ payment[b].status = "paid"
                        THEN payment[b].amount ELSE 0
  <2>1. \A b \in Bookings : audited[b] = SumFunction(receipts[b]) + Owed(b)
    BY <1>0 DEF Money, AuditMatchesReceipts
  <2>2. \A b \in Bookings : Owed(b) \in Int
    BY <1>0 DEF Types, Row
  <2> SUFFICES ASSUME NEW b \in Bookings
               PROVE  audited'[b] = SumFunction(receipts'[b]) + Owed(b)
    BY <1>0 DEF AuditMatchesReceipts, AtLocation
  <2> HIDE DEF Owed
  <2>3. CASE b = c
    <3>1. \A m, n, k \in Int : (m + k) + n = (m + n) + k
      OBVIOUS
    <3>2. SumFunction(receipts[c]) \in Int /\ Owed(c) \in Int /\ a \in Int
      BY <1>0, <1>4, <2>2
    <3>3. audited'[c] = (SumFunction(receipts[c]) + Owed(c)) + a
      BY <1>0, <1>5, <2>1, Zenon
    <3>4. SumFunction(receipts'[c]) = SumFunction(receipts[c]) + a
      BY <1>4, <1>5, Zenon
    <3>5. (SumFunction(receipts[c]) + a) + Owed(c) = (SumFunction(receipts[c]) + Owed(c)) + a
      BY <3>1, <3>2
    <3>6. audited'[c] = SumFunction(receipts'[c]) + Owed(c)
      BY <3>3, <3>4, <3>5, Zenon
    <3> QED BY <2>3, <3>6
  <2>4. CASE b # c
    BY <1>5, <2>1, <2>4
  <2> QED BY <2>3, <2>4
<1>8. Paid'
  BY <1>0, <1>5 DEF Money, Paid, AtLocation
<1>9. Taking'
  BY <1>0, <1>1 DEF Money, Taking, Is, AtLocation, Gross
<1> QED BY <1>2, <1>6, <1>7, <1>8, <1>9 DEF IInv, Money

-----------------------------------------------------------------------------
(* What else happens to the booking and its payment.                       *)

\* The online payment moves; the audit log is about the other payments.
LEMMA OnlineKeeps ==
  ASSUME IInv, NEW c \in Bookings, OnlinePaid(c) \/ OnlineRefunded(c)
  PROVE  IInv'
<1>0. /\ Types /\ Money /\ Stars /\ ~AtLocation(payment[c])
      /\ UNCHANGED <<booking, receipts, audited, review, rating, job>>
  BY DEF IInv, OnlinePaid, OnlineRefunded
<1>1. PICK status \in {"paid", "refunded"} : payment' = [payment EXCEPT ![c].status = status]
  BY DEF OnlinePaid, OnlineRefunded
<1>2. payment \in [Bookings -> Row]
  BY <1>0 DEF Types
<1>3. /\ payment' \in [Bookings -> Row]
      /\ \A b \in Bookings : b # c => payment'[b] = payment[b]
      /\ payment'[c].provider = payment[c].provider /\ payment'[c].amount = payment[c].amount
  BY <1>1, <1>2 DEF Row
<1>4. Types'
  BY <1>0, <1>3 DEF Types
<1>5. Stars'
  BY <1>0, StarsKept
<1>6. AuditMatchesReceipts'
  BY <1>0, <1>3 DEF Money, AuditMatchesReceipts, AtLocation
<1>7. Paid'
  BY <1>0, <1>3 DEF Money, Paid, AtLocation
<1>8. Taking'
  BY <1>0, <1>3 DEF Money, Taking, Is, AtLocation, Gross
<1> QED BY <1>4, <1>5, <1>6, <1>7, <1>8 DEF IInv, Money

LEMMA CancelKeeps == ASSUME IInv, NEW c \in Bookings, Cancel(c) PROVE IInv'
<1>0. Types /\ Money /\ Stars /\ UNCHANGED <<receipts, audited, review, rating, job>>
  BY DEF IInv, Cancel
<1>1. /\ booking' = [booking EXCEPT ![c].status = "cancelled"]
      /\ payment' = [payment EXCEPT ![c].status = IF @ = "pending" THEN "cancelled" ELSE @]
  BY DEF Cancel
<1>2. /\ payment \in [Bookings -> Row]
      /\ booking \in [Bookings -> [status : {"open", "cancelled", "completed"}, staff : Staff]]
  BY <1>0 DEF Types
<1>3. /\ payment' \in [Bookings -> Row]
      /\ \A b \in Bookings : b # c => payment'[b] = payment[b]
      /\ payment'[c].provider = payment[c].provider /\ payment'[c].amount = payment[c].amount
      /\ payment'[c].status = IF payment[c].status = "pending" THEN "cancelled"
                              ELSE payment[c].status
  BY <1>1, <1>2 DEF Row
<1>4. /\ booking' \in [Bookings -> [status : {"open", "cancelled", "completed"}, staff : Staff]]
      /\ \A b \in Bookings : booking'[b].staff = booking[b].staff
  BY <1>1, <1>2
<1>5. Types'
  BY <1>0, <1>3, <1>4 DEF Types
<1>6. Stars'
  BY <1>0, <1>4, StarsKept
<1>7. AuditMatchesReceipts'
  BY <1>0, <1>3 DEF Money, AuditMatchesReceipts, AtLocation
<1>8. Paid'
  BY <1>0, <1>3 DEF Money, Paid, AtLocation
<1>9. Taking'
  BY <1>0, <1>3 DEF Money, Taking, Is, AtLocation, Gross
<1> QED BY <1>5, <1>6, <1>7, <1>8, <1>9 DEF IInv, Money

LEMMA CompleteKeeps == ASSUME IInv, NEW c \in Bookings, Complete(c) PROVE IInv'
<1>0. /\ Types /\ Money /\ Stars /\ UNCHANGED <<money, review, rating, job>>
      /\ booking' = [booking EXCEPT ![c].status = "completed"]
  BY DEF IInv, Complete
<1>1. booking \in [Bookings -> [status : {"open", "cancelled", "completed"}, staff : Staff]]
  BY <1>0 DEF Types
<1>2. /\ booking' \in [Bookings -> [status : {"open", "cancelled", "completed"}, staff : Staff]]
      /\ \A b \in Bookings : booking'[b].staff = booking[b].staff
  BY <1>0, <1>1
<1>3. Types'
  BY <1>0, <1>2 DEF Types, money
<1>4. Money'
  BY <1>0, MoneyKept
<1>5. Stars'
  BY <1>0, <1>2, StarsKept
<1> QED BY <1>3, <1>4, <1>5 DEF IInv

-----------------------------------------------------------------------------
(* The reviews.                                                            *)

LEMMA ReviewReadsKeeps ==
  ASSUME IInv, NEW w \in Workers, NEW b \in Bookings, NEW stars \in Ratings,
         ReviewReads(w, b, stars)
  PROVE  IInv'
<1>0. Types /\ Money /\ Stars
  BY DEF IInv
<1>1. PICK read : read = [Idle EXCEPT !.step = "reviewing", !.booking = b, !.amount = stars]
  OBVIOUS
<1>2. UNCHANGED <<booking, money, review, rating>> /\ job' = [job EXCEPT ![w] = read]
  BY <1>1, Zenon DEF ReviewReads, Begin
<1>3. read.step = "reviewing" /\ read.booking = b /\ read \in Job
  <2>1. read = [step |-> "reviewing", booking |-> b, rows |-> <<>>, amount |-> stars,
                rated |-> <<>>]
    BY <1>1 DEF Idle
  <2>2. stars \in Int
    BY VisitAssumption
  <2> QED BY <2>1, <2>2 DEF Job
<1>4. /\ job' \in [Workers -> Job] /\ job'[w] = read
      /\ \A v \in Workers : v # w => job'[v] = job[v]
  BY <1>0, <1>2, <1>3, JobSet
<1>5. Types'
  BY <1>0, <1>2, <1>4 DEF Types, money
<1>6. Money'
  BY <1>0, <1>2, <1>3, <1>4, MoneyKept
<1>7. Counting'
  <2>1. \A v \in Workers : job'[v].step = "counting" => job'[v] = job[v]
    BY <1>3, <1>4
  <2> QED BY <1>0, <1>2, <1>3, <1>4, <2>1 DEF Stars, Counting, Is
<1>8. RatingsMatchReviews'
  <2>1. \A x \in Staff \cup {None} : BookingsOf(x)' = BookingsOf(x)
    BY <1>2, BookingsKept
  <2> QED BY <1>0, <1>2, <2>1 DEF Stars, RatingsMatchReviews
<1> QED BY <1>0, <1>2, <1>5, <1>6, <1>7, <1>8 DEF IInv, Stars

\* The request that counts is alone with the business.
LEMMA CountsKeeps ==
  ASSUME IInv, NEW w \in Workers, ReviewCounts(w)
  PROVE  IInv'
<1> DEFINE c == job[w].booking
<1>0. /\ Types /\ Money /\ Stars /\ UNCHANGED <<booking, money, review, rating>>
      /\ c \in Bookings /\ job[w].step = "reviewing"
      /\ \A v \in Workers : job[v].step # "counting"
  BY DEF IInv, ReviewCounts, Stars, Counting, BusinessFree, Is
<1>1. CASE review[c] # 0
  <2>1. Finish(w)
    BY <1>1 DEF ReviewCounts
  <2>2. /\ job' \in [Workers -> Job]
        /\ \A v \in Workers : job'[v] = job[v] \/ job'[v].step = "idle"
    BY <1>0, <2>1, FinishMoves
  <2>3. Types'
    BY <1>0, <2>2 DEF Types, money
  <2>4. Money'
    BY <1>0, <2>2, MoneyKept
  <2>5. Stars'
    BY <1>0, <2>2, StarsKept
  <2> QED BY <2>3, <2>4, <2>5 DEF IInv
<1>2. CASE review[c] = 0
  <2>1. PICK rated : rated = [review EXCEPT ![c] = job[w].amount]
    OBVIOUS
  <2>2. job' = [job EXCEPT ![w].step = "counting", ![w].rated = rated]
    BY <1>2, <2>1 DEF ReviewCounts
  <2>3. job \in [Workers -> Job] /\ rated \in [Bookings -> Int]
    BY <1>0, <2>1 DEF Types, Job
  <2> HIDE DEF c
  <2>4. /\ job'[w].step = "counting" /\ job'[w].rated = rated
        /\ job'[w].booking = job[w].booking /\ job'[w].amount = job[w].amount
        /\ job' \in [Workers -> Job]
        /\ \A v \in Workers : v # w => job'[v] = job[v]
    BY <2>2, <2>3 DEF Job
  <2>5. Types'
    BY <1>0, <2>4 DEF Types, money
  <2>6. Money'
    BY <1>0, <2>4, MoneyKept
  <2>7. Counting'
    <3>1. /\ job'[w].booking \in Bookings /\ review[job'[w].booking] = 0
          /\ job'[w].rated = [review EXCEPT ![job'[w].booking] = job'[w].amount]
          /\ \A v \in Workers : job'[v].step = "counting" => v = w
      BY <1>0, <1>2, <2>1, <2>4 DEF c
    <3>2. \A v \in Workers : job'[v].step = "reviewing" => job'[v].booking \in Bookings
      BY <1>0, <2>4 DEF Stars, Counting, Is
    <3> QED BY <1>0, <3>1, <3>2 DEF Counting, Is
  <2>8. RatingsMatchReviews'
    <3>1. \A x \in Staff \cup {None} : BookingsOf(x)' = BookingsOf(x)
      BY <1>0, BookingsKept
    <3> QED BY <1>0, <3>1 DEF Stars, RatingsMatchReviews
  <2> QED BY <1>0, <2>5, <2>6, <2>7, <2>8 DEF IInv, Stars
<1> QED BY <1>1, <1>2

\* What was counted is what the reviews become, and a rating that is not written
\* is about none of them.
LEMMA CommitsKeeps ==
  ASSUME IInv, NEW w \in Workers, ReviewCommits(w)
  PROVE  IInv'
<1> DEFINE c == job[w].booking
           stars == job[w].amount
<1>0. /\ Types /\ Money /\ Stars /\ Finish(w) /\ UNCHANGED <<booking, money>>
      /\ c \in Bookings /\ review[c] = 0 /\ job[w].step = "counting" /\ stars \in Int
      /\ job[w].rated = [review EXCEPT ![c] = stars]
      /\ \A v \in Workers : job[v].step = "counting" => v = w
  BY DEF IInv, ReviewCommits, Stars, Counting, Is, Types, Job
<1>1. /\ job' \in [Workers -> Job] /\ job'[w].step = "idle"
      /\ \A v \in Workers : v # w => job'[v] = job[v]
  BY <1>0, FinishMoves
<1>2. /\ review' = [review EXCEPT ![c] = stars]
      /\ rating' = [x \in Staff \cup {None} |->
           IF x \in {None, booking[c].staff}
           THEN Aggregate(job[w].rated, BookingsOf(x)) ELSE rating[x]]
  BY <1>0 DEF ReviewCommits
<1> HIDE DEF c, stars
<1>3. /\ review \in [Bookings -> Int] /\ review' \in [Bookings -> Int]
      /\ \A b \in Bookings : b # c => review'[b] = review[b]
      /\ job[w].rated = review'
  BY <1>0, <1>2 DEF Types
<1>4. Types'
  BY <1>0, <1>1, <1>3 DEF Types, money
<1>5. Money'
  BY <1>0, <1>1, MoneyKept
<1>6. Counting'
  <2>1. \A v \in Workers : job'[v].step # "counting"
    BY <1>0, <1>1
  <2> QED BY <1>0, <1>1, <2>1 DEF Stars, Counting, Is
<1>7. ASSUME NEW x \in Staff \cup {None}
      PROVE  rating'[x] = Aggregate(review', BookingsOf(x)')
  <2>1. BookingsOf(x)' = BookingsOf(x) /\ BookingsOf(x) \subseteq Bookings
    BY <1>0, BookingsKept
  <2>2. CASE x \in {None, booking[c].staff}
    <3>1. rating'[x] = Aggregate(job[w].rated, BookingsOf(x))
      BY <1>2, <2>2
    <3> QED BY <1>3, <2>1, <3>1
  <2>3. CASE x \notin {None, booking[c].staff}
    <3>1. rating'[x] = rating[x] /\ rating[x] = Aggregate(review, BookingsOf(x))
      BY <1>0, <1>2, <2>3 DEF Stars, RatingsMatchReviews
    <3>2. c \notin BookingsOf(x)
      BY <2>3 DEF BookingsOf
    <3>3. \A b \in BookingsOf(x) : review'[b] = review[b]
      BY <1>3, <2>1, <3>2
    <3>4. {b \in BookingsOf(x) : review'[b] # 0} = {b \in BookingsOf(x) : review[b] # 0}
      BY <3>3
    <3>5. IsFiniteSet(BookingsOf(x))
      BY <2>1, VisitAssumption, FS_Subset
    <3>6. Sum(review', BookingsOf(x)) = Sum(review, BookingsOf(x))
      BY <3>3, <3>5, SumSame
    <3>7. Aggregate(review', BookingsOf(x)) = Aggregate(review, BookingsOf(x))
      BY <3>4, <3>6, Zenon DEF Aggregate, Sum
    <3> QED BY <2>1, <3>1, <3>7
  <2> QED BY <2>2, <2>3
<1>8. DOMAIN rating' = Staff \cup {None}
  BY <1>2
<1>9. RatingsMatchReviews'
  BY <1>7 DEF RatingsMatchReviews
<1> QED BY <1>4, <1>5, <1>6, <1>8, <1>9 DEF IInv, Stars

LEMMA StopKeeps ==
  ASSUME IInv, NEW w \in Workers, Stop(w)
  PROVE  IInv'
<1>0. Types /\ Money /\ Stars /\ Finish(w) /\ UNCHANGED <<booking, money, review, rating>>
  BY DEF IInv, Stop
<1>1. /\ job' \in [Workers -> Job]
      /\ \A v \in Workers : job'[v] = job[v] \/ job'[v].step = "idle"
  BY <1>0, FinishMoves
<1>2. Types'
  BY <1>0, <1>1 DEF Types, money
<1>3. Money'
  BY <1>0, <1>1, MoneyKept
<1>4. Stars'
  BY <1>0, <1>1, StarsKept
<1> QED BY <1>2, <1>3, <1>4 DEF IInv

LEMMA NextKeeps == ASSUME IInv, [Next]_vars PROVE IInv'
<1>1. ASSUME NEW w \in Workers, Handler(w) PROVE IInv'
  BY <1>1, ReadsKeeps, ReviewReadsKeeps, PendingKeeps, RemainderKeeps, CountsKeeps, CommitsKeeps
  DEF Handler
<1>2. ASSUME NEW b \in Bookings,
             OnlinePaid(b) \/ OnlineRefunded(b) \/ Cancel(b) \/ Complete(b)
      PROVE  IInv'
  BY <1>2, OnlineKeeps, CancelKeeps, CompleteKeeps
<1>3. ASSUME UNCHANGED vars PROVE IInv'
  <2>1. Types'
    BY <1>3 DEF IInv, Types, vars, money
  <2>2. Money'
    BY <1>3, MoneyKept DEF IInv, vars
  <2>3. Stars'
    BY <1>3, StarsKept DEF IInv, vars
  <2> QED BY <2>1, <2>2, <2>3 DEF IInv
<1> QED BY <1>1, <1>2, <1>3, StopKeeps DEF Next

-----------------------------------------------------------------------------
(* More than the price.                                                    *)

\* A step takes the total over the price only in one of the two ways.
LEMMA OverpaidStep ==
  ASSUME IInv, [Next]_vars, NEW b \in Bookings, GrossPaid(b) <= Price, GrossPaid(b)' > Price
  PROVE  \/ \E w \in Workers : Is(w, "settling") /\ job[w].booking = b /\ job[w].rows # Rows(b)
         \/ receipts[b] # <<>> /\ payment'[b] # payment[b]
<1>0. /\ Types /\ Money
      /\ payment[b] \in Row /\ receipts[b] \in Seq(Int) /\ SumFunction(receipts[b]) \in Int
      /\ Price \in Nat /\ Deposit \in Nat /\ Deposit <= Price
  BY VisitAssumption, SumOfSeq DEF IInv, Types
<1>1. /\ GrossPaid(b) = Gross(payment[b], receipts[b])
      /\ GrossPaid(b)' = Gross(payment'[b], receipts'[b])
      /\ Gross(payment[b], receipts[b]) \in Int
  BY <1>0 DEF GrossPaid, Gross, Row
<1>2. ASSUME payment'[b] = payment[b], receipts'[b] = receipts[b] PROVE FALSE
  BY <1>0, <1>1, <1>2
<1>3. ASSUME UNCHANGED money PROVE FALSE
  BY <1>2, <1>3 DEF money
<1>4. ASSUME NEW w \in Workers, ConfirmPending(w) PROVE FALSE
  <2>1. PICK c \in Bookings :
          /\ c = job[w].booking /\ receipts' = receipts
          /\ AtLocation(payment[c]) /\ payment[c].amount = Price
          /\ payment' = payment \/ payment' = [payment EXCEPT ![c].status = "paid"]
          /\ payment' # payment => payment[c].status = "pending" /\ receipts[c] = <<>>
    BY <1>0, <1>4 DEF ConfirmPending, StillPending, Money, Taking, Paid
  <2>2. payment \in [Bookings -> Row]
    BY <1>0 DEF Types
  <2>3. CASE b = c /\ payment' # payment
    <3>1. payment'[b].amount = Price /\ payment'[b].status = "paid" /\ receipts'[b] = <<>>
      BY <2>1, <2>2, <2>3 DEF Row
    <3>2. Gross(payment'[b], receipts'[b]) = Price
      BY <1>0, <3>1, SumOfNone DEF Gross
    <3> QED BY <1>0, <1>1, <3>2
  <2>4. CASE b # c \/ payment' = payment
    BY <1>2, <2>1, <2>2, <2>4
  <2> QED BY <2>3, <2>4
<1>5. ASSUME NEW w \in Workers, ConfirmRemainder(w)
      PROVE  Is(w, "settling") /\ job[w].booking = b /\ job[w].rows # Rows(b)
  <2> DEFINE c == job[w].booking
             a == job[w].amount
  <2>1. /\ Is(w, "settling") /\ c \in Bookings /\ payment' = payment /\ a \in Int
        /\ receipts' = [receipts EXCEPT ![c] = Append(@, a)]
        /\ job[w].rows \in Row \X Seq(Int)
        /\ a = Price - Gross(job[w].rows[1], job[w].rows[2])
    BY <1>0, <1>5 DEF ConfirmRemainder, Money, Taking, Types, Job
  <2>2. receipts \in [Bookings -> Seq(Int)]
    BY <1>0 DEF Types
  <2>3. c = b
    BY <1>2, <2>1, <2>2
  <2> SUFFICES ASSUME job[w].rows = Rows(b) PROVE FALSE
    BY <2>1, <2>3
  <2> HIDE DEF a
  <2>4. a = Price - Gross(payment[b], receipts[b])
    BY <2>1 DEF Rows
  <2>5. receipts'[b] = Append(receipts[b], a)
    BY <2>1, <2>2, <2>3
  <2>6. SumFunction(receipts'[b]) = SumFunction(receipts[b]) + a
    BY <1>0, <2>1, <2>5, SumOfAppend
  <2>7. Gross(payment'[b], receipts'[b]) = Gross(payment[b], receipts[b]) + a
    <3>1. PICK m \in Int :
            m = IF payment[b].status \in {"paid", "refunded"} THEN payment[b].amount ELSE 0
      BY <1>0 DEF Row
    <3>2. PICK n \in Int : n = SumFunction(receipts[b])
      BY <1>0
    <3>3. Gross(payment[b], receipts[b]) = m + n
      BY <3>1, <3>2, Zenon DEF Gross
    <3>4. Gross(payment'[b], receipts'[b]) = m + (n + a)
      BY <2>1, <2>6, <3>1, <3>2, Zenon DEF Gross
    <3>5. m + (n + a) = (m + n) + a
      BY <2>1
    <3> QED BY <3>3, <3>4, <3>5, Zenon
  <2> QED BY <1>0, <1>1, <2>4, <2>7
<1>6. ASSUME NEW c \in Bookings, OnlinePaid(c) \/ OnlineRefunded(c)
      PROVE  receipts[b] # <<>> /\ payment'[b] # payment[b]
  <2>1. /\ ~AtLocation(payment[c]) /\ UNCHANGED receipts
        /\ \E status \in {"paid", "refunded"} : payment' = [payment EXCEPT ![c].status = status]
    BY <1>6 DEF OnlinePaid, OnlineRefunded
  <2>2. payment \in [Bookings -> Row]
    BY <1>0 DEF Types
  <2>3. payment'[b] # payment[b]
    BY <1>2, <2>1
  <2>4. b = c /\ payment'[b].amount = Deposit /\ payment'[b].status \in {"paid", "refunded"}
    BY <1>0, <2>1, <2>2, <2>3 DEF Money, Paid, Row
  <2>5. receipts[b] = <<>> => Gross(payment'[b], receipts'[b]) = Deposit
    BY <1>0, <2>1, <2>4, SumOfNone DEF Gross
  <2> QED BY <1>0, <1>1, <2>3, <2>5
<1>7. ASSUME NEW c \in Bookings, Cancel(c) PROVE FALSE
  <2>1. /\ UNCHANGED receipts
        /\ payment' = [payment EXCEPT ![c].status = IF @ = "pending" THEN "cancelled" ELSE @]
    BY <1>7 DEF Cancel
  <2>2. payment \in [Bookings -> Row]
    BY <1>0 DEF Types
  <2>3. /\ payment'[b].amount = payment[b].amount
        /\ payment'[b].status \in {"paid", "refunded"}
             <=> payment[b].status \in {"paid", "refunded"}
    BY <2>1, <2>2 DEF Row
  <2>4. Gross(payment'[b], receipts'[b]) = Gross(payment[b], receipts[b])
    BY <2>1, <2>3 DEF Gross
  <2> QED BY <1>0, <1>1, <2>4
<1>8. ASSUME NEW w \in Workers,
             \/ Stop(w) \/ ReviewCounts(w) \/ ReviewCommits(w)
             \/ \E c \in Bookings : ConfirmReads(w, c)
             \/ \E c \in Bookings, stars \in Ratings : ReviewReads(w, c, stars)
      PROVE  FALSE
  BY <1>3, <1>8 DEF Stop, ReviewCounts, ReviewCommits, ConfirmReads, ReviewReads
<1>9. ASSUME NEW c \in Bookings, Complete(c) PROVE FALSE
  BY <1>3, <1>9 DEF Complete
<1>10. ASSUME UNCHANGED vars PROVE FALSE
  BY <1>3, <1>10 DEF vars
<1> QED BY <1>4, <1>5, <1>6, <1>7, <1>8, <1>9, <1>10 DEF Next, Handler

-----------------------------------------------------------------------------
(* The theorems.                                                           *)

\* The bookings, their payments, receipts and reviews, and what each request
\* remembers of them, keep to the invariant.
THEOREM Invariance == Spec => []IInv
<1>1. Init => IInv
  BY InitIInv
<1>2. IInv /\ [Next]_vars => IInv'
  BY NextKeeps
<1> QED BY <1>1, <1>2, PTL DEF Spec

\* The audit log accounts for all the money taken at the location, however
\* many cashiers confirm the same booking at once (the status guard).
THEOREM AuditAccounts == Spec => []AuditMatchesReceipts
<1>1. IInv => AuditMatchesReceipts
  BY DEF IInv, Money
<1> QED BY <1>1, Invariance, PTL

\* The stored ratings are those of the published reviews, however many requests
\* review at once (the lock of the business row).
THEOREM RatingsMatch == Spec => []RatingsMatchReviews
<1>1. IInv => RatingsMatchReviews
  BY DEF IInv, Stars
<1> QED BY <1>1, Invariance, PTL

\* Nothing but the two named races takes more than the price.
THEOREM OverpaidByRace == Spec => OverpaidMeansOverlap
<1>1. ASSUME IInv, [Next]_vars
      PROVE  \A b \in Bookings :
               GrossPaid(b) <= Price /\ GrossPaid(b)' > Price =>
                 \/ \E w \in Workers :
                      Is(w, "settling") /\ job[w].booking = b /\ job[w].rows # Rows(b)
                 \/ receipts[b] # <<>> /\ payment'[b] # payment[b]
  BY <1>1, OverpaidStep
<1> QED BY <1>1, Invariance, PTL DEF Spec, OverpaidMeansOverlap

=============================================================================
