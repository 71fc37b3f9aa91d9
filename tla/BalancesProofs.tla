--------------------------- MODULE BalancesProofs ---------------------------
(***************************************************************************)
(* The lemmas that the proofs about the pallets share: what the operations *)
(* of Balances do to a sound account, for every value of the existential   *)
(* deposit, and how a sum over accounts or records follows its parts.      *)
(***************************************************************************)
EXTENDS Balances, Functions, FiniteSetTheorems, WellFoundedInduction, TLAPS

-----------------------------------------------------------------------------
(* Sums over finite sets.                                                  *)

\* The element that a fold over s takes first.
Pick(s) == CHOOSE x \in s : TRUE

\* One unfolding of a sum over s, given the sums over the smaller sets.
Unfold(f, g, s) == IF s = {} THEN 0 ELSE f[Pick(s)] + g[s \ {Pick(s)}]

\* g gives the sum of f over each subset of S.
IsTable(f, g, S) == g = [s \in SUBSET S |-> Unfold(f, g, s)]

\* A set of subsets of a finite set has a least element: the proofs by
\* induction over a set below take a smallest counterexample.
LEMMA SmallestSubset ==
    ASSUME NEW S, IsFiniteSet(S), NEW T, T \subseteq SUBSET S, T # {}
    PROVE  \E x \in T : \A y \in T : y \subseteq x => y = x
<1>1. IsWellFoundedOn(StrictSubsetOrdering(S), SUBSET S)
  BY FS_StrictSubsetOrderingWellFounded, FS_FiniteSubsetsOfFinite
<1>2. \E x \in T : \A y \in T : ~(<<y, x>> \in StrictSubsetOrdering(S))
  BY <1>1, WFMin
<1> QED BY <1>2 DEF StrictSubsetOrdering

\* The community modules define a sum by a table of the sums over the subsets.
LEMMA SumIsTable ==
    ASSUME NEW f, NEW S
    PROVE  SumFunctionOnSet(f, S) = (CHOOSE g : IsTable(f, g, S))[S]
BY DEF SumFunctionOnSet, FoldFunctionOnSet, MapThenFoldSet, IsTable, Unfold, Pick

\* What a fold takes is there.
LEMMA PickIn == ASSUME NEW s, s # {} PROVE Pick(s) \in s
BY DEF Pick

\* The tables for two sets agree on the subsets of both.
LEMMA TablesAgree ==
    ASSUME NEW f, NEW S, IsFiniteSet(S), NEW A, NEW B, NEW g, NEW h,
           S \subseteq A, S \subseteq B, IsTable(f, g, A), IsTable(f, h, B)
    PROVE  g[S] = h[S]
<1> DEFINE T == {s \in SUBSET S : g[s] # h[s]}
<1>1. SUFFICES ASSUME T # {} PROVE FALSE
  OBVIOUS
<1>2. PICK x \in T : \A y \in T : y \subseteq x => y = x
  <2>1. T \subseteq SUBSET S
    OBVIOUS
  <2> HIDE DEF T
  <2> QED BY <1>1, <2>1, SmallestSubset
<1>3. x \in SUBSET A /\ x \in SUBSET B /\ x \in SUBSET S
  OBVIOUS
<1>4. g[x] = Unfold(f, g, x) /\ h[x] = Unfold(f, h, x)
  BY <1>3 DEF IsTable
<1>5. CASE x = {}
  BY <1>4, <1>5 DEF Unfold
<1>6. CASE x # {}
  <2> DEFINE y == x \ {Pick(x)}
  <2>1. y \subseteq x /\ y # x
    BY <1>6, PickIn
  <2>2. y \notin T
    BY <2>1, <1>2
  <2>3. g[y] = h[y]
    BY <2>2, <2>1, <1>3
  <2> QED BY <2>3, <1>4, <1>6 DEF Unfold
<1> QED BY <1>5, <1>6

\* A finite set has a table: the one made of the tables of its smaller subsets.
LEMMA TableExists ==
    ASSUME NEW f, NEW S, IsFiniteSet(S)
    PROVE  \E g : IsTable(f, g, S)
<1> DEFINE T == {s \in SUBSET S : ~\E g : IsTable(f, g, s)}
<1>1. SUFFICES ASSUME T # {} PROVE FALSE
  OBVIOUS
<1>2. PICK x \in T : \A y \in T : y \subseteq x => y = x
  <2>1. T \subseteq SUBSET S
    OBVIOUS
  <2> HIDE DEF T
  <2> QED BY <1>1, <2>1, SmallestSubset
<1>3. x \subseteq S /\ IsFiniteSet(x)
  BY FS_Subset
<1> DEFINE t(s) == CHOOSE g : IsTable(f, g, s)
<1>4. \A s \in SUBSET x : s # x => IsTable(f, t(s), s)
  <2> TAKE s \in SUBSET x
  <2> HAVE s # x
  <2>1. \E g : IsTable(f, g, s)
    BY <1>2, <1>3
  <2> QED BY <2>1
<1> DEFINE rest(s) == s \ {Pick(s)}
           val(s) == IF s = {} THEN 0 ELSE f[Pick(s)] + t(rest(s))[rest(s)]
           g == [s \in SUBSET x |-> val(s)]
<1>5. ASSUME NEW s \in SUBSET x, s # x PROVE t(s)[s] = val(s)
  <2>1. IsTable(f, t(s), s)
    BY <1>4, <1>5
  <2> HIDE DEF t
  <2>2. t(s)[s] = Unfold(f, t(s), s)
    <3>1. s \in SUBSET s
      OBVIOUS
    <3> QED BY <2>1, <3>1 DEF IsTable
  <2>3. CASE s = {}
    BY <2>2, <2>3 DEF Unfold
  <2>4. CASE s # {}
    <3>1. rest(s) \subseteq s /\ rest(s) # s /\ rest(s) \in SUBSET x /\ rest(s) # x
      BY <2>4, <1>5, PickIn
    <3>2. IsTable(f, t(rest(s)), rest(s))
      BY <3>1, <1>4
    <3>3. IsFiniteSet(rest(s))
      BY <3>1, <1>3, FS_Subset
    <3> HIDE DEF rest
    <3>4. t(s)[rest(s)] = t(rest(s))[rest(s)]
      BY <3>1, <3>2, <3>3, <2>1, TablesAgree
    <3> QED BY <3>4, <2>2, <2>4 DEF Unfold, rest
  <2> QED BY <2>3, <2>4
<1>6. IsTable(f, g, x)
  <2> HIDE DEF t
  <2>1. ASSUME NEW s \in SUBSET x PROVE g[s] = Unfold(f, g, s)
    <3>1. CASE s = {}
      BY <3>1 DEF Unfold
    <3>2. CASE s # {}
      <4>1. rest(s) \in SUBSET x /\ rest(s) # x
        BY <3>2, PickIn
      <4>2. g[rest(s)] = t(rest(s))[rest(s)]
        BY <4>1, <1>5
      <4> QED BY <3>2, <4>2 DEF Unfold
    <3> QED BY <3>1, <3>2
  <2>2. g = [s \in SUBSET x |-> g[s]]
    OBVIOUS
  <2> HIDE DEF g
  <2> QED BY <2>1, <2>2 DEF IsTable
<1> QED BY <1>2, <1>6

\* So a sum is computed one element at a time.
LEMMA SumUnfolds ==
    ASSUME NEW f, NEW S, IsFiniteSet(S)
    PROVE  /\ S = {} => SumFunctionOnSet(f, S) = 0
           /\ S # {} => SumFunctionOnSet(f, S)
                            = f[Pick(S)] + SumFunctionOnSet(f, S \ {Pick(S)})
<1> DEFINE g == CHOOSE h : IsTable(f, h, S)
           R == S \ {Pick(S)}
           r == CHOOSE h : IsTable(f, h, R)
<1>1. IsTable(f, g, S)
  BY TableExists
<1>2. IsFiniteSet(R) /\ R \subseteq S
  BY FS_Subset
<1>3. IsTable(f, r, R)
  BY <1>2, TableExists
<1>4. SumFunctionOnSet(f, S) = g[S] /\ SumFunctionOnSet(f, R) = r[R]
  BY SumIsTable
<1> HIDE DEF g, r
<1>5. g[S] = Unfold(f, g, S)
  <2>1. S \in SUBSET S
    OBVIOUS
  <2> QED BY <1>1, <2>1 DEF IsTable
<1>6. g[R] = r[R]
  BY <1>1, <1>2, <1>3, TablesAgree
<1> QED BY <1>4, <1>5, <1>6 DEF Unfold

\* The empty sum.
LEMMA SumEmpty == ASSUME NEW f PROVE SumFunctionOnSet(f, {}) = 0
BY SumUnfolds, FS_EmptySet, SMTT(30)

\* A sum of integers is an integer, a sum of naturals a natural number.
LEMMA SumType ==
    ASSUME NEW S, IsFiniteSet(S), NEW f
    PROVE  /\ (\A a \in S : f[a] \in Int) => SumFunctionOnSet(f, S) \in Int
           /\ (\A a \in S : f[a] \in Nat) => SumFunctionOnSet(f, S) \in Nat
<1> DEFINE Bad(N) == {s \in SUBSET S : SumFunctionOnSet(f, s) \notin N}
<1>1. ASSUME NEW N, N = Nat \/ N = Int, \A a \in S : f[a] \in N
      PROVE  Bad(N) = {}
  <2> SUFFICES ASSUME Bad(N) # {} PROVE FALSE
    OBVIOUS
  <2>1. PICK x \in Bad(N) : \A y \in Bad(N) : y \subseteq x => y = x
    <3>1. Bad(N) \subseteq SUBSET S
      OBVIOUS
    <3> HIDE DEF Bad
    <3> QED BY <3>1, SmallestSubset
  <2>2. x \subseteq S /\ IsFiniteSet(x)
    BY FS_Subset
  <2>3. x # {}
    <3>1. SumFunctionOnSet(f, {}) \in N
      BY <1>1, SumEmpty
    <3> QED BY <3>1
  <2>4. /\ Pick(x) \in x
        /\ SumFunctionOnSet(f, x) = f[Pick(x)] + SumFunctionOnSet(f, x \ {Pick(x)})
    BY <2>2, <2>3, SumUnfolds, PickIn
  <2>5. SumFunctionOnSet(f, x \ {Pick(x)}) \in N
    BY <2>1, <2>2, <2>4
  <2>6. f[Pick(x)] \in N /\ SumFunctionOnSet(f, x) \notin N
    BY <1>1, <2>2, <2>4
  <2> QED BY <1>1, <2>4, <2>5, <2>6
<1>2. ASSUME NEW N, Bad(N) = {} PROVE SumFunctionOnSet(f, S) \in N
  BY <1>2
<1> HIDE DEF Bad
<1> QED BY <1>1, <1>2

\* Any element can be taken out first.
LEMMA SumRemove ==
    ASSUME NEW S, IsFiniteSet(S), NEW f, \A a \in S : f[a] \in Int, NEW e \in S
    PROVE  SumFunctionOnSet(f, S) = f[e] + SumFunctionOnSet(f, S \ {e})
<1> DEFINE T == {s \in SUBSET S : \E a \in s :
                    SumFunctionOnSet(f, s) # f[a] + SumFunctionOnSet(f, s \ {a})}
<1> SUFFICES T = {}
  BY Zenon
<1> SUFFICES ASSUME T # {} PROVE FALSE
  BY Zenon
<1>1. PICK x \in T : \A y \in T : y \subseteq x => y = x
  <2>1. T \subseteq SUBSET S
    OBVIOUS
  <2> HIDE DEF T
  <2> QED BY <2>1, SmallestSubset
<1>2. PICK a \in x : SumFunctionOnSet(f, x) # f[a] + SumFunctionOnSet(f, x \ {a})
  OBVIOUS
<1> DEFINE p == Pick(x)
<1>3. x \subseteq S /\ IsFiniteSet(x) /\ p \in x
  BY FS_Subset, PickIn
<1>4. SumFunctionOnSet(f, x) = f[p] + SumFunctionOnSet(f, x \ {p})
  BY <1>3, SumUnfolds
<1>5. a # p
  BY <1>2, <1>4
<1>6. x \ {p} \notin T /\ x \ {a} \notin T
  BY <1>1, <1>3
<1> DEFINE y == x \ {a, p}
<1>7. (x \ {p}) \ {a} = y /\ (x \ {a}) \ {p} = y
  OBVIOUS
<1>8. SumFunctionOnSet(f, x \ {p}) = f[a] + SumFunctionOnSet(f, y)
  BY <1>3, <1>5, <1>6, <1>7
<1>9. SumFunctionOnSet(f, x \ {a}) = f[p] + SumFunctionOnSet(f, y)
  BY <1>3, <1>5, <1>6, <1>7
<1>10. f[a] \in Int /\ f[p] \in Int /\ SumFunctionOnSet(f, y) \in Int
  <2>1. IsFiniteSet(y) /\ \A c \in y : f[c] \in Int
    BY <1>3, FS_Subset
  <2> HIDE DEF y
  <2>2. SumFunctionOnSet(f, y) \in Int
    BY <2>1, SumType
  <2> QED BY <2>2, <1>3
<1> HIDE DEF T, p, y
<1> QED BY <1>2, <1>4, <1>8, <1>9, <1>10

\* A sum grows with the values.
LEMMA SumMonotone ==
    ASSUME NEW S, IsFiniteSet(S), NEW f, NEW g,
           \A a \in S : f[a] \in Int /\ g[a] \in Int /\ f[a] <= g[a]
    PROVE  SumFunctionOnSet(f, S) <= SumFunctionOnSet(g, S)
<1> DEFINE T == {s \in SUBSET S : ~(SumFunctionOnSet(f, s) <= SumFunctionOnSet(g, s))}
<1> SUFFICES ASSUME T # {} PROVE FALSE
  OBVIOUS
<1>1. PICK x \in T : \A y \in T : y \subseteq x => y = x
  <2>1. T \subseteq SUBSET S
    OBVIOUS
  <2> HIDE DEF T
  <2> QED BY <2>1, SmallestSubset
<1>2. x \subseteq S /\ IsFiniteSet(x) /\ ~(SumFunctionOnSet(f, x) <= SumFunctionOnSet(g, x))
  BY FS_Subset
<1>3. x # {}
  <2>1. SumFunctionOnSet(f, {}) <= SumFunctionOnSet(g, {})
    BY SumEmpty
  <2> QED BY <1>2, <2>1
<1> DEFINE p == Pick(x)
           y == x \ {p}
<1>4. /\ p \in x
      /\ SumFunctionOnSet(f, x) = f[p] + SumFunctionOnSet(f, y)
      /\ SumFunctionOnSet(g, x) = g[p] + SumFunctionOnSet(g, y)
  BY <1>2, <1>3, SumUnfolds, PickIn
<1>5. SumFunctionOnSet(f, y) <= SumFunctionOnSet(g, y)
  BY <1>1, <1>2, <1>4
<1>6. IsFiniteSet(y) /\ y \subseteq S
  BY <1>2, FS_Subset
<1>7. SumFunctionOnSet(f, y) \in Int /\ SumFunctionOnSet(g, y) \in Int
  BY <1>6, SumType
<1>8. f[p] \in Int /\ g[p] \in Int /\ f[p] <= g[p]
  BY <1>2, <1>4
<1> HIDE DEF T, p, y
<1> QED BY <1>2, <1>4, <1>5, <1>7, <1>8

\* It depends on nothing but the values in the set.
LEMMA SumEqual ==
    ASSUME NEW S, IsFiniteSet(S), NEW f, NEW g,
           \A a \in S : f[a] \in Int /\ f[a] = g[a]
    PROVE  SumFunctionOnSet(f, S) = SumFunctionOnSet(g, S)
<1>1. SumFunctionOnSet(f, S) \in Int /\ SumFunctionOnSet(g, S) \in Int
  BY SumType
<1>2. /\ SumFunctionOnSet(f, S) <= SumFunctionOnSet(g, S)
      /\ SumFunctionOnSet(g, S) <= SumFunctionOnSet(f, S)
  BY SumMonotone
<1> QED BY <1>1, <1>2

\* A sum of zeros.
LEMMA SumZero ==
    ASSUME NEW S, IsFiniteSet(S)
    PROVE  SumFunctionOnSet([a \in S |-> 0], S) = 0
<1> DEFINE f == [a \in S |-> 0]
           T == {s \in SUBSET S : SumFunctionOnSet(f, s) # 0}
<1> SUFFICES ASSUME T # {} PROVE FALSE
  OBVIOUS
<1>1. PICK x \in T : \A y \in T : y \subseteq x => y = x
  <2>1. T \subseteq SUBSET S
    OBVIOUS
  <2> HIDE DEF T
  <2> QED BY <2>1, SmallestSubset
<1>2. x \subseteq S /\ IsFiniteSet(x) /\ x # {}
  <2>1. SumFunctionOnSet(f, {}) = 0
    BY SumEmpty
  <2> QED BY <2>1, FS_Subset
<1>3. /\ Pick(x) \in x
      /\ SumFunctionOnSet(f, x) = f[Pick(x)] + SumFunctionOnSet(f, x \ {Pick(x)})
  <2> HIDE DEF f
  <2> QED BY <1>2, SumUnfolds, PickIn
<1>4. SumFunctionOnSet(f, x \ {Pick(x)}) = 0
  BY <1>1, <1>2, <1>3
<1>5. f[Pick(x)] = 0
  BY <1>2, <1>3
<1>6. SumFunctionOnSet(f, x) # 0
  OBVIOUS
<1> HIDE DEF f, T
<1> QED BY <1>3, <1>4, <1>5, <1>6

\* One value changes, the others stay.
LEMMA SumChange ==
    ASSUME NEW S, IsFiniteSet(S), NEW f, NEW g, NEW e \in S,
           \A a \in S : f[a] \in Int /\ g[a] \in Int,
           \A a \in S \ {e} : f[a] = g[a]
    PROVE  SumFunctionOnSet(g, S) = SumFunctionOnSet(f, S) - f[e] + g[e]
<1> DEFINE R == S \ {e}
<1>1. IsFiniteSet(R) /\ \A a \in R : f[a] \in Int /\ f[a] = g[a]
  BY FS_Subset
<1>2. /\ SumFunctionOnSet(f, S) = f[e] + SumFunctionOnSet(f, R)
      /\ SumFunctionOnSet(g, S) = g[e] + SumFunctionOnSet(g, R)
  BY SumRemove
<1> HIDE DEF R
<1>3. SumFunctionOnSet(f, R) = SumFunctionOnSet(g, R) /\ SumFunctionOnSet(f, R) \in Int
  BY <1>1, SumEqual, SumType
<1> QED BY <1>2, <1>3

\* A part is at most the whole, when nothing is negative.
LEMMA SumPart ==
    ASSUME NEW S, IsFiniteSet(S), NEW f, \A a \in S : f[a] \in Nat, NEW e \in S
    PROVE  f[e] <= SumFunctionOnSet(f, S)
<1>1. SumFunctionOnSet(f, S) = f[e] + SumFunctionOnSet(f, S \ {e})
  BY SumRemove
<1>2. IsFiniteSet(S \ {e}) /\ \A a \in S \ {e} : f[a] \in Nat
  BY FS_Subset
<1>3. SumFunctionOnSet(f, S \ {e}) \in Nat
  BY <1>2, SumType
<1> QED BY <1>1, <1>3

-----------------------------------------------------------------------------
(* Sound accounts.                                                         *)

\* The provider references an account has beyond the balances pallet's own.
Slack(account) == account.providers - OwnProvider(account.free)

Sound(account) == account \in AccountInfo /\ Slack(account) >= 0

-----------------------------------------------------------------------------
(* What the operations of pallet_balances and frame_system do to a sound   *)
(* account.                                                                *)

\* try_mutate_account writes the held balances it is given, the free balance
\* too unless it is dust, and moves only the pallet's own reference.
LEMMA MutateAccount ==
    ASSUME NEW account, Sound(account),
           NEW free \in Nat, NEW held \in [HoldReason -> Nat]
    PROVE  LET after == try_mutate_account(account, free, held)
           IN  /\ Sound(after)
               /\ Slack(after) = Slack(account)
               /\ after.held = held
               /\ free >= ExistentialDeposit \/ OnHold(held) > 0 => after.free = free
<1> DEFINE after == try_mutate_account(account, free, held)
<1>1. /\ after.free \in Nat
      /\ OwnProvider(after.free) = OwnProvider(free)
      /\ free >= ExistentialDeposit \/ OnHold(held) > 0 => after.free = free
  BY ExistentialDepositAssumption DEF try_mutate_account, OwnProvider, OnHold, HoldReason
<1>2. /\ after.providers \in Nat
      /\ after.providers - OwnProvider(free) = Slack(account)
  BY ExistentialDepositAssumption
  DEF try_mutate_account, Sound, Slack, AccountInfo, OwnProvider
<1>3. after \in AccountInfo
  BY <1>1, <1>2 DEF try_mutate_account, AccountInfo
<1>4. QED
  BY <1>1, <1>2, <1>3 DEF try_mutate_account, Sound, Slack, AccountInfo

\* Dust removal has nothing left to take.
NoDust(account) ==
    account.free > 0 /\ Reserved(account) = 0 => account.free >= ExistentialDeposit

\* A free balance is what it is set to, or was dust.
Settles(free, amount) == free = amount \/ (free = 0 /\ amount < ExistentialDeposit)

\* Dust is all that spending and receiving can lose.
LEMMA FreeSettles ==
    ASSUME NEW account, Sound(account), NEW amount \in Nat
    PROVE  /\ amount <= account.free =>
                Settles(decrease_balance(account, amount).free, account.free - amount)
           /\ Settles(increase_balance(account, amount).free, account.free + amount)
  BY DEF decrease_balance, increase_balance, try_mutate_account, Settles, Sound, AccountInfo

\* Where the existential deposit is 1 there is no dust, and otherwise it is less
\* than the deposit.
LEMMA DustIsSmall ==
    ASSUME NEW free \in Nat, NEW amount \in Nat, Settles(free, amount)
    PROVE  /\ free <= amount
           /\ amount - free < ExistentialDeposit
           /\ ExistentialDeposit = 1 => free = amount
           /\ free # amount => free = 0
  BY ExistentialDepositAssumption DEF Settles

\* What is left of a balance, and what was dropped of it, is the balance.
LEMMA DustIsCounted ==
    ASSUME NEW amount \in Nat, NEW account
    PROVE  /\ dust(amount, account) \in Nat
           /\ Settles(account.free, amount) => account.free + dust(amount, account) = amount
  BY ExistentialDepositAssumption DEF dust, Settles

\* Spending: the account stays sound and keeps its holds.
LEMMA DecreaseBalance ==
    ASSUME NEW account, Sound(account), NEW amount \in Nat, amount <= account.free
    PROVE  LET after == decrease_balance(account, amount)
           IN  /\ Sound(after)
               /\ Slack(after) = Slack(account)
               /\ after.held = account.held
               /\ account.free - amount >= ExistentialDeposit
                    => after.free = account.free - amount
<1>1. account.free - amount \in Nat /\ account.held \in [HoldReason -> Nat]
  BY DEF Sound, AccountInfo
<1>2. QED
  BY <1>1, MutateAccount DEF decrease_balance

\* Receiving: likewise.
LEMMA IncreaseBalance ==
    ASSUME NEW account, Sound(account), NEW amount \in Nat
    PROVE  LET after == increase_balance(account, amount)
           IN  /\ Sound(after)
               /\ Slack(after) = Slack(account)
               /\ after.held = account.held
               /\ account.free + amount >= ExistentialDeposit
                    => after.free = account.free + amount
<1>1. account.free + amount \in Nat /\ account.held \in [HoldReason -> Nat]
  BY DEF Sound, AccountInfo
<1>2. QED
  BY <1>1, MutateAccount DEF increase_balance

\* Holding more: the account's existing free balance is not touched.
LEMMA IncreaseBalanceOnHold ==
    ASSUME NEW account, Sound(account), NEW reason \in HoldReason, NEW amount \in Nat
    PROVE  LET after == increase_balance_on_hold(account, reason, amount)
           IN  /\ Sound(after)
               /\ Slack(after) = Slack(account)
               /\ after.held = [account.held EXCEPT ![reason] = @ + amount]
               /\ account.free >= ExistentialDeposit \/ amount > 0 => after.free = account.free
<1> DEFINE held == [account.held EXCEPT ![reason] = @ + amount]
           after == increase_balance_on_hold(account, reason, amount)
<1>1. account.free \in Nat /\ held \in [HoldReason -> Nat]
  BY DEF Sound, AccountInfo
<1>2. amount > 0 => OnHold(held) > 0
  BY DEF Sound, AccountInfo, OnHold, HoldReason
<1> HIDE DEF held
<1>3. after = try_mutate_account(account, account.free, held)
  BY DEF increase_balance_on_hold, held
<1> HIDE DEF after
<1>4. /\ Sound(after) /\ Slack(after) = Slack(account) /\ after.held = held
      /\ account.free >= ExistentialDeposit \/ OnHold(held) > 0 => after.free = account.free
  BY <1>1, <1>3, MutateAccount
<1>5. QED
  BY <1>2, <1>4, Zenon DEF after, held

\* Holding less: what is left may be dust.
LEMMA DecreaseBalanceOnHold ==
    ASSUME NEW account, Sound(account), NEW reason \in HoldReason,
           NEW amount \in Nat, amount <= account.held[reason]
    PROVE  LET after == decrease_balance_on_hold(account, reason, amount)
           IN  /\ Sound(after)
               /\ Slack(after) = Slack(account)
               /\ after.held = [account.held EXCEPT ![reason] = @ - amount]
               /\ account.free >= ExistentialDeposit => after.free = account.free
               /\ Settles(after.free, account.free) /\ NoDust(after)
<1> DEFINE held == [account.held EXCEPT ![reason] = @ - amount]
           after == decrease_balance_on_hold(account, reason, amount)
<1>1. account.free \in Nat /\ held \in [HoldReason -> Nat]
  BY DEF Sound, AccountInfo
<1> HIDE DEF held
<1>2. after = try_mutate_account(account, account.free, held)
  BY DEF decrease_balance_on_hold, held
<1> HIDE DEF after
<1>3. /\ Sound(after) /\ Slack(after) = Slack(account) /\ after.held = held
      /\ account.free >= ExistentialDeposit => after.free = account.free
  BY <1>1, <1>2, MutateAccount
<1>4. Settles(after.free, account.free) /\ NoDust(after)
  <2>1. /\ after.held = held
        /\ after.free = IF account.free < ExistentialDeposit /\ OnHold(held) = 0 THEN 0
                        ELSE account.free
    BY <1>2 DEF try_mutate_account
  <2>2. QED
    BY <1>1, <2>1, ExistentialDepositAssumption DEF Settles, NoDust, Reserved
<1>5. QED
  BY <1>3, <1>4 DEF after, held

\* hold moves free balance to the hold, where the existential deposit remains.
LEMMA Hold ==
    ASSUME NEW account, Sound(account), NEW reason \in HoldReason,
           NEW amount \in Nat, account.free - amount >= ExistentialDeposit
    PROVE  LET after == hold(account, reason, amount)
           IN  /\ Sound(after)
               /\ Slack(after) = Slack(account)
               /\ after.held = [account.held EXCEPT ![reason] = @ + amount]
               /\ after.free = account.free - amount
<1>1. account.free \in Nat /\ amount <= account.free
  BY ExistentialDepositAssumption DEF Sound, AccountInfo
<1>2. QED
  BY <1>1, DecreaseBalance, IncreaseBalanceOnHold DEF hold

\* release moves it back.
LEMMA Release ==
    ASSUME NEW account, Sound(account), NEW reason \in HoldReason,
           NEW amount \in Nat, amount <= account.held[reason]
    PROVE  LET after == release(account, reason, amount)
           IN  /\ Sound(after)
               /\ Slack(after) = Slack(account)
               /\ after.held = [account.held EXCEPT ![reason] = @ - amount]
               /\ account.free >= ExistentialDeposit => after.free = account.free + amount
<1> DEFINE account1 == decrease_balance_on_hold(account, reason, amount)
<1>1. /\ Sound(account1) /\ Slack(account1) = Slack(account)
      /\ account1.held = [account.held EXCEPT ![reason] = @ - amount]
      /\ account.free >= ExistentialDeposit => account1.free = account.free
  BY DecreaseBalanceOnHold
<1>2. ExistentialDeposit \in Nat /\ account.free \in Nat
  BY ExistentialDepositAssumption DEF Sound, AccountInfo
<1> HIDE DEF account1
<1> DEFINE after == increase_balance(account1, amount)
<1>3. /\ Sound(after) /\ Slack(after) = Slack(account1) /\ after.held = account1.held
      /\ account1.free + amount >= ExistentialDeposit => after.free = account1.free + amount
  BY <1>1, IncreaseBalance
<1>4. release(account, reason, amount) = after
  BY DEF release, account1
<1> HIDE DEF after
<1>5. QED
  BY <1>1, <1>2, <1>3, <1>4

\* inc_providers, as do_sponsor calls it, adds one to the slack of an account.
LEMMA IncProviders ==
    ASSUME NEW account, Sound(account)
    PROVE  LET after == inc_providers(account)
           IN  /\ Sound(after)
               /\ Slack(after) = Slack(account) + 1
               /\ after.held = account.held
               /\ after.free = account.free
  BY ExistentialDepositAssumption DEF inc_providers, Sound, Slack, AccountInfo, OwnProvider

\* Giving up a reference that is not the balances pallet's own keeps a sound
\* account sound, whether the account stays, goes, or the call is refused; it
\* stays when there is yet another reference, or a hold.  With the account go
\* no funds, where there is no dust.
LEMMA DecProviders ==
    ASSUME NEW account, Sound(account), Slack(account) >= 1
    PROVE  LET after == dec_providers(account)
           IN  /\ Sound(after)
               /\ \A reason \in HoldReason : after.held[reason] = account.held[reason]
               /\ Slack(account) >= 2 => Slack(after) = Slack(account) - 1
               /\ NoDust(account) => after.free = account.free
               /\ Reserved(account) > 0 => after.providers > 0
<1>1. CASE account.providers > 1
  BY <1>1, ExistentialDepositAssumption DEF dec_providers, Sound, Slack, AccountInfo, OwnProvider
<1>2. CASE account.providers <= 1 /\ Reserved(account) = 0
  <2>1. dec_providers(account) = DeadAccount
    BY <1>2 DEF dec_providers, Sound, AccountInfo
  <2>2. \A reason \in HoldReason : account.held[reason] = 0
    BY <1>2 DEF Reserved, OnHold, Sound, AccountInfo, HoldReason
  <2>3. Sound(DeadAccount)
    BY ExistentialDepositAssumption
    DEF DeadAccount, NothingHeld, Sound, Slack, AccountInfo, OwnProvider
  <2>4. Slack(account) < 2
    BY <1>2, ExistentialDepositAssumption DEF Sound, Slack, AccountInfo, OwnProvider
  <2>5. Slack(account) \in Int
    BY ExistentialDepositAssumption DEF Sound, Slack, AccountInfo, OwnProvider
  <2>6. NoDust(account) => account.free = 0
    BY <1>2, ExistentialDepositAssumption DEF NoDust, Sound, Slack, AccountInfo, OwnProvider
  <2>7. QED
    BY <1>2, <2>1, <2>2, <2>3, <2>4, <2>5, <2>6 DEF DeadAccount, NothingHeld
<1>3. CASE account.providers <= 1 /\ Reserved(account) # 0
  BY <1>3, ExistentialDepositAssumption
  DEF dec_providers, Sound, Slack, AccountInfo, OwnProvider
<1>4. QED
  <2>1. account.providers \in Nat
    BY DEF Sound, AccountInfo
  <2>2. QED
    BY <1>1, <1>2, <1>3, <2>1

-----------------------------------------------------------------------------
(* Accounts in order: no dust is left, and what is on hold keeps the       *)
(* account in existence.                                                   *)

Kempt(account) ==
    NoDust(account) /\ (Reserved(account) > 0 => account.providers > 0)

\* The parts of a sound account that the following leaves need.
LEMMA SoundAccount ==
    ASSUME NEW account, Sound(account)
    PROVE  /\ account.free \in Nat /\ Reserved(account) \in Nat /\ account.providers \in Nat
           /\ Slack(account) \in Int /\ Slack(account) >= 0
           /\ account.providers = Slack(account) + OwnProvider(account.free)
           /\ OwnProvider(account.free) = IF account.free >= ExistentialDeposit THEN 1 ELSE 0
           /\ ExistentialDeposit \in Nat \ {0}
  BY ExistentialDepositAssumption
  DEF Sound, Slack, AccountInfo, Reserved, OnHold, HoldReason, OwnProvider

\* An account is in order when it has the existential deposit, or something on
\* hold and a reference beyond the balances pallet's own.
LEMMA KemptFunded ==
    ASSUME NEW account, Sound(account),
           \/ account.free >= ExistentialDeposit
           \/ Reserved(account) > 0 /\ Slack(account) >= 1
    PROVE  Kempt(account)
  BY SoundAccount DEF Kempt, NoDust

\* It stays so with the same balances and no fewer references.
LEMMA KemptSame ==
    ASSUME NEW account, Sound(account), Kempt(account), NEW after, Sound(after),
           after.free = account.free, Reserved(after) = Reserved(account),
           Slack(after) >= Slack(account)
    PROVE  Kempt(after)
<1>1. after.providers >= account.providers
  BY SoundAccount
<1>2. QED
  BY <1>1, SoundAccount DEF Kempt, NoDust

\* Spending what reducible_balance allows keeps it so: below the existential
\* deposit the balance goes only where another reference is left, or no hold.
LEMMA KemptSpender ==
    ASSUME NEW account, Sound(account), Kempt(account), NEW amount \in Nat,
           NEW preservation, amount <= reducible_balance(account, preservation)
    PROVE  amount <= account.free /\ Kempt(decrease_balance(account, amount))
<1> DEFINE after == decrease_balance(account, amount)
<1>1. amount <= account.free
  BY SoundAccount DEF reducible_balance
<1>2. /\ Sound(after) /\ Slack(after) = Slack(account) /\ after.held = account.held
      /\ account.free - amount >= ExistentialDeposit => after.free = account.free - amount
  BY <1>1, DecreaseBalance
<1>3. NoDust(after)
  BY <1>1, SoundAccount DEF decrease_balance, try_mutate_account, NoDust, Reserved
<1> HIDE DEF after
<1>4. Reserved(after) = Reserved(account)
  BY <1>2 DEF Reserved
<1>5. ASSUME Reserved(account) > 0 PROVE after.providers > 0
  <2>1. CASE account.providers > 1
    BY <1>2, <2>1, SoundAccount
  <2>2. CASE account.providers <= 1
    <3>1. ~can_dec_provider(account)
      BY <1>5, <2>2, SoundAccount DEF can_dec_provider
    <3>2. account.free - amount >= ExistentialDeposit \/ amount = 0
      BY <3>1, SoundAccount DEF reducible_balance
    <3>3. CASE account.free - amount >= ExistentialDeposit
      BY <1>1, <1>2, <3>3, SoundAccount
    <3>4. CASE amount = 0 /\ account.free < ExistentialDeposit
      BY <1>2, <1>5, <3>4, SoundAccount DEF Kempt
    <3>5. QED
      BY <3>2, <3>3, <3>4, SoundAccount
  <2>3. QED
    BY <2>1, <2>2, SoundAccount
<1>6. QED
  BY <1>1, <1>3, <1>4, <1>5 DEF Kempt, after

\* So does receiving.
LEMMA KemptReceiver ==
    ASSUME NEW account, Sound(account), Kempt(account), NEW amount \in Nat
    PROVE  Kempt(increase_balance(account, amount))
<1> DEFINE after == increase_balance(account, amount)
<1>1. /\ Sound(after) /\ Slack(after) = Slack(account) /\ after.held = account.held
      /\ account.free + amount >= ExistentialDeposit => after.free = account.free + amount
  BY IncreaseBalance
<1>2. NoDust(after)
  BY SoundAccount DEF increase_balance, try_mutate_account, NoDust, Reserved
<1> HIDE DEF after
<1>3. Reserved(after) = Reserved(account)
  BY <1>1 DEF Reserved
<1>4. OwnProvider(after.free) >= OwnProvider(account.free)
  BY <1>1, SoundAccount
<1>5. after.providers >= account.providers
  BY <1>1, <1>4, SoundAccount
<1>6. QED
  BY <1>1, <1>2, <1>3, <1>5, SoundAccount DEF Kempt, after

\* What can_deposit accepts arrives to the unit.
LEMMA ReceivesExactly ==
    ASSUME NEW account, Sound(account), NoDust(account), NEW amount \in Nat,
           can_deposit(account, amount)
    PROVE  increase_balance(account, amount).free = account.free + amount
  BY SoundAccount DEF increase_balance, try_mutate_account, can_deposit, NoDust, Reserved
=============================================================================
