------------------------- MODULE PrazskyGros_proofs -------------------------
(***************************************************************************)
(* The cover of the coin, for any unit, limits, amounts, payments and      *)
(* rates.                                                                  *)
(***************************************************************************)
EXTENDS PrazskyGros, TLAPS

(* What rounding down does.                                                *)

LEMMA Division ==
  ASSUME NEW a \in Nat, NEW b \in Nat \ {0}
  PROVE  /\ a \div b \in Nat
         /\ b * (a \div b) <= a
         /\ a < b * (a \div b) + b
  OBVIOUS

\* Products of naturals keep the order.
LEMMA TimesMonotone ==
  ASSUME NEW a \in Nat, NEW b \in Nat, NEW c \in Nat, a <= b
  PROVE  a * c <= b * c /\ c * a <= c * b /\ a * c \in Nat
  OBVIOUS

LEMMA TimesCancels ==
  ASSUME NEW a \in Int, NEW b \in Int, NEW c \in Nat \ {0}, a * c <= b * c
  PROVE  a <= b
  OBVIOUS

LEMMA Distributes ==
  ASSUME NEW a \in Int, NEW b \in Int, NEW c \in Int
  PROVE  (a + b) * c = a * c + b * c /\ (a - b) * c = a * c - b * c
  OBVIOUS

\* The share of the cover that a burn of n of s coins takes along.
LEMMA Share ==
  ASSUME NEW n \in Nat, NEW s \in Nat \ {0}, NEW b \in Nat, n <= s,
         NEW q, q = (n * b) \div s
  PROVE  /\ q \in Nat
         /\ q <= b
         /\ (b - q) * s >= b * (s - n)
         /\ n = s => q = b
  <1>1. n * b \in Nat
    BY TimesMonotone
  <1>2. q \in Nat /\ s * q <= n * b /\ n * b < s * q + s
    BY <1>1, Division
  <1>3. n * b <= s * b
    BY TimesMonotone
  <1>4. q * s <= b * s
    BY <1>2, <1>3
  <1>5. q <= b
    BY <1>2, <1>4, TimesCancels
  <1>6. (b - q) * s >= b * (s - n)
    <2>1. (b - q) * s = b * s - q * s
      BY <1>2, Distributes
    <2>2. b * (s - n) = b * s - b * n
      OBVIOUS
    <2>3. QED BY <1>2, <2>1, <2>2
  <1>7. ASSUME n = s PROVE q = b
    <2>1. b * s < (q + 1) * s
      BY <1>2, <1>7
    <2>2. b < q + 1
      BY <1>2, <2>1
    <2>3. QED BY <1>2, <1>5, <2>2
  <1>8. QED BY <1>2, <1>5, <1>6, <1>7

-----------------------------------------------------------------------------
(* The ether that comes in and goes out.                                   *)

\* A burn returns a natural number of wei.
LEMMA ReturnTyped ==
  ASSUME TypeOK, NEW n \in Amounts, Burn(n)
  PROVE  EtherToReturn(n) \in Nat
  BY GrosAssumption, Share DEF TypeOK, Burn, EtherToReturn

THEOREM Typing == Spec => []TypeOK
  <1> USE GrosAssumption DEF TypeOK
  <1>a. Init => TypeOK
    <2>1. Init => raised \in BOOLEAN
      BY DEF Init
    <2>2. Init => /\ supply \in 0..MaxSupply /\ weiPerGros \in Nat \ {0}
                  /\ totalBacking \in Nat /\ ether \in Nat /\ mints \in Nat
      BY DEF Init, Fits
    <2>3. QED BY <2>1, <2>2
  <1>b. ASSUME TypeOK, NEW n \in Amounts, Burn(n) PROVE TypeOK'
    BY <1>b, ReturnTyped DEF Burn
  <1>c. ASSUME TypeOK, NEW n \in Amounts, NEW v \in Values, Mint(n, v) PROVE TypeOK'
    BY <1>c DEF Mint, Deposit
  <1>d. ASSUME TypeOK, NEW v \in Values, Refill(v) \/ ForceEther(v) PROVE TypeOK'
    BY <1>d DEF Refill, ForceEther, Deposit
  <1>e. ASSUME TypeOK, NEW r \in Rates, UpdateRate(r) PROVE TypeOK'
    BY <1>e DEF UpdateRate
  <1>f. TypeOK /\ UNCHANGED vars => TypeOK'
    BY DEF vars
  <1>g. TypeOK /\ [Next]_vars => TypeOK'
    BY <1>b, <1>c, <1>d, <1>e, <1>f DEF Next
  <1>h. QED BY <1>a, <1>g, PTL DEF Spec

\* The ether beyond the counted cover: a payment raises both alike, a burn lowers
\* both alike, and what arrives uncounted raises the ether alone.
Surplus == ether - totalBacking

LEMMA SurplusKept ==
  ASSUME TypeOK, [Next]_vars
  PROVE  Surplus' >= Surplus
  <1> USE GrosAssumption DEF TypeOK, Surplus
  <1>1. ASSUME NEW v \in Values, Deposit(v) PROVE Surplus' = Surplus
    BY <1>1 DEF Deposit
  <1>2. ASSUME NEW n \in Amounts, Burn(n) PROVE Surplus' = Surplus
    BY <1>2, ReturnTyped DEF Burn
  <1>3. ASSUME NEW v \in Values, ForceEther(v) PROVE Surplus' = Surplus + v
    BY <1>3 DEF ForceEther
  <1>4. ASSUME UNCHANGED <<totalBacking, ether>> PROVE Surplus' = Surplus
    BY <1>4
  <1>5. \/ \E v \in Values : Deposit(v) \/ ForceEther(v)
        \/ \E n \in Amounts : Burn(n)
        \/ UNCHANGED <<totalBacking, ether>>
    BY DEF Next, Mint, Refill, UpdateRate, vars
  <1>6. QED BY <1>1, <1>2, <1>3, <1>4, <1>5

\* The contract always holds the ether that it counts as cover.
THEOREM AlwaysSolvent == Spec => []Solvent
  <1>1. Init => Solvent
    BY GrosAssumption DEF Init, Solvent
  <1>2. TypeOK /\ TypeOK' /\ Solvent /\ [Next]_vars => Solvent'
    <2>1. TypeOK /\ [Next]_vars => Surplus' >= Surplus
      BY SurplusKept
    <2>2. TypeOK => ether \in Nat /\ totalBacking \in Nat
      BY DEF TypeOK
    <2>3. TypeOK' => ether' \in Nat /\ totalBacking' \in Nat
      BY DEF TypeOK
    <2>4. QED BY <2>1, <2>2, <2>3 DEF Solvent, Surplus
  <1>3. QED BY Typing, <1>1, <1>2, PTL DEF Spec

-----------------------------------------------------------------------------
(* The cover.                                                              *)

LEMMA MintCovers ==
  ASSUME TypeOK, CoveredUpToDust, NEW n \in Amounts, NEW v \in Values, Mint(n, v)
  PROVE  CoveredUpToDust'
  <1> USE GrosAssumption DEF TypeOK, CoveredUpToDust
  <1> SUFFICES ASSUME ~raised
               PROVE supply' * weiPerGros' <= (totalBacking' + mints') * Unit
    BY DEF Mint
  <1> DEFINE r == weiPerGros
             q == (n * r) \div Unit
  <1>1. n \in Nat /\ v \in Nat /\ q <= v
    BY DEF Mint, RequiredBacking
  <1>2. n * r \in Nat
    BY <1>1, TimesMonotone
  <1>3. q \in Nat /\ n * r < Unit * q + Unit
    BY <1>2, Division
  <1>4. q * Unit <= v * Unit
    BY <1>1, <1>3, TimesMonotone
  <1>5. (supply + n) * r <= (totalBacking + v + mints + 1) * Unit
    <2>1. (supply + n) * r = supply * r + n * r
      BY <1>1
    <2>2. (totalBacking + v + mints + 1) * Unit
            = (totalBacking + mints) * Unit + v * Unit + Unit
      BY <1>1
    <2>3. supply * r <= (totalBacking + mints) * Unit
      OBVIOUS
    <2>4. n * r <= v * Unit + Unit
      BY <1>1, <1>2, <1>3, <1>4
    <2>5. QED BY <1>1, <1>2, <2>1, <2>2, <2>3, <2>4
  <1>6. /\ supply' = supply + n /\ weiPerGros' = r
        /\ totalBacking' = totalBacking + v /\ mints' = mints + 1
    BY DEF Mint, Deposit
  <1>7. (totalBacking + v) + (mints + 1) = totalBacking + v + mints + 1
    BY <1>1
  <1>8. QED BY <1>5, <1>6, <1>7

\* What remains after a fair burn is covered as well as before.
LEMMA RestCovered ==
  ASSUME NEW s \in Nat \ {0}, NEW t \in Nat, t <= s,
         NEW b \in Nat, NEW c \in Nat, c * s >= b * t,
         NEW d \in Nat, NEW r \in Nat, NEW u \in Nat,
         s * r <= (b + d) * u
  PROVE  t * r <= (c + d) * u
  <1>1. t * (s * r) <= t * ((b + d) * u)
    <2>1. s * r \in Nat /\ (b + d) * u \in Nat
      BY TimesMonotone
    <2>2. QED BY <2>1, TimesMonotone
  <1>2. t * ((b + d) * u) = (b * t + d * t) * u
    OBVIOUS
  <1>3. b * t + d * t <= c * s + d * s
    <2>1. d * t <= d * s
      BY TimesMonotone
    <2>2. QED BY <2>1
  <1>4. (b * t + d * t) * u <= (c * s + d * s) * u
    <2>1. b * t + d * t \in Nat /\ c * s + d * s \in Nat
      OBVIOUS
    <2>2. QED BY <1>3, <2>1, TimesMonotone
  <1>5. (c * s + d * s) * u = ((c + d) * u) * s
    OBVIOUS
  <1>6. t * (s * r) = (t * r) * s
    OBVIOUS
  <1>7. (t * r) * s <= ((c + d) * u) * s
    BY <1>1, <1>2, <1>4, <1>5, <1>6
  <1>8. QED BY <1>7, TimesCancels

LEMMA BurnCovers ==
  ASSUME TypeOK, CoveredUpToDust, NEW n \in Amounts, Burn(n)
  PROVE  CoveredUpToDust'
  <1> USE GrosAssumption DEF TypeOK, CoveredUpToDust
  <1> SUFFICES ASSUME ~raised
               PROVE supply' * weiPerGros' <= (totalBacking' + mints') * Unit
    BY DEF Burn
  <1> DEFINE q == EtherToReturn(n)
  <1>1. n \in Nat \ {0} /\ supply \in Nat \ {0} /\ n <= supply
    BY DEF Burn
  <1>2. q \in Nat /\ q <= totalBacking
          /\ (totalBacking - q) * supply >= totalBacking * (supply - n)
    BY <1>1, Share DEF EtherToReturn
  <1>3. supply * weiPerGros <= (totalBacking + mints) * Unit
    OBVIOUS
  <1>4. (supply - n) * weiPerGros <= ((totalBacking - q) + mints) * Unit
    <2> DEFINE t == supply - n
               c == totalBacking - q
    <2>1. /\ supply \in Nat \ {0} /\ t \in Nat /\ t <= supply
          /\ totalBacking \in Nat /\ c \in Nat
          /\ weiPerGros \in Nat /\ mints \in Nat /\ Unit \in Nat
      BY <1>1, <1>2
    <2>2. c * supply >= totalBacking * t
      BY <1>2
    <2> HIDE DEF t, c
    <2>3. t * weiPerGros <= (c + mints) * Unit
      BY <1>3, <2>1, <2>2, RestCovered
    <2>4. QED BY <2>3 DEF t, c
  <1>5. /\ supply' = supply - n /\ weiPerGros' = weiPerGros
        /\ totalBacking' = totalBacking - q /\ mints' = mints
    BY DEF Burn
  <1>6. QED BY <1>4, <1>5

\* As long as the rate has not been raised, the coins are covered up to one wei
\* for every mint, whatever is minted, refilled and burned.
THEOREM CoverHolds == Spec => []CoveredUpToDust
  <1> USE GrosAssumption DEF TypeOK
  <1>1. Init => CoveredUpToDust
    BY DEF Init, CoveredUpToDust
  <1>2. TypeOK /\ CoveredUpToDust /\ [Next]_vars => CoveredUpToDust'
    <2> SUFFICES ASSUME TypeOK, CoveredUpToDust, [Next]_vars PROVE CoveredUpToDust'
      OBVIOUS
    <2>1. ASSUME NEW n \in Amounts, NEW v \in Values, Mint(n, v) PROVE CoveredUpToDust'
      BY <2>1, MintCovers
    <2>2. ASSUME NEW v \in Values, Refill(v) PROVE CoveredUpToDust'
      <3>1. v \in Nat /\ totalBacking' = totalBacking + v
              /\ UNCHANGED <<supply, weiPerGros, mints, raised>>
        BY <2>2 DEF Refill, Deposit
      <3>2. (totalBacking + mints) * Unit <= (totalBacking + v + mints) * Unit
        BY <3>1, TimesMonotone
      <3>3. QED BY <3>1, <3>2 DEF CoveredUpToDust
    <2>3. ASSUME NEW v \in Values, ForceEther(v) PROVE CoveredUpToDust'
      BY <2>3 DEF ForceEther, CoveredUpToDust
    <2>4. ASSUME NEW r \in Rates, UpdateRate(r) PROVE CoveredUpToDust'
      <3> SUFFICES ASSUME ~raised'
                   PROVE supply * r <= (totalBacking + mints) * Unit
        BY <2>4 DEF UpdateRate, CoveredUpToDust
      <3>0. ~raised /\ ~(r > weiPerGros)
        BY <2>4, Zenon DEF UpdateRate
      <3>1. r \in Nat /\ r <= weiPerGros
        BY <3>0
      <3>2. supply * r <= supply * weiPerGros
        BY <3>1, TimesMonotone
      <3>3. QED BY <3>0, <3>1, <3>2 DEF CoveredUpToDust
    <2>5. ASSUME NEW n \in Amounts, Burn(n) PROVE CoveredUpToDust'
      BY <2>5, BurnCovers
    <2>6. CASE UNCHANGED vars
      BY <2>6 DEF vars, CoveredUpToDust
    <2>7. QED BY <2>1, <2>2, <2>3, <2>4, <2>5, <2>6 DEF Next
  <1>3. QED BY Typing, <1>1, <1>2, PTL DEF Spec

-----------------------------------------------------------------------------
\* No burn lowers the cover of the coins that remain, and the last one leaves none
\* behind.
THEOREM FairBurns == Spec => BurnIsFair
  <1> DEFINE Fair == supply' < supply =>
                       /\ totalBacking' * supply >= totalBacking * supply'
                       /\ supply' = 0 => totalBacking' = 0
  <1>1. TypeOK /\ [Next]_vars => [Fair]_vars
    <2> USE GrosAssumption DEF TypeOK
    <2> SUFFICES ASSUME TypeOK, [Next]_vars PROVE Fair
      OBVIOUS
    <2>1. ASSUME NEW n \in Amounts, NEW v \in Values, Mint(n, v) PROVE Fair
      BY <2>1 DEF Mint
    <2>2. ASSUME NEW n \in Amounts, Burn(n) PROVE Fair
      <3> DEFINE q == EtherToReturn(n)
      <3>1. n \in Nat \ {0} /\ supply \in Nat \ {0} /\ n <= supply
        BY <2>2 DEF Burn
      <3> totalBacking \in Nat /\ q = (n * totalBacking) \div supply
        BY DEF EtherToReturn
      <3> HIDE DEF q
      <3>2. q \in Nat /\ (totalBacking - q) * supply >= totalBacking * (supply - n)
        BY <3>1, Share
      <3>a. ASSUME n = supply PROVE q = totalBacking
        BY <3>1, <3>a, Share
      <3>3. supply' = supply - n /\ totalBacking' = totalBacking - q
        BY <2>2 DEF Burn, q
      <3>4. QED BY <3>1, <3>2, <3>a, <3>3
    <2>3. CASE UNCHANGED supply
      BY <2>3
    <2>4. ASSUME \/ \E v \in Values : Refill(v) \/ ForceEther(v)
                 \/ \E r \in Rates : UpdateRate(r)
                 \/ UNCHANGED vars
          PROVE UNCHANGED supply
      BY <2>4 DEF Refill, ForceEther, UpdateRate, vars
    <2>5. QED BY <2>1, <2>2, <2>3, <2>4 DEF Next
  <1>2. QED BY Typing, <1>1, PTL DEF Spec, BurnIsFair
=============================================================================
