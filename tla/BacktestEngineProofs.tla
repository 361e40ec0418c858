------------------------- MODULE BacktestEngineProofs -------------------------
(***************************************************************************)
(* Theorems of BacktestEngine, for any prices and books, any strategy and  *)
(* any cash, sizes, fees and slippage.                                     *)
(***************************************************************************)
EXTENDS BacktestEngine, LeastNumber

------------------------------------------------------------------------------
(* Arithmetic that the provers want to be told. *)

LEMMA ProductType ==
  ASSUME NEW x \in Nat, NEW y \in Nat
  PROVE  x * y \in Nat /\ (x # 0 /\ y # 0 => x * y # 0)
  OBVIOUS

LEMMA ProductMonotone ==
  ASSUME NEW x \in Int, NEW y \in Int, NEW n \in Nat, x <= y
  PROVE  x * n <= y * n /\ n * x <= n * y
  OBVIOUS

LEMMA ProductCancels ==
  ASSUME NEW x \in Int, NEW y \in Int, NEW n \in Nat \ {0}, x * n <= y * n
  PROVE  x <= y
  OBVIOUS

\* Of a move from x to y on the way to t.
LEMMA MoveIsBounded ==
  ASSUME NEW x \in Int, NEW y \in Int, NEW t \in Int, NEW n \in Nat,
         Magnitude(x) <= n, Magnitude(t) <= n,
         x <= t => x <= y /\ y <= t,
         x >= t => x >= y /\ y >= t
  PROVE  Magnitude(y) <= n
  BY DEF Magnitude

LEMMA MoveToZero ==
  ASSUME NEW x \in Int, NEW y \in Int,
         x <= 0 => x <= y /\ y <= 0,
         x >= 0 => x >= y /\ y >= 0
  PROVE  Magnitude(y) <= Magnitude(x) /\ y * x >= 0
<1>1. CASE x >= 0
  <2>1. x \in Nat /\ y \in Nat /\ y <= x
    BY <1>1
  <2> QED BY <2>1, ProductType DEF Magnitude
<1>2. CASE x < 0
  <2>1. -x \in Nat /\ -y \in Nat /\ x <= y /\ y <= 0
    BY <1>2
  <2>2. (-y) * (-x) \in Nat
    BY <2>1, ProductType
  <2>3. (-y) * (-x) = y * x
    OBVIOUS
  <2> QED BY <1>2, <2>1, <2>2, <2>3 DEF Magnitude
<1> QED BY <1>1, <1>2

LEMMA SignedSize ==
  ASSUME NEW s \in Signals, NEW n \in Nat
  PROVE  s * n \in Int /\ Magnitude(s * n) <= n
<1>1. s = -1 \/ s = 0 \/ s = 1
  BY DEF Signals
<1>2. (-1) * n = -n /\ 0 * n = 0 /\ 1 * n = n
  OBVIOUS
<1>3. Magnitude(-n) = n /\ Magnitude(0) = 0 /\ Magnitude(n) = n
  BY DEF Magnitude
<1> QED BY <1>1, <1>2, <1>3

------------------------------------------------------------------------------
(* The walk of an order through the book. *)

Fills == [remaining : Nat, filled : Nat, notional : Nat]

\* The fills after each level.
LEMMA WalkExists ==
  ASSUME NEW levels \in Seq(Levels), NEW qty \in Nat
  PROVE  \E f \in [0..Len(levels) -> Fills] :
           /\ f[0] = [remaining |-> qty, filled |-> 0, notional |-> 0]
           /\ \A k \in 1..Len(levels) : f[k] = Walk(f[k - 1], levels[k])
           /\ simulate_market_order(levels, qty) = f[Len(levels)]
<1> DEFINE N == Len(levels)
           start == [remaining |-> qty, filled |-> 0, notional |-> 0]
           step == [x \in (0..N) \X Fills |->
                      IF x[1] = 0 THEN x[2] ELSE Walk(x[2], levels[x[1]])]
           Equation(g) == g = [k \in 0..N |-> IF k = 0 THEN start
                                              ELSE Walk(g[k - 1], levels[k])]
<1>1. ASSUME NEW fill \in Fills, NEW level \in Levels
      PROVE  Walk(fill, level) \in Fills
  <2>1. Take(fill, level) \in Nat /\ Take(fill, level) <= fill.remaining
    BY DEF Take, Lesser, Fills, Levels
  <2>2. Take(fill, level) * level.price \in Nat
    BY <2>1, ProductType DEF Levels
  <2> QED BY <2>1, <2>2 DEF Walk, Fills
<1>2. /\ N \in Nat /\ start \in Fills
      /\ \A k \in 1..N : levels[k] \in Levels
  BY DEF Fills
<1>3. step \in [(0..N) \X Fills -> Fills]
  <2>1. \A k \in 0..N : k # 0 => k \in 1..N
    BY <1>2
  <2> QED BY <1>1, <1>2, <2>1
<1> HIDE DEF N, start
<1>4. PICK f : Computed(f, 0, N, Fills, start, step)
  <2>1. 0 \in Nat /\ 0 <= N
    BY <1>2
  <2> HIDE DEF step
  <2> QED BY <1>2, <1>3, <2>1, RecursionExists
<1>5. \A k \in 1..N : f[k] = Walk(f[k - 1], levels[k])
  <2> SUFFICES ASSUME NEW k \in 1..N PROVE f[k] = Walk(f[k - 1], levels[k])
    OBVIOUS
  <2>1. k \in (0 + 1)..N /\ k \in 0..N /\ k - 1 \in 0..N /\ k # 0
    BY <1>2
  <2>2. <<k, f[k - 1]>> \in (0..N) \X Fills
    BY <1>4, <2>1 DEF Computed
  <2> QED BY <1>4, <2>1, <2>2 DEF Computed
<1>6. Equation(f)
  <2>1. \A k \in 0..N : f[k] = IF k = 0 THEN start ELSE Walk(f[k - 1], levels[k])
    BY <1>2, <1>4, <1>5 DEF Computed
  <2>2. f \in [0..N -> Fills]
    BY <1>4 DEF Computed
  <2>3. f = [k \in 0..N |-> f[k]]
    BY <2>2
  <2> QED BY <2>1, <2>3
<1>7. PICK g : Equation(g) /\ simulate_market_order(levels, qty) = g[N]
  <2>1. Equation(CHOOSE g : Equation(g))
    BY <1>6
  <2>2. simulate_market_order(levels, qty) = (CHOOSE g : Equation(g))[N]
    BY DEF simulate_market_order, N, start
  <2> QED BY <2>1, <2>2
<1>8. /\ \A k \in 0..N : g[k] = IF k = 0 THEN start ELSE Walk(g[k - 1], levels[k])
      /\ g = [k \in 0..N |-> g[k]]
  BY <1>7, Zenon
<1>9. \A k \in 0..N : g[k] \in Fills
  <2> DEFINE S == {k \in 0..N : g[k] \in Fills}
  <2>1. 0 \in S
    <3>1. 0 \in 0..N
      BY <1>2
    <3>2. g[0] = start
      BY <1>8, <3>1
    <3> QED BY <1>2, <3>1, <3>2
  <2>2. ASSUME NEW k \in (0 + 1)..N, k - 1 \in S PROVE k \in S
    <3>1. k \in 1..N /\ k \in 0..N /\ k # 0
      BY <1>2
    <3>2. g[k] = Walk(g[k - 1], levels[k]) /\ g[k - 1] \in Fills
      BY <1>8, <2>2, <3>1
    <3> QED BY <1>1, <1>2, <3>1, <3>2
  <2> HIDE DEF S
  <2>3. 0..N \subseteq S
    BY <1>2, <2>1, <2>2, IntervalInduction
  <2> QED BY <2>3 DEF S
<1>10. g \in [0..N -> Fills]
  BY <1>8, <1>9
<1>11. g[0] = start /\ \A k \in 1..N : g[k] = Walk(g[k - 1], levels[k])
  <2>1. 0 \in 0..N /\ \A k \in 1..N : k \in 0..N /\ k # 0
    BY <1>2
  <2> QED BY <1>8, <2>1, Zenon
<1> QED BY <1>7, <1>10, <1>11 DEF N, start

\* An order is filled at most, and what is not filled remains; the amount paid
\* is that of the quantity at some price between those of the levels.
LEMMA FillIsBounded ==
  ASSUME NEW levels \in Seq(Levels), NEW qty \in Nat, NEW price \in Nat
  PROVE  LET fill == simulate_market_order(levels, qty)
         IN  /\ fill.filled \in 0..qty /\ fill.notional \in Nat
             /\ (\A k \in 1..Len(levels) : levels[k].price >= price) =>
                  fill.notional >= fill.filled * price
             /\ (\A k \in 1..Len(levels) : levels[k].price <= price) =>
                  fill.notional <= fill.filled * price
<1> DEFINE N == Len(levels)
           Above == \A k \in 1..N : levels[k].price >= price
           Below == \A k \in 1..N : levels[k].price <= price
           Fair(fill) == /\ fill.remaining + fill.filled = qty
                         /\ Above => fill.notional >= fill.filled * price
                         /\ Below => fill.notional <= fill.filled * price
<1>1. PICK f \in [0..N -> Fills] :
        /\ f[0] = [remaining |-> qty, filled |-> 0, notional |-> 0]
        /\ \A k \in 1..N : f[k] = Walk(f[k - 1], levels[k])
        /\ simulate_market_order(levels, qty) = f[N]
  BY WalkExists
<1>2. N \in Nat
  OBVIOUS
<1>3. ASSUME NEW fill \in Fills, NEW k \in 1..N, Fair(fill)
      PROVE  Fair(Walk(fill, levels[k]))
  <2> DEFINE level == levels[k]
             n == Take(fill, level)
  <2>0. level \in Levels
    BY <1>2
  <2>1. level.price \in Nat /\ level.size \in Nat
    BY <2>0 DEF Levels
  <2>2. n \in Nat /\ n <= fill.remaining
    BY <2>1 DEF Take, Lesser, Fills
  <2>3. /\ Walk(fill, level).remaining = fill.remaining - n
        /\ Walk(fill, level).filled = fill.filled + n
        /\ Walk(fill, level).notional = fill.notional + n * level.price
    BY DEF Walk
  <2>4. fill.remaining \in Nat /\ fill.filled \in Nat /\ fill.notional \in Nat
    BY DEF Fills
  <2>5. (fill.filled + n) * price = fill.filled * price + n * price
    BY <2>2, <2>4
  <2>6. /\ n * level.price \in Nat /\ n * price \in Nat /\ fill.filled * price \in Nat
    BY <2>1, <2>2, <2>4, ProductType
  <2>7. Above => n * level.price >= n * price
    <3>1. Above => price <= level.price
      OBVIOUS
    <3>2. n \in Nat /\ level.price \in Int /\ price \in Int
      BY <2>1, <2>2
    <3> HIDE DEF n, level, Above, Below
    <3> SUFFICES ASSUME Above PROVE n * price <= n * level.price
      BY <2>6
    <3> QED BY <3>1, <3>2, ProductMonotone, Zenon
  <2>8. Below => n * level.price <= n * price
    <3>1. Below => level.price <= price
      OBVIOUS
    <3>2. n \in Nat /\ level.price \in Int /\ price \in Int
      BY <2>1, <2>2
    <3> HIDE DEF n, level, Above, Below
    <3> QED BY <3>1, <3>2, ProductMonotone, Zenon
  <2> HIDE DEF n, level, Above, Below
  <2>9. Walk(fill, level).remaining + Walk(fill, level).filled = qty
    BY <1>3, <2>2, <2>3, <2>4
  <2> DEFINE full == n * level.price
             fair == n * price
             paid == fill.filled * price
  <2>10. /\ full \in Nat /\ fair \in Nat /\ paid \in Nat
         /\ Walk(fill, level).notional = fill.notional + full
         /\ Walk(fill, level).filled * price = paid + fair
         /\ Above => fill.notional >= paid /\ full >= fair
         /\ Below => fill.notional <= paid /\ full <= fair
    BY <1>3, <2>3, <2>5, <2>6, <2>7, <2>8
  <2> HIDE DEF full, fair, paid
  <2>11. Above => Walk(fill, level).notional >= Walk(fill, level).filled * price
    BY <2>4, <2>10
  <2>12. Below => Walk(fill, level).notional <= Walk(fill, level).filled * price
    BY <2>4, <2>10
  <2> QED BY <2>9, <2>11, <2>12 DEF level
<1>4. Fair(f[N])
  <2> DEFINE S == {k \in 0..N : Fair(f[k])}
  <2>1. 0 \in S
    BY <1>1, <1>2
  <2>2. ASSUME NEW k \in (0 + 1)..N, k - 1 \in S PROVE k \in S
    <3>1. k \in 1..N /\ k \in 0..N /\ k - 1 \in 0..N /\ f[k - 1] \in Fills
      BY <1>1, <1>2
    <3>2. Fair(f[k - 1]) /\ f[k] = Walk(f[k - 1], levels[k])
      BY <1>1, <2>2, <3>1
    <3> HIDE DEF Fair
    <3> QED BY <1>3, <3>1, <3>2
  <2> HIDE DEF S
  <2>3. 0..N \subseteq S
    BY <1>2, <2>1, <2>2, IntervalInduction
  <2> QED BY <1>2, <2>3 DEF S
<1>5. f[N] \in Fills
  BY <1>1, <1>2
<1> QED BY <1>1, <1>4, <1>5 DEF Fills

------------------------------------------------------------------------------
(* Types.                                                                  *)

LEMMA StepType == Step \in Nat \ {0} /\ Overlap \in Nat /\ TestSize <= Step + Overlap
  BY EngineAssumption DEF Step, Overlap

\* Fold k is tested on TestSize bars, Step after those of the fold before.
LEMMA FoldType ==
  ASSUME NEW k \in Nat
  PROVE  /\ TestStart(k) \in Nat \ {0} /\ TestEnd(k) \in Nat
         /\ TestEnd(k) = TestStart(k) + TestSize
         /\ TestStart(k + 1) = TestStart(k) + Step
         /\ warmup_bars \in Nat
         /\ FirstBar(k) \in Nat /\ FirstBar(k) >= TestStart(k)
<1>1. TestSize \in Nat \ {0} /\ TrainSize \in Nat \ {0} /\ OtherWarmup \in Nat
  BY EngineAssumption
<1>2. Step \in Nat /\ k * Step \in Nat /\ (k + 1) * Step = k * Step + Step
  BY StepType, ProductType
<1>3. /\ TestStart(k) = k * Step + TrainSize
      /\ TestStart(k + 1) = (k + 1) * Step + TrainSize
      /\ TestEnd(k) = TestStart(k) + TestSize
  BY DEF TestStart, TestEnd
<1>4. warmup_bars \in Nat
  BY <1>1, StrategyAssumption DEF warmup_bars
<1>5. TestStart(k) \in Nat \ {0}
  BY <1>1, <1>2, <1>3
<1>6. FirstBar(k) \in Nat /\ FirstBar(k) >= TestStart(k)
  BY <1>4, <1>5 DEF FirstBar, Larger
<1> QED BY <1>1, <1>2, <1>3, <1>4, <1>5, <1>6

LEMMA MoneyType ==
  ASSUME NEW x \in Int
  PROVE  Money(x) \in Int /\ (x > 0 => Money(x) > 0)
<1>1. Bps \in Nat \ {0}
  BY BpsAssumption
<1>2. x * Bps \in Int /\ (x > 0 => x * Bps > 0)
  BY <1>1
<1>3. (x * Bps) * Bps \in Int /\ (x * Bps > 0 => (x * Bps) * Bps > 0)
  BY <1>1, <1>2
<1> QED BY <1>2, <1>3 DEF Money

LEMMA QuotientType ==
  ASSUME NEW x \in Int, NEW n \in Nat \ {0}
  PROVE  x \div n \in Int /\ (x >= 0 => x \div n >= 0)
  OBVIOUS

LEMMA WorthType ==
  ASSUME NEW amount \in Int, NEW held \in Int, NEW c \in Int
  PROVE  Worth(amount, held, c) \in Int
<1>1. held * c \in Int
  OBVIOUS
<1> QED BY <1>1, MoneyType DEF Worth

\* No fee is negative.
LEMMA FeeType ==
  ASSUME NEW notional \in Int
  PROVE  calculate_fee(notional, FeeBps) \in Nat
<1>1. Bps \in Nat \ {0} /\ FeeBps \in Nat
  BY BpsAssumption, EngineAssumption
<1>2. Magnitude(notional) \in Nat
  BY DEF Magnitude
<1>3. Magnitude(notional) * FeeBps \in Nat
  BY <1>1, <1>2, ProductType
<1> QED BY <1>1, <1>3, QuotientType DEF calculate_fee

LEMMA SignalType ==
  ASSUME NEW history, NEW s \in generate_signal(history)
  PROVE  s \in Signals
<1>1. \A x : Sign(x) \in Signals /\ -Sign(x) \in Signals
  <2>1. \A s1 \in Signals : -s1 \in Signals
    BY DEF Signals
  <2>2. \A x : Sign(x) \in Signals
    BY Zenon DEF Sign, Signals
  <2> QED BY <2>1, <2>2
<1>2. momentum(history) \in Signals
  BY <1>1 DEF momentum, Signals
<1>3. mean_reversion(history) \in Signals
  BY <1>1 DEF mean_reversion, Signals
<1> QED BY <1>2, <1>3 DEF generate_signal

LEMMA TargetType ==
  ASSUME NEW s \in Signals, NEW equity \in Int, NEW c \in Nat \ {0}
  PROVE  _target_position(s, equity, c) \in Int
<1>1. /\ PositionSize \in Nat /\ FractionNum \in Nat /\ FractionDen \in Nat \ {0}
  BY EngineAssumption
<1>2. s \in Int
  BY DEF Signals
<1>3. s * PositionSize \in Int
  BY <1>1, <1>2
<1>4. Money(c) \in Nat \ {0}
  BY MoneyType
<1>5. FractionDen * Money(c) \in Nat \ {0}
  BY <1>1, <1>4, ProductType
<1>6. equity * FractionNum \in Int
  BY <1>1
<1>7. (equity * FractionNum) \div (FractionDen * Money(c)) \in Int
  BY <1>5, <1>6, QuotientType
<1>8. s * ((equity * FractionNum) \div (FractionDen * Money(c))) \in Int
  BY <1>2, <1>7
<1> QED BY <1>3, <1>8 DEF _target_position, EquityTarget

------------------------------------------------------------------------------
(* One trade.                                                              *)

\* What holds of a book at close c when it is one of the time of the close.
FairAt(b, c) ==
  /\ \A k \in 1..Len(b.asks) : b.asks[k].price >= c
  /\ \A k \in 1..Len(b.bids) : b.bids[k].price <= c

\* An order moves the position towards its target and never beyond it; at a fair
\* book it costs no less than what it brings in is worth.
LEMMA OrderFill ==
  ASSUME NEW qty \in Int, qty # 0, NEW c \in Nat, NEW b \in Books
  PROVE  LET done == Executed(qty, c, b)
         IN  /\ done.filled \in Int /\ done.notional \in Int
             /\ qty > 0 => 0 <= done.filled /\ done.filled <= qty
             /\ qty < 0 => qty <= done.filled /\ done.filled <= 0
             /\ FairAt(b, c) => done.notional >= Money(done.filled * c)
<1> DEFINE done == Executed(qty, c, b)
           side == IF qty > 0 THEN b.asks ELSE b.bids
           walked == simulate_market_order(side, Magnitude(qty))
<1>1. Bps \in Nat \ {0} /\ SlippageBps \in 0..Bps
  BY BpsAssumption, EngineAssumption
<1>2. CASE b = NoBook
  <2>1. done = [filled |-> qty, notional |-> FallbackNotional(qty, c)]
    BY <1>2, Zenon DEF Executed
  <2>2. done.filled = qty /\ done.notional = FallbackNotional(qty, c)
    BY <2>1
  <2> DEFINE factor == Bps + Direction(qty) * SlippageBps
             worth == qty * c
  <2>3. factor \in Int /\ worth \in Int
    BY <1>1 DEF Direction
  <2>4. worth * factor \in Int /\ worth * Bps \in Int
    BY <1>1, <2>3
  <2>5. worth * factor >= worth * Bps
    <3>1. CASE qty > 0
      <4>1. worth \in Nat
        BY <3>1, ProductType
      <4>2. factor >= Bps
        BY <1>1, <3>1 DEF Direction
      <4> HIDE DEF worth, factor
      <4> QED BY <1>1, <2>3, <4>1, <4>2, ProductMonotone
    <3>2. CASE ~(qty > 0)
      <4>1. -worth \in Nat
        <5>1. -qty \in Nat
          BY <3>2
        <5>2. (-qty) * c \in Nat
          BY <5>1, ProductType
        <5>3. -(qty * c) = (-qty) * c
          OBVIOUS
        <5> QED BY <5>2, <5>3
      <4>2. factor <= Bps
        BY <1>1, <3>2 DEF Direction
      <4> HIDE DEF worth, factor
      <4>3. (-worth) * factor <= (-worth) * Bps
        BY <1>1, <2>3, <4>1, <4>2, ProductMonotone
      <4>4. (-worth) * factor = -(worth * factor) /\ (-worth) * Bps = -(worth * Bps)
        BY <1>1, <2>3
      <4> QED BY <2>4, <4>3, <4>4
    <3> QED BY <3>1, <3>2
  <2>6. FallbackNotional(qty, c) = (worth * factor) * Bps
    BY DEF FallbackNotional
  <2>7. Money(qty * c) = (worth * Bps) * Bps
    BY DEF Money
  <2>8. (worth * factor) * Bps >= (worth * Bps) * Bps
    <3> HIDE DEF worth, factor
    <3> QED BY <1>1, <2>4, <2>5, ProductMonotone
  <2>9. (worth * factor) * Bps \in Int
    <3> HIDE DEF worth, factor
    <3> QED BY <1>1, <2>4
  <2> HIDE DEF done, worth, factor
  <2>10. done.filled = qty /\ done.notional \in Int
    BY <2>2, <2>6, <2>9
  <2>11. done.notional >= Money(done.filled * c)
    BY <2>2, <2>6, <2>7, <2>8
  <2> QED BY <2>10, <2>11 DEF done
<1>3. CASE b # NoBook
  <2>1. done = [filled |-> Direction(qty) * walked.filled,
                notional |-> Direction(qty) * Money(walked.notional)]
    BY <1>3, Zenon DEF Executed
  <2>2. /\ done.filled = Direction(qty) * walked.filled
        /\ done.notional = Direction(qty) * Money(walked.notional)
    BY <2>1
  <2>3. side \in Seq(Levels) /\ Magnitude(qty) \in Nat
    BY DEF Books, Magnitude
  <2>4. /\ walked.filled \in 0..Magnitude(qty) /\ walked.notional \in Nat
        /\ (\A k \in 1..Len(side) : side[k].price >= c) =>
             walked.notional >= walked.filled * c
        /\ (\A k \in 1..Len(side) : side[k].price <= c) =>
             walked.notional <= walked.filled * c
    <3> HIDE DEF side
    <3> QED BY <2>3, FillIsBounded
  <2>5. walked.filled * c \in Nat
    BY <2>4, ProductType
  <2>6. Money(walked.notional) \in Int /\ Money(walked.filled * c) \in Int
    <3> HIDE DEF walked
    <3>1. walked.notional \in Int /\ walked.filled * c \in Int
      BY <2>4, <2>5
    <3> QED BY <3>1, MoneyType
  <2>7. \A x, y \in Int : x <= y => Money(x) <= Money(y)
    <3>1. \A x, y \in Int : x <= y => x * Bps <= y * Bps /\ x * Bps \in Int
      BY <1>1, ProductMonotone
    <3>2. \A x, y \in Int : x <= y => (x * Bps) * Bps <= (y * Bps) * Bps
      BY <1>1, <3>1, ProductMonotone
    <3> QED BY <3>2 DEF Money
  <2>8. CASE qty > 0
    <3>1. Direction(qty) = 1 /\ Magnitude(qty) = qty
      BY <2>8 DEF Direction, Magnitude
    <3>2. FairAt(b, c) => walked.notional >= walked.filled * c
      BY <2>4, <2>8 DEF FairAt
    <3> HIDE DEF done, walked
    <3>3. done.filled = walked.filled /\ done.notional = Money(walked.notional)
      BY <2>2, <2>4, <2>6, <3>1
    <3> QED BY <2>4, <2>5, <2>6, <2>7, <2>8, <3>1, <3>2, <3>3 DEF done
  <2>9. CASE qty < 0
    <3>1. Direction(qty) = -1 /\ Magnitude(qty) = -qty
      BY <2>9 DEF Direction, Magnitude
    <3>2. FairAt(b, c) => walked.notional <= walked.filled * c
      BY <2>4, <2>9 DEF FairAt
    <3> HIDE DEF done, walked
    <3>3. done.filled = -walked.filled /\ done.notional = -Money(walked.notional)
      BY <2>2, <2>4, <2>6, <3>1
    <3>4. Money(done.filled * c) = -Money(walked.filled * c)
      BY <1>1, <2>4, <3>3 DEF Money
    <3>5. done.filled \in Int /\ qty <= done.filled /\ done.filled <= 0
      BY <2>4, <2>9, <3>1, <3>3
    <3>6. FairAt(b, c) => Money(walked.notional) <= Money(walked.filled * c)
      BY <2>4, <2>5, <2>7, <3>2
    <3>7. FairAt(b, c) => done.notional >= Money(done.filled * c)
      BY <2>6, <3>3, <3>4, <3>6
    <3>8. done.notional \in Int
      BY <2>6, <3>3
    <3> QED BY <2>9, <3>5, <3>7, <3>8 DEF done
  <2> QED BY <2>8, <2>9
<1> QED BY <1>2, <1>3

------------------------------------------------------------------------------
(* The inductive invariant. *)

\* The next bar has been preceded, in its fold, by those of the curve and, in
\* others, by bars of which only those of the overlap may come again.
OrderInv ==
  /\ bar < TestEnd(fold)
  /\ IF curve = <<>> THEN bar < next + Overlap ELSE bar < next
  /\ next = FirstBar(fold) + Len(curve)

TypeInv == TypeOK /\ OrderInv

\* The books are of the time of the decision, with no bid above the close of the
\* bar and no ask below it.
FairBooks ==
  /\ BookAge = 0
  /\ \A c \in Closes : \A b \in BooksAt[c] : FairAt(b, c)

LEMMA BookType ==
  ASSUME TypeInv, IsFold(fold), next < TestEnd(fold)
  PROVE  /\ next \in Nat \ {0} /\ next \in 0..(NBars - 1)
         /\ closes[next] \in Nat \ {0}
         /\ order_book_provider(next) \subseteq Books
         /\ FairBooks => \A b \in order_book_provider(next) : FairAt(b, closes[next])
<1>1. /\ TestStart(fold) \in Nat \ {0} /\ TestEnd(fold) \in Nat
      /\ FirstBar(fold) \in Nat /\ FirstBar(fold) >= TestStart(fold)
  BY FoldType DEF TypeInv, TypeOK
<1>2. /\ NBars \in Nat /\ TestEnd(fold) <= NBars
      /\ Closes \subseteq Nat \ {0} /\ BookAge \in {0, 1}
      /\ \A c \in Closes : BooksAt[c] \subseteq Books
  BY EngineAssumption DEF IsFold
<1>3. next \in Nat \ {0} /\ next \in 0..(NBars - 1)
  <2>1. Len(curve) \in Nat /\ next \in Nat /\ next = FirstBar(fold) + Len(curve)
    BY DEF TypeInv, TypeOK, OrderInv
  <2> QED BY <1>1, <1>2, <2>1
<1>4. next - BookAge \in 0..(NBars - 1)
  BY <1>2, <1>3
<1>5. closes[next] \in Closes /\ closes[next - BookAge] \in Closes
  BY <1>3, <1>4 DEF TypeInv, TypeOK
<1>6. NoBook \in Books /\ Len(NoBook.asks) = 0 /\ Len(NoBook.bids) = 0
  BY DEF NoBook, Books
<1>7. order_book_provider(next) \subseteq Books
  BY <1>2, <1>5, <1>6 DEF order_book_provider
<1>8. ASSUME FairBooks, NEW b \in order_book_provider(next)
      PROVE  FairAt(b, closes[next])
  <2>1. CASE b = NoBook
    BY <1>6, <2>1 DEF FairAt
  <2>2. CASE b # NoBook
    <3>1. next - BookAge = next
      BY <1>3, <1>8 DEF FairBooks
    <3>2. b \in BooksAt[closes[next]]
      BY <1>8, <2>2, <3>1, Zenon DEF order_book_provider
    <3> QED BY <1>5, <1>8, <3>2, Zenon DEF FairBooks
  <2> QED BY <2>1, <2>2
<1> QED BY <1>2, <1>3, <1>5, <1>7, <1>8

\* What a bar does to the account.
LEMMA DecideBarIs ==
  ASSUME TypeInv, DecideBar
  PROVE  LET c == closes[next]
             target == _target_position(signal', Worth(cash, position, c), c)
         IN  /\ signal' \in Signals /\ target \in Int
             /\ cash' \in Int /\ position' \in Int /\ shortfalls' \in Nat
             /\ position <= target => position <= position' /\ position' <= target
             /\ position >= target => position >= position' /\ position' >= target
             /\ shortfalls' = shortfalls + 1 <=> position' # target
             /\ FairBooks => Worth(cash', position', c) <= Worth(cash, position, c)
<1> DEFINE c == closes[next]
           target == _target_position(signal', Worth(cash, position, c), c)
           qty == target - position
<1>1. /\ c \in Nat \ {0} /\ order_book_provider(next) \subseteq Books
      /\ FairBooks => \A b \in order_book_provider(next) : FairAt(b, c)
  BY BookType DEF DecideBar
<1>2. cash \in Int /\ position \in Int /\ shortfalls \in Nat
  BY DEF TypeInv, TypeOK
<1>3. signal' \in Signals
  BY SignalType DEF DecideBar
<1>4. target \in Int /\ qty \in Int
  <2> HIDE DEF c
  <2>1. Worth(cash, position, c) \in Int
    BY <1>1, <1>2, WorthType
  <2> QED BY <1>1, <1>2, <1>3, <2>1, TargetType
<1>5. IF qty = 0 THEN UNCHANGED <<cash, position, shortfalls>>
      ELSE \E b \in order_book_provider(next) : Trade(qty, c, b)
  BY Zenon DEF DecideBar
<1>6. CASE qty = 0
  <2>1. cash' = cash /\ position' = position /\ shortfalls' = shortfalls
    BY <1>5, <1>6
  <2>2. position = target
    <3> HIDE DEF target
    <3> QED BY <1>2, <1>4, <1>6
  <2>3. Worth(cash, position, c) \in Int
    <3> HIDE DEF c
    <3> QED BY <1>1, <1>2, WorthType
  <2>4. Worth(cash', position', c) <= Worth(cash, position, c)
    BY <2>1, <2>3
  <2> HIDE DEF target, c
  <2>5. (shortfalls' = shortfalls + 1) <=> (position' # target)
    BY <1>2, <2>1, <2>2
  <2>6. /\ cash' \in Int /\ position' \in Int /\ shortfalls' \in Nat
        /\ position <= position' /\ position' <= target
        /\ position >= position' /\ position' >= target
    BY <1>2, <2>1, <2>2
  <2> QED BY <1>3, <1>4, <2>4, <2>5, <2>6 DEF target, c
<1>7. CASE qty # 0
  <2>1. PICK b \in order_book_provider(next) : Trade(qty, c, b)
    BY <1>5, <1>7
  <2> DEFINE done == Executed(qty, c, b)
             fee == calculate_fee(done.notional, FeeBps)
  <2>2. /\ cash' = cash - done.notional - fee
        /\ position' = position + done.filled
        /\ shortfalls' = shortfalls + (IF done.filled # qty THEN 1 ELSE 0)
    BY <2>1, Zenon DEF Trade, Short
  <2>3. b \in Books /\ (FairBooks => FairAt(b, c))
    BY <1>1
  <2>4. /\ done.filled \in Int /\ done.notional \in Int
        /\ qty > 0 => 0 <= done.filled /\ done.filled <= qty
        /\ qty < 0 => qty <= done.filled /\ done.filled <= 0
        /\ FairAt(b, c) => done.notional >= Money(done.filled * c)
    <3> HIDE DEF c, qty
    <3> QED BY <1>1, <1>4, <1>7, <2>3, OrderFill
  <2>5. fee \in Nat
    <3> HIDE DEF done
    <3> QED BY <2>4, FeeType
  <2>6. FairBooks => Worth(cash', position', c) <= Worth(cash, position, c)
    <3> HIDE DEF c, done, fee
    <3>1. /\ position * c \in Int /\ done.filled * c \in Int
          /\ (position + done.filled) * c = position * c + done.filled * c
      BY <1>1, <1>2, <2>4
    <3>2. \A x, y \in Int : Money(x + y) = Money(x) + Money(y)
      BY BpsAssumption DEF Money
    <3>3. Money(position * c) \in Int /\ Money(done.filled * c) \in Int
      BY <3>1, MoneyType
    <3>4. Money((position + done.filled) * c)
            = Money(position * c) + Money(done.filled * c)
      BY <3>1, <3>2
    <3>5. Worth(cash', position', c)
            = (cash - done.notional - fee)
                + (Money(position * c) + Money(done.filled * c))
      BY <2>2, <3>4 DEF Worth
    <3>6. Worth(cash, position, c) = cash + Money(position * c)
      BY DEF Worth
    <3> QED BY <1>2, <2>3, <2>4, <2>5, <3>3, <3>5, <3>6
  <2> HIDE DEF c, target, done, fee
  <2>7. cash' \in Int /\ position' \in Int /\ shortfalls' \in Nat
    BY <1>2, <2>2, <2>4, <2>5
  <2>8. /\ position <= target => position <= position' /\ position' <= target
        /\ position >= target => position >= position' /\ position' >= target
    BY <1>2, <1>4, <1>7, <2>2, <2>4
  <2>9. (shortfalls' = shortfalls + 1) <=> (position' # target)
    <3>1. (shortfalls' = shortfalls + 1) <=> (done.filled # qty)
      BY <1>2, <2>2
    <3>2. (done.filled = qty) <=> (position' = target)
      <4>1. done.filled \in Int /\ target \in Int /\ position \in Int
        BY <1>2, <1>4, <2>4
      <4>2. \A x, y, z \in Int : x = y - z <=> z + x = y
        OBVIOUS
      <4>3. (done.filled = target - position) <=> (position + done.filled = target)
        BY <4>1, <4>2
      <4> QED BY <2>2, <4>3
    <3> QED BY <3>1, <3>2
  <2> QED BY <1>3, <1>4, <2>6, <2>7, <2>8, <2>9 DEF target, c
<1> QED BY <1>6, <1>7

LEMMA TypeInit == Init => TypeInv
<1> SUFFICES ASSUME Init PROVE TypeInv
  OBVIOUS
<1>1. /\ TestStart(0) \in Nat \ {0} /\ TestEnd(0) \in Nat
      /\ TestEnd(0) = TestStart(0) + TestSize
      /\ FirstBar(0) \in Nat /\ FirstBar(0) >= TestStart(0)
  BY FoldType
<1>2. NBars \in Nat /\ TestSize \in Nat \ {0} /\ InitialCash \in Int
  BY EngineAssumption
<1>3. Money(InitialCash) \in Int
  BY <1>2, MoneyType
<1>4. curve \in Seq(Int) /\ Len(curve) = 0
  BY DEF Init
<1>5. signal \in Signals
  BY DEF Init, Signals
<1>6. TypeOK
  BY <1>1, <1>2, <1>3, <1>4, <1>5 DEF Init, TypeOK
<1>7. OrderInv
  BY <1>1, <1>2, <1>4, StepType DEF Init, OrderInv
<1> QED BY <1>6, <1>7 DEF TypeInv

LEMMA DecideBarType == TypeInv /\ DecideBar => TypeInv'
<1> SUFFICES ASSUME TypeInv, DecideBar PROVE TypeInv'
  OBVIOUS
<1> DEFINE c == closes[next]
           equity == Worth(cash', position', c)
<1>1. /\ c \in Nat \ {0} /\ next \in Nat /\ next \in 0..(NBars - 1)
  BY BookType DEF DecideBar
<1>2. /\ signal' \in Signals /\ cash' \in Int /\ position' \in Int /\ shortfalls' \in Nat
  BY DecideBarIs
<1>3. equity \in Int
  <2> HIDE DEF c
  <2> QED BY <1>1, <1>2, WorthType
<1>4. curve \in Seq(Int) /\ curve' = Append(curve, equity)
  BY DEF DecideBar, TypeInv, TypeOK
<1>5. curve' \in Seq(Int) /\ Len(curve') = Len(curve) + 1 /\ Len(curve) \in Nat
  <2> HIDE DEF equity
  <2> QED BY <1>3, <1>4
<1>6. /\ closes' = closes /\ strategy' = strategy /\ sizing_mode' = sizing_mode
      /\ fold' = fold /\ bar' = next /\ next' = next + 1 /\ next < TestEnd(fold)
  BY DEF DecideBar, setup
<1>7. TestEnd(fold)' = TestEnd(fold) /\ FirstBar(fold)' = FirstBar(fold)
  BY <1>6 DEF TestEnd, TestStart, FirstBar, Larger, warmup_bars
<1>8. /\ TestStart(fold) \in Nat /\ TestEnd(fold) \in Nat
      /\ TestEnd(fold) = TestStart(fold) + TestSize
      /\ FirstBar(fold) \in Nat /\ FirstBar(fold) >= TestStart(fold)
  BY FoldType DEF TypeInv, TypeOK
<1>9. TestSize \in Nat /\ next = FirstBar(fold) + Len(curve)
  BY EngineAssumption DEF TypeInv, OrderInv
<1>10. next' = FirstBar(fold) + Len(curve') /\ Len(curve') <= TestSize
  <2> HIDE DEF c, equity
  <2>1. next' = next + 1 /\ next < TestEnd(fold) /\ next \in Nat
    BY <1>1, <1>6
  <2>2. next' = FirstBar(fold) + Len(curve')
    BY <1>5, <1>8, <1>9, <2>1
  <2>3. FirstBar(fold) + Len(curve) < FirstBar(fold) + TestSize
    BY <1>5, <1>8, <1>9, <2>1
  <2>4. Len(curve) < TestSize
    BY <1>5, <1>8, <1>9, <2>3
  <2> QED BY <1>5, <1>9, <2>2, <2>4
<1>11. OrderInv'
  <2>1. bar' < next' /\ bar' < TestEnd(fold)
    BY <1>1, <1>6
  <2>2. curve' # <<>>
    BY <1>5
  <2> QED BY <1>7, <1>10, <2>1, <2>2 DEF OrderInv
<1> HIDE DEF c, equity
<1>12. next' \in Nat /\ bar' \in -1..(NBars - 1)
  BY <1>1, <1>6
<1>13. TypeOK'
  BY <1>2, <1>5, <1>6, <1>10, <1>12 DEF TypeInv, TypeOK
<1> QED BY <1>11, <1>13 DEF TypeInv

LEMMA NextFoldType == TypeInv /\ NextFold => TypeInv'
<1> SUFFICES ASSUME TypeInv, NextFold PROVE TypeInv'
  OBVIOUS
<1>1. /\ closes' = closes /\ strategy' = strategy /\ sizing_mode' = sizing_mode
      /\ fold' = fold + 1 /\ bar' = bar /\ signal' = signal /\ curve' = <<>>
      /\ cash' = Money(InitialCash) /\ position' = 0 /\ shortfalls' = 0
      /\ next' = FirstBar(fold + 1)
  BY DEF NextFold, setup
<1>2. fold \in Nat /\ fold + 1 \in Nat
  BY DEF TypeInv, TypeOK
<1>3. /\ TestStart(fold) \in Nat /\ TestEnd(fold) = TestStart(fold) + TestSize
      /\ TestStart(fold + 1) = TestStart(fold) + Step
  BY <1>2, FoldType
<1>4. /\ TestEnd(fold + 1) \in Nat /\ TestEnd(fold + 1) = TestStart(fold + 1) + TestSize
      /\ FirstBar(fold + 1) \in Nat /\ FirstBar(fold + 1) >= TestStart(fold + 1)
  BY <1>2, FoldType
<1>5. TestSize \in Nat /\ InitialCash \in Int
  BY EngineAssumption
<1>6. Money(InitialCash) \in Int
  BY <1>5, MoneyType
<1>7. curve' \in Seq(Int) /\ Len(curve') = 0
  BY <1>1
<1>8. bar \in Int /\ bar < TestEnd(fold)
  BY EngineAssumption DEF TypeInv, TypeOK, OrderInv
<1>9. TestEnd(fold)' = TestEnd(fold + 1) /\ FirstBar(fold)' = FirstBar(fold + 1)
  BY <1>1 DEF TestEnd, TestStart, FirstBar, Larger, warmup_bars
<1>10. OrderInv'
  <2>1. Step \in Nat /\ Overlap \in Nat /\ TestSize <= Step + Overlap
    BY StepType
  <2>2. bar < TestEnd(fold + 1) /\ bar < FirstBar(fold + 1) + Overlap
    BY <1>3, <1>4, <1>5, <1>8, <2>1
  <2>3. Overlap' = Overlap
    BY DEF Overlap
  <2>4. FirstBar(fold + 1) = FirstBar(fold + 1) + Len(curve')
    BY <1>4, <1>7
  <2> QED BY <1>1, <1>9, <2>2, <2>3, <2>4 DEF OrderInv
<1>11. TypeOK'
  BY <1>1, <1>2, <1>4, <1>5, <1>6, <1>7 DEF TypeInv, TypeOK
<1> QED BY <1>10, <1>11 DEF TypeInv

LEMMA TypeStep == TypeInv /\ [Next]_vars => TypeInv'
<1> SUFFICES ASSUME TypeInv, [Next]_vars PROVE TypeInv'
  OBVIOUS
<1>1. CASE DecideBar
  BY <1>1, DecideBarType
<1>2. CASE NextFold
  BY <1>2, NextFoldType
<1>3. CASE UNCHANGED vars
  <2>1. /\ closes' = closes /\ strategy' = strategy /\ sizing_mode' = sizing_mode
        /\ fold' = fold /\ bar' = bar /\ next' = next /\ cash' = cash
        /\ position' = position /\ shortfalls' = shortfalls /\ signal' = signal
        /\ curve' = curve
    BY <1>3 DEF vars, setup
  <2>2. TypeOK'
    BY <2>1 DEF TypeInv, TypeOK
  <2>3. OrderInv'
    BY <2>1 DEF TypeInv, Overlap, OrderInv, TestEnd, TestStart, FirstBar, Larger, warmup_bars
  <2> QED BY <2>2, <2>3 DEF TypeInv
<1> QED BY <1>1, <1>2, <1>3 DEF Next

\* Every state a backtest reaches has the types of its program: no price is missing
\* for a bar it decides, no level for an order, and a curve has at most the bars of
\* its test window.
THEOREM TypeCorrect == Spec => []TypeOK
<1>1. TypeInv => TypeOK
  BY DEF TypeInv
<1> QED BY <1>1, TypeInit, TypeStep, PTL DEF Spec

------------------------------------------------------------------------------
(* The properties. *)

\* In a fold no bar is decided twice, or after a later one.  A new fold decides none
\* again either if the step is the default or any from the size of the test window
\* up; of a smaller step it is the overlap of the windows at most.
THEOREM NoBarTwice == Spec => BarsOnlyMoveForward
<1>1. TypeInv /\ [Next]_vars =>
        [DecideBar => IF curve = <<>> THEN bar' + Overlap > bar ELSE bar' > bar]_vars
  <2> SUFFICES ASSUME TypeInv, DecideBar
               PROVE  IF curve = <<>> THEN bar' + Overlap > bar ELSE bar' > bar
    OBVIOUS
  <2>1. bar \in Int /\ next \in Int /\ bar' = next /\ Overlap \in Int
    BY EngineAssumption, StepType DEF TypeInv, TypeOK, DecideBar
  <2>2. IF curve = <<>> THEN bar < next + Overlap ELSE bar < next
    BY DEF TypeInv, OrderInv
  <2> QED BY <2>1, <2>2
<1> QED BY <1>1, TypeInit, TypeStep, PTL DEF Spec, BarsOnlyMoveForward

\* With fixed_units the position stays within its size, whatever is left unfilled.
THEOREM ExposureStaysBounded == Spec => []ExposureIsBounded
<1>1. Init => ExposureIsBounded
  BY EngineAssumption DEF Init, ExposureIsBounded, Magnitude
<1>2. TypeInv /\ ExposureIsBounded /\ [Next]_vars => ExposureIsBounded'
  <2> SUFFICES ASSUME TypeInv, ExposureIsBounded, [Next]_vars, sizing_mode' = "fixed_units"
               PROVE  Magnitude(position') <= PositionSize
    BY DEF ExposureIsBounded
  <2>0. PositionSize \in Nat /\ position \in Int
    BY EngineAssumption DEF TypeInv, TypeOK
  <2>1. sizing_mode = "fixed_units" /\ Magnitude(position) <= PositionSize
    BY DEF Next, DecideBar, NextFold, vars, setup, ExposureIsBounded
  <2>2. CASE DecideBar
    <3> DEFINE target == signal' * PositionSize
    <3>1. /\ signal' \in Signals /\ position' \in Int
          /\ position <= target => position <= position' /\ position' <= target
          /\ position >= target => position >= position' /\ position' >= target
      BY <2>1, <2>2, DecideBarIs DEF _target_position
    <3>2. target \in Int /\ Magnitude(target) <= PositionSize
      BY <2>0, <3>1, SignedSize
    <3> HIDE DEF target
    <3> QED BY <2>0, <2>1, <3>1, <3>2, MoveIsBounded
  <2>3. CASE NextFold
    BY <2>0, <2>3 DEF NextFold, Magnitude
  <2>4. CASE UNCHANGED vars
    BY <2>1, <2>4 DEF vars
  <2> QED BY <2>2, <2>3, <2>4 DEF Next
<1> QED BY <1>1, <1>2, TypeInit, TypeStep, PTL DEF Spec

\* A position that missed its target is counted as a shortfall, and nothing else is.
THEOREM ShortfallsAreTold == Spec => ShortfallsAreCounted
<1> DEFINE Told == LET c == closes[next]
                       target == _target_position(signal', Worth(cash, position, c), c)
                   IN  shortfalls' = shortfalls + 1 <=> position' # target
<1>1. TypeInv /\ [Next]_vars => [DecideBar => Told]_vars
  BY DecideBarIs
<1> QED BY <1>1, TypeInit, TypeStep, PTL DEF Spec, ShortfallsAreCounted

\* A blown account moves towards flat, and not past it, at any book.
THEOREM BlownAccountUnwinds == Spec => BlownAccountOnlyUnwinds
<1> DEFINE Blown == DecideBar /\ sizing_mode = "equity_fraction"
                      /\ Worth(cash, position, closes[next]) <= 0
           Unwinds == /\ Magnitude(position') <= Magnitude(position)
                      /\ position' * position >= 0
<1>1. ASSUME TypeInv, Blown PROVE Unwinds
  <2>1. _target_position(signal', Worth(cash, position, closes[next]), closes[next]) = 0
    BY <1>1, Zenon DEF _target_position, EquityTarget
  <2>2. /\ position' \in Int
        /\ position <= 0 => position <= position' /\ position' <= 0
        /\ position >= 0 => position >= position' /\ position' >= 0
    BY <1>1, <2>1, DecideBarIs
  <2>3. position \in Int
    BY <1>1 DEF TypeInv, TypeOK
  <2> QED BY <2>2, <2>3, MoveToZero
<1>2. TypeInv /\ [Next]_vars => [Blown => Unwinds]_vars
  BY <1>1
<1> QED BY <1>2, TypeInit, TypeStep, PTL DEF Spec, BlownAccountOnlyUnwinds

\* At books of the time of the decision, with bids below the close and asks above
\* it, no trade is worth more than it costs, fee and slippage included.
THEOREM TradingCosts == FairBooks => (Spec => TradingOnlyCosts)
<1> DEFINE Costs == Worth(cash', position', closes[next])
                      <= Worth(cash, position, closes[next])
<1> SUFFICES ASSUME FairBooks PROVE Spec => TradingOnlyCosts
  OBVIOUS
<1>1. TypeInv /\ [Next]_vars => [DecideBar => Costs]_vars
  BY DecideBarIs
<1> QED BY <1>1, TypeInit, TypeStep, PTL DEF Spec, TradingOnlyCosts

------------------------------------------------------------------------------
(* The drawdown of an equity curve. *)

\* Fractions of positive denominator are ordered.
LEMMA LessIsOrder ==
  ASSUME NEW a \in Int, NEW b \in Nat \ {0}, NEW c \in Int, NEW d \in Nat \ {0},
         NEW e \in Int, NEW f \in Nat \ {0}, a * d <= c * b, c * f <= e * d
  PROVE  a * f <= e * b
<1>1. (a * d) * f <= (c * b) * f /\ (c * f) * b <= (e * d) * b
  <2>1. a * d \in Int /\ c * b \in Int /\ c * f \in Int /\ e * d \in Int
    OBVIOUS
  <2> QED BY <2>1, ProductMonotone
<1>2. (a * d) * f = (a * f) * d /\ (c * b) * f = (c * f) * b /\ (e * d) * b = (e * b) * d
  OBVIOUS
<1>3. /\ (a * d) * f \in Int /\ (c * b) * f \in Int /\ (e * d) * b \in Int
      /\ a * f \in Int /\ e * b \in Int
  OBVIOUS
<1>4. (a * f) * d <= (e * b) * d
  BY <1>1, <1>2, <1>3
<1> QED BY <1>3, <1>4, ProductCancels

Fractions == [num : Int, den : Nat \ {0}]

AtMost(f, g) == f.num * g.den <= g.num * f.den

LEMMA AtMostOrders ==
  ASSUME NEW f \in Fractions, NEW g \in Fractions
  PROVE  /\ AtMost(f, f) /\ (AtMost(f, g) <=> ~Less(g, f))
         /\ (Less(f, g) => AtMost(f, g))
         /\ \A h \in Fractions : AtMost(f, g) /\ AtMost(g, h) => AtMost(f, h)
<1>1. /\ f.num \in Int /\ f.den \in Nat \ {0} /\ g.num \in Int /\ g.den \in Nat \ {0}
  BY DEF Fractions
<1>2. f.num * g.den \in Int /\ g.num * f.den \in Int /\ f.num * f.den \in Int
  BY <1>1
<1>3. ASSUME NEW h \in Fractions, AtMost(f, g), AtMost(g, h) PROVE AtMost(f, h)
  <2>1. h.num \in Int /\ h.den \in Nat \ {0}
    BY DEF Fractions
  <2> QED BY <1>1, <1>3, <2>1, LessIsOrder DEF AtMost
<1> QED BY <1>2, <1>3 DEF AtMost, Less

\* The return since a lower point is the higher one.
LEMMA ReturnFalls ==
  ASSUME NEW x \in Nat \ {0}, NEW y \in Nat \ {0}, NEW z \in Nat \ {0}, y <= z
  PROVE  Change(x, y) \in Fractions /\ AtMost(Change(x, z), Change(x, y))
<1>1. (x - z) * y = x * y - z * y /\ (x - y) * z = x * z - y * z
  OBVIOUS
<1>2. x * y <= x * z /\ z * y = y * z
  BY ProductMonotone
<1>3. x * y \in Int /\ x * z \in Int /\ y * z \in Int /\ z * y \in Int
  OBVIOUS
<1>4. (x - z) * y <= (x - y) * z
  BY <1>1, <1>2, <1>3
<1>5. /\ Change(x, z).num = x - z /\ Change(x, z).den = z
      /\ Change(x, y).num = x - y /\ Change(x, y).den = y
  BY DEF Change
<1>6. Change(x, y) \in Fractions
  BY DEF Change, Fractions
<1> QED BY <1>4, <1>5, <1>6 DEF AtMost

\* One iteration of max_drawdown.
Decline(s, equity) ==
  LET peak == Peak(s.peak, equity)
      drop == Change(equity, peak)
  IN  [peak |-> peak, worst |-> IF Less(drop, s.worst) THEN drop ELSE s.worst]

Declines == [peak : Nat \ {0}, worst : Fractions]

\* The curves of an account that is never blown.
Curves ==
  {values \in Seq(Int) : Len(values) >= 2 /\ \A i \in 1..Len(values) : values[i] > 0}

LEMMA DeclineType ==
  ASSUME NEW s \in Declines, NEW equity \in Nat \ {0}
  PROVE  /\ Decline(s, equity) \in Declines
         /\ Decline(s, equity).peak = Peak(s.peak, equity)
         /\ LET drop == Change(equity, Peak(s.peak, equity))
            IN  /\ drop \in Fractions
                /\ Decline(s, equity).worst = IF Less(drop, s.worst) THEN drop ELSE s.worst
<1> DEFINE peak == Peak(s.peak, equity)
           drop == Change(equity, peak)
<1>1. s.peak \in Nat \ {0} /\ s.worst \in Fractions
  BY DEF Declines
<1>2. peak \in Nat \ {0}
  BY <1>1 DEF Peak
<1>3. drop \in Fractions
  <2> HIDE DEF peak
  <2> QED BY <1>2 DEF Change, Fractions
<1>4. Decline(s, equity) = [peak |-> peak,
                              worst |-> IF Less(drop, s.worst) THEN drop ELSE s.worst]
  BY DEF Decline
<1> HIDE DEF drop, peak
<1>5. /\ Decline(s, equity).peak = peak
      /\ Decline(s, equity).worst = IF Less(drop, s.worst) THEN drop ELSE s.worst
  BY <1>4
<1>6. Decline(s, equity) \in Declines
  BY <1>1, <1>2, <1>3, <1>4 DEF Declines
<1> QED BY <1>3, <1>5, <1>6 DEF drop, peak

\* The peaks and the declines at each bar.
LEMMA DrawdownExists ==
  ASSUME NEW values \in Curves
  PROVE  \E f \in [1..Len(values) -> Declines] :
           /\ f[1] = [peak |-> values[1], worst |-> Zero]
           /\ \A k \in 2..Len(values) : f[k] = Decline(f[k - 1], values[k])
           /\ max_drawdown(values) = f[Len(values)].worst
<1> DEFINE N == Len(values)
           start == [peak |-> values[1], worst |-> Zero]
           step == [x \in (1..N) \X Declines |-> Decline(x[2], values[x[1]])]
           Equation(g) == g = [k \in 1..N |-> IF k = 1 THEN start
                                              ELSE Decline(g[k - 1], values[k])]
<1>1. N \in Nat /\ N >= 2 /\ \A k \in 1..N : values[k] \in Nat \ {0}
  BY DEF Curves
<1>2. start \in Declines
  BY <1>1 DEF Declines, Fractions, Zero
<1>3. step \in [(1..N) \X Declines -> Declines]
  BY <1>1, DeclineType
<1> HIDE DEF N, start
<1>4. PICK f : Computed(f, 1, N, Declines, start, step)
  <2>1. 1 \in Nat /\ 1 <= N
    BY <1>1
  <2> HIDE DEF step
  <2> QED BY <1>1, <1>2, <1>3, <2>1, RecursionExists
<1>5. \A k \in 2..N : f[k] = Decline(f[k - 1], values[k])
  <2> SUFFICES ASSUME NEW k \in 2..N PROVE f[k] = Decline(f[k - 1], values[k])
    OBVIOUS
  <2>1. k \in (1 + 1)..N /\ k \in 1..N /\ k - 1 \in 1..N
    BY <1>1
  <2>2. <<k, f[k - 1]>> \in (1..N) \X Declines
    BY <1>4, <2>1 DEF Computed
  <2> QED BY <1>4, <2>1, <2>2 DEF Computed
<1>6. Equation(f)
  <2>1. \A k \in 1..N : f[k] = IF k = 1 THEN start ELSE Decline(f[k - 1], values[k])
    BY <1>1, <1>4, <1>5 DEF Computed
  <2>2. f \in [1..N -> Declines]
    BY <1>4 DEF Computed
  <2>3. f = [k \in 1..N |-> f[k]]
    BY <2>2
  <2> QED BY <2>1, <2>3
<1>7. PICK g : Equation(g) /\ max_drawdown(values) = g[N].worst
  <2>1. Equation(CHOOSE g : Equation(g))
    BY <1>6
  <2>2. ~(Len(values) < 2)
    BY <1>1 DEF N
  <2>3. max_drawdown(values) = (CHOOSE g : Equation(g))[N].worst
    BY <2>2, Zenon DEF max_drawdown, N, start, Decline
  <2> QED BY <2>1, <2>3
<1>8. /\ \A k \in 1..N : g[k] = IF k = 1 THEN start ELSE Decline(g[k - 1], values[k])
      /\ g = [k \in 1..N |-> g[k]]
  BY <1>7, Zenon
<1>9. \A k \in 1..N : g[k] \in Declines
  <2> DEFINE S == {k \in 1..N : g[k] \in Declines}
  <2>1. 1 \in S
    <3>1. 1 \in 1..N
      BY <1>1
    <3>2. g[1] = start
      BY <1>8, <3>1
    <3> QED BY <1>2, <3>1, <3>2
  <2>2. ASSUME NEW k \in (1 + 1)..N, k - 1 \in S PROVE k \in S
    <3>1. k \in 1..N /\ k # 1
      BY <1>1
    <3>2. g[k] = Decline(g[k - 1], values[k]) /\ g[k - 1] \in Declines
      BY <1>8, <2>2, <3>1
    <3>3. g[k] \in Declines
      BY <1>1, <3>1, <3>2, DeclineType
    <3> QED BY <3>1, <3>3
  <2> HIDE DEF S
  <2>3. 1..N \subseteq S
    BY <1>1, <2>1, <2>2, IntervalInduction
  <2> QED BY <2>3 DEF S
<1>10. g \in [1..N -> Declines]
  BY <1>8, <1>9
<1>11. g[1] = start /\ \A k \in 2..N : g[k] = Decline(g[k - 1], values[k])
  <2>1. 1 \in 1..N /\ \A k \in 2..N : k \in 1..N /\ k # 1
    BY <1>1
  <2> QED BY <1>8, <2>1
<1> QED BY <1>7, <1>10, <1>11 DEF N, start

\* What max_drawdown knows at bar k: the peak so far and a least return between two
\* bars so far.
WorstUpTo(values, k, s) ==
  /\ \A i \in 1..k : values[i] <= s.peak
  /\ \E i \in 1..k : values[i] = s.peak
  /\ \A i \in 1..k : \A j \in i..k : AtMost(s.worst, Change(values[j], values[i]))
  /\ \E i \in 1..k : \E j \in i..k : AtMost(Change(values[j], values[i]), s.worst)

LEMMA WorstStep ==
  ASSUME NEW values \in Curves, NEW k \in 2..Len(values), NEW s \in Declines,
         WorstUpTo(values, k - 1, s)
  PROVE  WorstUpTo(values, k, Decline(s, values[k]))
<1> DEFINE x == values[k]
           peak == Peak(s.peak, x)
           drop == Change(x, peak)
           t == Decline(s, x)
<1>1. /\ Len(values) \in Nat /\ k \in Nat /\ k - 1 \in Nat /\ 1..k = 1..(k - 1) \cup {k}
      /\ \A i \in 1..k : values[i] \in Nat \ {0}
  <2>1. values \in Seq(Int) /\ \A i \in 1..Len(values) : values[i] > 0
    BY DEF Curves
  <2>2. /\ Len(values) \in Nat /\ k \in Nat /\ k - 1 \in Nat /\ k <= Len(values)
        /\ 1..k = 1..(k - 1) \cup {k}
    BY <2>1
  <2>3. ASSUME NEW i \in 1..k PROVE values[i] \in Nat \ {0}
    <3>1. i \in 1..Len(values)
      BY <2>2
    <3>2. values[i] \in Int /\ values[i] > 0
      BY <2>1, <3>1
    <3> QED BY <3>2
  <2> QED BY <2>2, <2>3
<1>2. x \in Nat \ {0}
  <2>1. k \in 1..k
    BY <1>1
  <2> QED BY <1>1, <2>1
<1>3. /\ t \in Declines /\ t.peak = peak /\ drop \in Fractions
      /\ t.worst = IF Less(drop, s.worst) THEN drop ELSE s.worst
  BY <1>2, DeclineType
<1>4. s.peak \in Nat \ {0} /\ s.worst \in Fractions /\ t.worst \in Fractions
  BY <1>3 DEF Declines
<1>5. /\ peak \in Nat \ {0} /\ s.peak <= peak /\ x <= peak /\ (peak = x \/ peak = s.peak)
  <2> HIDE DEF x
  <2> QED BY <1>2, <1>4 DEF Peak
<1>6. \A i \in 1..k : values[i] <= peak
  <2> SUFFICES ASSUME NEW i \in 1..k PROVE values[i] <= peak
    OBVIOUS
  <2>1. CASE i = k
    BY <1>5, <2>1
  <2>2. CASE i # k
    <3>1. i \in 1..(k - 1)
      BY <1>1, <2>2
    <3>2. values[i] <= s.peak
      BY <3>1 DEF WorstUpTo
    <3>3. values[i] \in Nat
      BY <1>1
    <3> HIDE DEF peak
    <3> QED BY <1>4, <1>5, <3>2, <3>3
  <2> QED BY <2>1, <2>2
<1>7. \E i \in 1..k : values[i] = peak
  <2>1. k \in 1..k
    BY <1>1
  <2> QED BY <1>1, <1>5, <2>1 DEF WorstUpTo
<1>8. AtMost(t.worst, drop) /\ AtMost(t.worst, s.worst)
  <2> HIDE DEF t, drop
  <2>1. CASE Less(drop, s.worst)
    BY <1>3, <1>4, <2>1, AtMostOrders
  <2>2. CASE ~Less(drop, s.worst)
    BY <1>3, <1>4, <2>2, AtMostOrders
  <2> QED BY <2>1, <2>2
<1>9. ASSUME NEW i \in 1..k, NEW j \in i..k
      PROVE  AtMost(t.worst, Change(values[j], values[i]))
  <2>1. i \in Nat /\ j \in Nat /\ i <= j /\ j \in 1..k
    BY <1>1
  <2>2. CASE j = k
    <3>1. values[i] \in Nat \ {0} /\ values[i] <= peak
      BY <1>1, <1>6
    <3> HIDE DEF x, peak
    <3>2. Change(x, values[i]) \in Fractions /\ AtMost(drop, Change(x, values[i]))
      BY <1>2, <1>5, <3>1, ReturnFalls
    <3> HIDE DEF drop, t
    <3>3. AtMost(t.worst, Change(x, values[i]))
      BY <1>3, <1>4, <1>8, <3>2, AtMostOrders
    <3> QED BY <2>2, <3>3 DEF x
  <2>3. CASE j # k
    <3>1. i \in 1..(k - 1) /\ j \in i..(k - 1)
      BY <1>1, <2>1, <2>3
    <3>2. AtMost(s.worst, Change(values[j], values[i]))
      BY <3>1 DEF WorstUpTo
    <3>3. Change(values[j], values[i]) \in Fractions
      BY <1>1, <2>1, ReturnFalls DEF Change, Fractions
    <3> HIDE DEF t, drop
    <3> QED BY <1>4, <1>8, <3>2, <3>3, AtMostOrders
  <2> QED BY <2>2, <2>3
<1>10. \E i \in 1..k : \E j \in i..k : AtMost(Change(values[j], values[i]), t.worst)
  <2>1. CASE Less(drop, s.worst)
    <3>1. PICK i \in 1..k : values[i] = peak
      BY <1>7
    <3>2. k \in i..k
      BY <1>1
    <3> HIDE DEF peak, t
    <3>3. AtMost(drop, drop)
      <4> HIDE DEF drop
      <4> QED BY <1>3, AtMostOrders
    <3>4. AtMost(Change(values[k], values[i]), t.worst)
      BY <1>3, <2>1, <3>1, <3>3
    <3> QED BY <3>2, <3>4
  <2>2. CASE ~Less(drop, s.worst)
    <3>1. PICK i \in 1..(k - 1) : \E j \in i..(k - 1) :
            AtMost(Change(values[j], values[i]), s.worst)
      BY DEF WorstUpTo
    <3>2. PICK j \in i..(k - 1) : AtMost(Change(values[j], values[i]), s.worst)
      BY <3>1
    <3>3. i \in 1..k /\ j \in i..k
      BY <1>1
    <3>4. t.worst = s.worst
      <4> HIDE DEF t, drop
      <4> QED BY <1>3, <2>2
    <3> HIDE DEF t
    <3> QED BY <3>2, <3>3, <3>4
  <2> QED BY <2>1, <2>2
<1> HIDE DEF t, peak
<1> QED BY <1>3, <1>6, <1>7, <1>9, <1>10 DEF WorstUpTo, t, x

\* max_drawdown is a least return between two bars of the curve.
LEMMA DrawdownIs ==
  ASSUME NEW values \in Curves
  PROVE  /\ max_drawdown(values) \in Fractions
         /\ \A i \in 1..Len(values) : \A j \in i..Len(values) :
              ~Less(Change(values[j], values[i]), max_drawdown(values))
         /\ \E i \in 1..Len(values) : \E j \in i..Len(values) :
              ~Less(max_drawdown(values), Change(values[j], values[i]))
<1> DEFINE N == Len(values)
<1>1. N \in Nat /\ N >= 2 /\ \A k \in 1..N : values[k] \in Nat \ {0}
  BY DEF Curves
<1>2. PICK f \in [1..N -> Declines] :
        /\ f[1] = [peak |-> values[1], worst |-> Zero]
        /\ \A k \in 2..N : f[k] = Decline(f[k - 1], values[k])
        /\ max_drawdown(values) = f[N].worst
  BY DrawdownExists
<1>3. WorstUpTo(values, 1, f[1])
  <2>1. f[1].peak = values[1] /\ f[1].worst = Zero /\ values[1] \in Nat \ {0}
    BY <1>1, <1>2
  <2>2. Zero.num = 0 /\ Zero.den = 1
    BY DEF Zero
  <2>3. Change(values[1], values[1]).num = 0 /\ Change(values[1], values[1]).den = values[1]
    BY <2>1 DEF Change
  <2>4. /\ AtMost(Zero, Change(values[1], values[1]))
        /\ AtMost(Change(values[1], values[1]), Zero)
    BY <2>1, <2>2, <2>3 DEF AtMost
  <2>5. 1..1 = {1}
    OBVIOUS
  <2> QED BY <2>1, <2>4, <2>5 DEF WorstUpTo
<1>4. \A k \in 1..N : WorstUpTo(values, k, f[k])
  <2> DEFINE S == {k \in 1..N : WorstUpTo(values, k, f[k])}
  <2>1. 1 \in S
    BY <1>1, <1>3
  <2>2. ASSUME NEW k \in (1 + 1)..N, k - 1 \in S PROVE k \in S
    <3>1. k \in 2..N /\ k \in 1..N /\ k - 1 \in 1..N
      BY <1>1
    <3>2. WorstUpTo(values, k - 1, f[k - 1]) /\ f[k - 1] \in Declines
      BY <1>2, <2>2, <3>1
    <3>3. f[k] = Decline(f[k - 1], values[k])
      BY <1>2, <3>1
    <3>4. WorstUpTo(values, k, f[k])
      BY <3>1, <3>2, <3>3, WorstStep
    <3> QED BY <3>1, <3>4
  <2> HIDE DEF S
  <2>3. 1..N \subseteq S
    BY <1>1, <2>1, <2>2, IntervalInduction
  <2> QED BY <2>3 DEF S
<1> DEFINE worst == max_drawdown(values)
<1>5. worst \in Fractions /\ WorstUpTo(values, N, f[N]) /\ worst = f[N].worst
  <2>1. N \in 1..N
    BY <1>1
  <2> QED BY <1>2, <1>4, <2>1 DEF Declines
<1> HIDE DEF worst
<1>6. \A i \in 1..N : \A j \in i..N : Change(values[j], values[i]) \in Fractions
  <2> SUFFICES ASSUME NEW i \in 1..N, NEW j \in i..N
               PROVE  Change(values[j], values[i]) \in Fractions
    OBVIOUS
  <2>1. j \in 1..N
    BY <1>1
  <2>2. values[i] \in Nat \ {0} /\ values[j] \in Nat \ {0}
    BY <1>1, <2>1
  <2> QED BY <2>2 DEF Change, Fractions
<1>7. \A i \in 1..N : \A j \in i..N : ~Less(Change(values[j], values[i]), worst)
  BY <1>5, <1>6, AtMostOrders DEF WorstUpTo
<1>8. \E i \in 1..N : \E j \in i..N : ~Less(worst, Change(values[j], values[i]))
  BY <1>5, <1>6, AtMostOrders DEF WorstUpTo
<1> QED BY <1>5, <1>7, <1>8 DEF worst

\* The reported drawdown of a fold is the worst return between any two of its bars,
\* and no better than the total return.
THEOREM DrawdownIsWorst == Spec => []DrawdownIsWorstLoss
<1>1. TypeInv => DrawdownIsWorstLoss
  <2> SUFFICES ASSUME TypeInv, Len(curve) >= 2, \A i \in DOMAIN curve : curve[i] > 0
               PROVE  LET worst == max_drawdown(curve)
                      IN  /\ \A i \in DOMAIN curve : \A j \in i..Len(curve) :
                               ~Less(Change(curve[j], curve[i]), worst)
                          /\ \E i \in DOMAIN curve : \E j \in i..Len(curve) :
                               ~Less(worst, Change(curve[j], curve[i]))
                          /\ ~Less(total_return(curve), worst)
    BY DEF DrawdownIsWorstLoss, Result
  <2>1. curve \in Seq(Int) /\ Len(curve) \in Nat /\ DOMAIN curve = 1..Len(curve)
    BY DEF TypeInv, TypeOK
  <2>2. curve \in Curves
    BY <2>1 DEF Curves
  <2>3. 1 \in 1..Len(curve) /\ Len(curve) \in 1..Len(curve) /\ curve[1] # 0
    BY <2>1
  <2>4. total_return(curve) = Change(curve[Len(curve)], curve[1])
    BY <2>1, <2>3 DEF total_return
  <2> QED BY <2>1, <2>2, <2>3, <2>4, DrawdownIs
<1> QED BY <1>1, TypeInit, TypeStep, PTL DEF Spec

------------------------------------------------------------------------------
(* Signals. *)

\* The partial sums of a sequence.
LEMMA SumExists ==
  ASSUME NEW xs \in Seq(Int)
  PROVE  \E f \in [0..Len(xs) -> Int] :
           /\ f[0] = 0
           /\ \A k \in 1..Len(xs) : f[k] = f[k - 1] + xs[k]
           /\ Total(xs) = f[Len(xs)]
<1> DEFINE N == Len(xs)
           step == [x \in (0..N) \X Int |-> IF x[1] = 0 THEN 0 ELSE x[2] + xs[x[1]]]
           Equation(g) == g = [k \in 0..N |-> IF k = 0 THEN 0 ELSE g[k - 1] + xs[k]]
<1>1. N \in Nat /\ \A k \in 1..N : xs[k] \in Int
  OBVIOUS
<1>2. step \in [(0..N) \X Int -> Int]
  <2>1. \A k \in 0..N : k # 0 => k \in 1..N
    BY <1>1
  <2> QED BY <1>1, <2>1
<1> HIDE DEF N
<1>3. PICK f : Computed(f, 0, N, Int, 0, step)
  <2>1. 0 \in Nat /\ 0 <= N /\ 0 \in Int
    BY <1>1
  <2> HIDE DEF step
  <2> QED BY <1>1, <1>2, <2>1, RecursionExists
<1>4. \A k \in 1..N : f[k] = f[k - 1] + xs[k]
  <2> SUFFICES ASSUME NEW k \in 1..N PROVE f[k] = f[k - 1] + xs[k]
    OBVIOUS
  <2>1. k \in (0 + 1)..N /\ k \in 0..N /\ k - 1 \in 0..N /\ k # 0
    BY <1>1
  <2>2. <<k, f[k - 1]>> \in (0..N) \X Int
    BY <1>3, <2>1 DEF Computed
  <2> QED BY <1>3, <2>1, <2>2 DEF Computed
<1>5. Equation(f)
  <2>1. \A k \in 0..N : f[k] = IF k = 0 THEN 0 ELSE f[k - 1] + xs[k]
    BY <1>1, <1>3, <1>4 DEF Computed
  <2>2. f \in [0..N -> Int]
    BY <1>3 DEF Computed
  <2>3. f = [k \in 0..N |-> f[k]]
    BY <2>2
  <2> QED BY <2>1, <2>3
<1>6. PICK g : Equation(g) /\ Total(xs) = g[N]
  <2>1. Equation(CHOOSE g : Equation(g))
    BY <1>5
  <2>2. Total(xs) = (CHOOSE g : Equation(g))[N]
    BY DEF Total, N
  <2> QED BY <2>1, <2>2
<1>7. /\ \A k \in 0..N : g[k] = IF k = 0 THEN 0 ELSE g[k - 1] + xs[k]
      /\ g = [k \in 0..N |-> g[k]]
  BY <1>6, Zenon
<1>8. \A k \in 0..N : g[k] \in Int
  <2> DEFINE S == {k \in 0..N : g[k] \in Int}
  <2>1. 0 \in S
    <3>1. 0 \in 0..N
      BY <1>1
    <3>2. g[0] = 0
      BY <1>7, <3>1
    <3> QED BY <3>1, <3>2
  <2>2. ASSUME NEW k \in (0 + 1)..N, k - 1 \in S PROVE k \in S
    <3>1. k \in 1..N /\ k \in 0..N /\ k # 0
      BY <1>1
    <3>2. g[k] = g[k - 1] + xs[k] /\ g[k - 1] \in Int
      BY <1>7, <2>2, <3>1
    <3> QED BY <1>1, <3>1, <3>2
  <2> HIDE DEF S
  <2>3. 0..N \subseteq S
    BY <1>1, <2>1, <2>2, IntervalInduction
  <2> QED BY <2>3 DEF S
<1>9. g \in [0..N -> Int]
  BY <1>7, <1>8
<1>10. g[0] = 0 /\ \A k \in 1..N : g[k] = g[k - 1] + xs[k]
  <2>1. 0 \in 0..N /\ \A k \in 1..N : k \in 0..N /\ k # 0
    BY <1>1
  <2> QED BY <1>7, <2>1
<1> QED BY <1>6, <1>9, <1>10 DEF N

\* Numbers on one side of m sum to what is on that side of as many times m.
LEMMA SumBounds ==
  ASSUME NEW xs \in Seq(Int), NEW m \in Int
  PROVE  /\ Total(xs) \in Int
         /\ (\A k \in 1..Len(xs) : xs[k] >= m) => Total(xs) >= Len(xs) * m
         /\ (\A k \in 1..Len(xs) : xs[k] <= m) => Total(xs) <= Len(xs) * m
<1> DEFINE N == Len(xs)
           Above == \A k \in 1..N : xs[k] >= m
           Below == \A k \in 1..N : xs[k] <= m
<1>1. N \in Nat /\ \A k \in 1..N : xs[k] \in Int
  OBVIOUS
<1>2. PICK f \in [0..N -> Int] :
        /\ f[0] = 0
        /\ \A k \in 1..N : f[k] = f[k - 1] + xs[k]
        /\ Total(xs) = f[N]
  BY SumExists
<1> DEFINE S == {k \in 0..N : (Above => f[k] >= k * m) /\ (Below => f[k] <= k * m)}
<1>3. 0 \in S
  BY <1>1, <1>2
<1>4. ASSUME NEW k \in (0 + 1)..N, k - 1 \in S PROVE k \in S
  <2>1. k \in 1..N /\ k \in 0..N /\ k - 1 \in 0..N /\ k \in Int
    BY <1>1
  <2>2. f[k] = f[k - 1] + xs[k] /\ f[k - 1] \in Int /\ xs[k] \in Int
    BY <1>1, <1>2, <2>1
  <2>3. (Above => xs[k] >= m) /\ (Below => xs[k] <= m)
    BY <2>1
  <2>4. k * m = (k - 1) * m + m /\ (k - 1) * m \in Int
    BY <2>1
  <2>5. (Above => f[k - 1] >= (k - 1) * m) /\ (Below => f[k - 1] <= (k - 1) * m)
    BY <1>4
  <2> HIDE DEF Above, Below
  <2> QED BY <2>1, <2>2, <2>3, <2>4, <2>5
<1> HIDE DEF S
<1>5. 0..N \subseteq S
  BY <1>1, <1>3, <1>4, IntervalInduction
<1>6. N \in 0..N
  BY <1>1
<1> QED BY <1>2, <1>5, <1>6 DEF S

\* The whole is the sum of its parts.
LEMMA SumSplits ==
  ASSUME NEW xs \in Seq(Int), NEW head \in Seq(Int), NEW tail \in Seq(Int),
         Len(xs) = Len(head) + Len(tail),
         \A k \in 1..Len(head) : head[k] = xs[k],
         \A k \in 1..Len(tail) : tail[k] = xs[Len(head) + k]
  PROVE  Total(xs) = Total(head) + Total(tail)
<1> DEFINE N == Len(xs)
           n == Len(head)
           m == Len(tail)
<1>1. N \in Nat /\ n \in Nat /\ m \in Nat /\ N = n + m
  OBVIOUS
<1>2. PICK f \in [0..N -> Int] :
        /\ f[0] = 0
        /\ \A k \in 1..N : f[k] = f[k - 1] + xs[k]
        /\ Total(xs) = f[N]
  BY SumExists
<1>3. PICK g \in [0..n -> Int] :
        /\ g[0] = 0
        /\ \A k \in 1..n : g[k] = g[k - 1] + head[k]
        /\ Total(head) = g[n]
  BY SumExists
<1>4. PICK h \in [0..m -> Int] :
        /\ h[0] = 0
        /\ \A k \in 1..m : h[k] = h[k - 1] + tail[k]
        /\ Total(tail) = h[m]
  BY SumExists
<1> HIDE DEF N, n, m
<1>5. f[n] = g[n]
  <2> DEFINE S == {k \in 0..n : f[k] = g[k]}
  <2>1. 0 \in S
    BY <1>1, <1>2, <1>3
  <2>2. ASSUME NEW k \in (0 + 1)..n, k - 1 \in S PROVE k \in S
    <3>1. k \in 1..n /\ k \in 1..N /\ k \in 0..n
      BY <1>1
    <3>2. f[k] = f[k - 1] + xs[k] /\ g[k] = g[k - 1] + head[k] /\ f[k - 1] = g[k - 1]
      BY <1>2, <1>3, <2>2, <3>1
    <3>3. head[k] = xs[k]
      BY <3>1 DEF n
    <3> QED BY <3>1, <3>2, <3>3
  <2> HIDE DEF S
  <2>3. 0..n \subseteq S
    BY <1>1, <2>1, <2>2, IntervalInduction
  <2> QED BY <1>1, <2>3 DEF S
<1>6. f[N] = f[n] + h[m]
  <2> DEFINE S == {k \in 0..m : f[n + k] = f[n] + h[k]}
  <2>0. f[n] \in Int /\ \A k \in 0..m : h[k] \in Int
    BY <1>1, <1>2, <1>4
  <2>1. 0 \in S
    <3>1. n + 0 = n
      BY <1>1
    <3> QED BY <1>1, <1>4, <2>0, <3>1
  <2>2. ASSUME NEW k \in (0 + 1)..m, k - 1 \in S PROVE k \in S
    <3>1. /\ k \in 1..m /\ k \in 0..m /\ k - 1 \in 0..m
          /\ n + k \in 1..N /\ (n + k) - 1 = n + (k - 1)
      BY <1>1
    <3>2. /\ f[n + k] = f[(n + k) - 1] + xs[n + k] /\ h[k] = h[k - 1] + tail[k]
          /\ f[n + (k - 1)] = f[n] + h[k - 1]
      BY <1>2, <1>4, <2>2, <3>1
    <3>3. tail[k] = xs[n + k] /\ xs[n + k] \in Int
      BY <1>1, <3>1 DEF N, n, m
    <3>4. f[n + k] = (f[n] + h[k - 1]) + tail[k]
      BY <3>1, <3>2, <3>3
    <3>5. f[n] \in Int /\ h[k - 1] \in Int /\ tail[k] \in Int
      BY <2>0, <3>1, <3>3
    <3>6. f[n + k] = f[n] + (h[k - 1] + tail[k])
      <4>1. \A x, y, z \in Int : (x + y) + z = x + (y + z)
        OBVIOUS
      <4> QED BY <3>4, <3>5, <4>1, Zenon
    <3>7. f[n + k] = f[n] + h[k]
      BY <3>2, <3>6
    <3> QED BY <3>1, <3>7
  <2> HIDE DEF S
  <2>3. 0..m \subseteq S
    BY <1>1, <2>1, <2>2, IntervalInduction
  <2>4. m \in 0..m /\ n + m = N
    BY <1>1
  <2> QED BY <2>3, <2>4 DEF S
<1> QED BY <1>2, <1>3, <1>4, <1>5, <1>6

LEMMA PartIs ==
  ASSUME NEW xs \in Seq(Int), NEW a \in Nat, NEW b \in Nat,
         1 <= a, a <= b + 1, b <= Len(xs)
  PROVE  /\ SubSeq(xs, a, b) \in Seq(Int) /\ Len(SubSeq(xs, a, b)) = b - a + 1
         /\ \A k \in 1..(b - a + 1) : SubSeq(xs, a, b)[k] = xs[a + k - 1]
  OBVIOUS

\* The last n of a history, as its windows are indexed.
LEMMA WindowIs ==
  ASSUME NEW history \in Seq(Int), NEW n \in Nat, n <= Len(history)
  PROVE  /\ Window(history, n) \in Seq(Int) /\ Len(Window(history, n)) = n
         /\ \A k \in 1..n : Window(history, n)[k] = history[Len(history) - n + k]
<1> DEFINE a == Len(history) - n + 1
           b == Len(history)
<1>1. /\ a \in Nat /\ b \in Nat /\ 1 <= a /\ a <= b + 1 /\ b <= Len(history)
      /\ b - a + 1 = n
  OBVIOUS
<1>2. \A k \in 1..n : a + k - 1 = Len(history) - n + k
  OBVIOUS
<1>3. Window(history, n) = SubSeq(history, a, b)
  BY DEF Window
<1> HIDE DEF a, b
<1>4. /\ Window(history, n) \in Seq(Int) /\ Len(Window(history, n)) = b - a + 1
      /\ \A k \in 1..(b - a + 1) : Window(history, n)[k] = history[a + k - 1]
  BY <1>1, <1>3, PartIs
<1> QED BY <1>1, <1>2, <1>4

\* Two averages, by their sums and sizes, on either side of m.
LEMMA AveragesApart ==
  ASSUME NEW x \in Int, NEW f \in Nat \ {0}, NEW y \in Int, NEW r \in Nat \ {0}, NEW m \in Int
  PROVE  /\ x >= f * m /\ y <= r * (m - 1) => x * (f + r) - (y + x) * f > 0
         /\ x <= f * (m - 1) /\ y >= r * m => x * (f + r) - (y + x) * f < 0
<1>1. x * (f + r) - (y + x) * f = x * r - y * f
  OBVIOUS
<1>2. f * r \in Nat \ {0}
  BY ProductType
<1>3. /\ (f * m) * r = m * (f * r) /\ (r * (m - 1)) * f = m * (f * r) - f * r
      /\ (f * (m - 1)) * r = m * (f * r) - f * r /\ (r * m) * f = m * (f * r)
  OBVIOUS
<1>4. m * (f * r) \in Int /\ x * r \in Int /\ y * f \in Int
  OBVIOUS
<1>5. ASSUME x >= f * m, y <= r * (m - 1) PROVE x * r - y * f > 0
  <2>1. f * m \in Int /\ r * (m - 1) \in Int
    OBVIOUS
  <2>2. (f * m) * r <= x * r /\ y * f <= (r * (m - 1)) * f
    BY <1>5, <2>1, ProductMonotone
  <2> QED BY <1>2, <1>3, <1>4, <2>2
<1>6. ASSUME x <= f * (m - 1), y >= r * m PROVE x * r - y * f < 0
  <2>1. f * (m - 1) \in Int /\ r * m \in Int
    OBVIOUS
  <2>2. x * r <= (f * (m - 1)) * r /\ (r * m) * f <= y * f
    BY <1>6, <2>1, ProductMonotone
  <2> QED BY <1>2, <1>3, <1>4, <2>2
<1> QED BY <1>1, <1>5, <1>6

LEMMA OneLess ==
  ASSUME NEW m \in Nat, NEW x \in Nat, m > x
  PROVE  x <= m - 1
  OBVIOUS

\* A sequence of naturals that is not empty has a least element.
LEMMA LeastElement ==
  ASSUME NEW xs \in Seq(Nat), Len(xs) # 0
  PROVE  \E m \in Nat : /\ \A k \in 1..Len(xs) : m <= xs[k]
                        /\ \E k \in 1..Len(xs) : m = xs[k]
<1> DEFINE T == {xs[k] : k \in 1..Len(xs)}
<1>1. T \in SUBSET Nat
  OBVIOUS
<1>2. T # {}
  <2>1. 1 \in 1..Len(xs)
    OBVIOUS
  <2>2. xs[1] \in T
    BY <2>1
  <2> QED BY <2>2
<1>3. PICK m \in T : \A k \in T : m <= k
  <2> HIDE DEF T
  <2> QED BY <1>1, <1>2, LeastNatural
<1> QED BY <1>1, <1>3

\* All that is recent stands on one side, `way`, of all that is old.
StandApart(old, recent, way) ==
  \A j \in 1..Len(recent) : \A i \in 1..Len(old) : Sign(recent[j] - old[i]) = way

LEMMA MomentumFollows ==
  ASSUME NEW history \in Seq(Nat), Slow <= Len(history),
         NEW old \in Seq(Nat), NEW recent \in Seq(Nat), NEW way \in {-1, 1},
         Len(old) = Slow - Fast, Len(recent) = Fast,
         \A k \in 1..(Slow - Fast) : old[k] = history[Len(history) - Slow + k],
         \A k \in 1..Fast : recent[k] = history[Len(history) - Fast + k],
         StandApart(old, recent, way)
  PROVE  momentum(history) = way
<1> DEFINE r == Slow - Fast
           x == FastTotal(history)
           y == Total(old)
<1>1. /\ Fast \in Nat \ {0} /\ Slow \in Nat /\ r \in Nat \ {0} /\ Fast + r = Slow
      /\ Len(history) \in Nat /\ Fast <= Len(history)
  <2>1. Fast \in Nat \ {0} /\ Slow \in Nat /\ Fast < Slow
    BY StrategyAssumption
  <2>2. Len(history) \in Nat
    OBVIOUS
  <2> QED BY <2>1, <2>2
<1>2. history \in Seq(Int) /\ old \in Seq(Int) /\ recent \in Seq(Int)
  OBVIOUS
<1>3. /\ Window(history, Slow) \in Seq(Int) /\ Len(Window(history, Slow)) = Slow
      /\ \A k \in 1..Slow : Window(history, Slow)[k] = history[Len(history) - Slow + k]
      /\ Window(history, Fast) \in Seq(Int) /\ Len(Window(history, Fast)) = Fast
      /\ \A k \in 1..Fast : Window(history, Fast)[k] = history[Len(history) - Fast + k]
  BY <1>1, <1>2, WindowIs
<1>4. Total(Window(history, Slow)) = y + x
  <2> DEFINE xs == Window(history, Slow)
             tail == Window(history, Fast)
  <2>1. Len(xs) = Len(old) + Len(tail)
    BY <1>1, <1>3
  <2>2. \A k \in 1..Len(old) : old[k] = xs[k]
    <3> SUFFICES ASSUME NEW k \in 1..r PROVE old[k] = xs[k]
      OBVIOUS
    <3>1. k \in 1..Slow
      BY <1>1
    <3> QED BY <1>3, <3>1
  <2>3. \A k \in 1..Len(tail) : tail[k] = xs[Len(old) + k]
    <3> SUFFICES ASSUME NEW k \in 1..Fast PROVE tail[k] = xs[Len(old) + k]
      BY <1>3
    <3>1. /\ Len(old) + k \in 1..Slow
          /\ Len(history) - Slow + (Len(old) + k) = Len(history) - Fast + k
      BY <1>1
    <3>2. Window(history, Slow)[Len(old) + k] =
            history[Len(history) - Slow + (Len(old) + k)]
      BY <1>3, <3>1
    <3>3. Window(history, Fast)[k] = history[Len(history) - Fast + k]
      BY <1>3
    <3> QED BY <3>1, <3>2, <3>3, Zenon
  <2> HIDE DEF xs, tail
  <2>4. xs \in Seq(Int) /\ tail \in Seq(Int)
    BY <1>3 DEF xs, tail
  <2>5. Total(xs) = Total(old) + Total(tail)
    BY <1>2, <2>1, <2>2, <2>3, <2>4, SumSplits
  <2> QED BY <2>5 DEF xs, tail, FastTotal
<1>5. x \in Int /\ y \in Int
  BY <1>2, <1>3, SumBounds DEF FastTotal
<1>6. momentum(history) = Sign(x * (Fast + r) - (y + x) * Fast)
  BY <1>1, <1>4 DEF momentum
<1>7. \A k \in 1..Fast : Window(history, Fast)[k] = recent[k]
  BY <1>3
<1> HIDE DEF r, x, y
<1>8. ASSUME \A j \in 1..Fast : \A i \in 1..r : recent[j] > old[i]
      PROVE  momentum(history) = 1
  <2>1. PICK m \in Nat : /\ \A k \in 1..Len(recent) : m <= recent[k]
                         /\ \E k \in 1..Len(recent) : m = recent[k]
    BY <1>1, LeastElement
  <2>2. x >= Fast * m
    <3>1. \A k \in 1..Fast : Window(history, Fast)[k] >= m
      BY <1>7, <2>1
    <3> DEFINE tail == Window(history, Fast)
    <3> HIDE DEF tail
    <3>2. tail \in Seq(Int) /\ Len(tail) = Fast /\ x = Total(tail) /\ m \in Int
      BY <1>3 DEF tail, x, FastTotal
    <3>3. \A k \in 1..Len(tail) : tail[k] >= m
      BY <3>1, <3>2 DEF tail
    <3> QED BY <3>2, <3>3, SumBounds
  <2>3. \A i \in 1..r : old[i] <= m - 1
    <3> SUFFICES ASSUME NEW i \in 1..r PROVE old[i] <= m - 1
      OBVIOUS
    <3>1. PICK k \in 1..Fast : m = recent[k]
      BY <2>1
    <3>2. m > old[i]
      BY <1>8, <3>1
    <3>3. old[i] \in Nat
      BY DEF r
    <3> QED BY <3>2, <3>3, OneLess, Zenon
  <2>4. y <= r * (m - 1)
    <3>1. Len(old) = r /\ m - 1 \in Int
      BY DEF r
    <3> QED BY <1>2, <2>3, <3>1, SumBounds DEF y
  <2>5. x * (Fast + r) - (y + x) * Fast > 0
    <3>1. m \in Int
      OBVIOUS
    <3> QED BY <1>1, <1>5, <2>2, <2>4, <3>1, AveragesApart
  <2> QED BY <1>6, <2>5 DEF Sign
<1>9. ASSUME \A j \in 1..Fast : \A i \in 1..r : recent[j] < old[i]
      PROVE  momentum(history) = -1
  <2>1. PICK m \in Nat : /\ \A k \in 1..Len(old) : m <= old[k]
                         /\ \E k \in 1..Len(old) : m = old[k]
    BY <1>1, LeastElement DEF r
  <2>2. \A k \in 1..Fast : Window(history, Fast)[k] <= m - 1
    <3> SUFFICES ASSUME NEW k \in 1..Fast PROVE Window(history, Fast)[k] <= m - 1
      OBVIOUS
    <3>1. PICK i \in 1..r : m = old[i]
      BY <2>1 DEF r
    <3>2. recent[k] < m
      BY <1>9, <3>1
    <3>3. recent[k] \in Nat /\ Window(history, Fast)[k] = recent[k]
      BY <1>7
    <3>4. m > recent[k]
      BY <3>2, <3>3
    <3> QED BY <3>3, <3>4, OneLess, Zenon
  <2>3. x <= Fast * (m - 1)
    <3> DEFINE tail == Window(history, Fast)
    <3> HIDE DEF tail
    <3>1. tail \in Seq(Int) /\ Len(tail) = Fast /\ x = Total(tail) /\ m - 1 \in Int
      BY <1>3 DEF tail, x, FastTotal
    <3>2. \A k \in 1..Len(tail) : tail[k] <= m - 1
      BY <2>2, <3>1 DEF tail
    <3> QED BY <3>1, <3>2, SumBounds
  <2>4. y >= r * m
    <3>1. Len(old) = r /\ m \in Int
      BY DEF r
    <3>2. \A k \in 1..Len(old) : old[k] >= m
      BY <2>1
    <3> QED BY <1>2, <3>1, <3>2, SumBounds DEF y
  <2>5. x * (Fast + r) - (y + x) * Fast < 0
    <3>1. m \in Int
      OBVIOUS
    <3> QED BY <1>1, <1>5, <2>3, <2>4, <3>1, AveragesApart
  <2>6. x * (Fast + r) - (y + x) * Fast \in Int
    BY <1>1, <1>5
  <2> QED BY <1>6, <2>5, <2>6 DEF Sign
<1>10. \A j \in 1..Fast : \A i \in 1..r :
          /\ Sign(recent[j] - old[i]) = way
          /\ recent[j] \in Nat /\ old[i] \in Nat
  <2>1. Len(old) = r /\ Len(recent) = Fast
    BY DEF r
  <2>2. \A i \in 1..Len(old) : old[i] \in Nat
    OBVIOUS
  <2>3. \A j \in 1..Len(recent) : recent[j] \in Nat
    OBVIOUS
  <2> QED BY <2>1, <2>2, <2>3, Zenon DEF StandApart
<1>11. \A x1, y1 \in Nat : /\ Sign(x1 - y1) = 1 <=> x1 > y1
                           /\ Sign(x1 - y1) = -1 <=> x1 < y1
  BY DEF Sign
<1>12. CASE way = 1
  <2>1. ASSUME NEW j \in 1..Fast, NEW i \in 1..r PROVE recent[j] > old[i]
    <3>1. /\ Sign(recent[j] - old[i]) = 1
          /\ recent[j] \in Nat /\ old[i] \in Nat
      BY <1>10, <1>12
    <3> QED BY <1>11, <3>1, Zenon
  <2> QED BY <1>8, <1>12, <2>1
<1>13. CASE way = -1
  <2>1. ASSUME NEW j \in 1..Fast, NEW i \in 1..r PROVE recent[j] < old[i]
    <3>1. /\ Sign(recent[j] - old[i]) = -1
          /\ recent[j] \in Nat /\ old[i] \in Nat
      BY <1>10, <1>13
    <3> QED BY <1>11, <3>1, Zenon
  <2> QED BY <1>9, <1>13, <2>1
<1> QED BY <1>12, <1>13

LEMMA ReversionLeans ==
  ASSUME NEW history \in Seq(Nat), Lookback <= Len(history)
  PROVE  LET x == Last(history)
             seen == (Len(history) - Lookback + 1)..Len(history)
         IN  /\ (\A k \in seen : history[k] <= x) => mean_reversion(history) # 1
             /\ (\A k \in seen : history[k] >= x) => mean_reversion(history) # -1
<1> DEFINE x == Last(history)
           n == Lookback
           window == Window(history, n)
           seen == (Len(history) - n + 1)..Len(history)
           off == n * x - Total(window)
<1>1. /\ n \in Nat \ {0} /\ Len(history) \in Nat /\ Len(history) \in 1..Len(history)
      /\ history \in Seq(Int)
  BY StrategyAssumption
<1>2. x = history[Len(history)] /\ x \in Int
  BY <1>1 DEF Last
<1>3. /\ window \in Seq(Int) /\ Len(window) = n
      /\ \A k \in 1..n : window[k] = history[Len(history) - n + k]
  BY <1>1, WindowIs
<1>4. mean_reversion(history) = 0 \/ mean_reversion(history) = -Sign(off)
  BY DEF mean_reversion
<1> HIDE DEF x, window
<1>5. Total(window) \in Int /\ n * x \in Int
  BY <1>1, <1>2, <1>3, SumBounds
<1>6. \A k \in 1..n : Len(history) - n + k \in seen
  BY <1>1
<1>7. ASSUME \A k \in seen : history[k] <= x PROVE mean_reversion(history) # 1
  <2>1. \A k \in 1..Len(window) : window[k] <= x
    BY <1>3, <1>6, <1>7
  <2>2. Total(window) <= n * x
    BY <1>2, <1>3, <2>1, SumBounds
  <2>3. off >= 0 /\ off \in Int
    BY <1>5, <2>2
  <2> HIDE DEF off
  <2>4. Sign(off) \in {0, 1}
    BY <2>3 DEF Sign
  <2> QED BY <1>4, <2>4
<1>8. ASSUME \A k \in seen : history[k] >= x PROVE mean_reversion(history) # -1
  <2>1. \A k \in 1..Len(window) : window[k] >= x
    BY <1>3, <1>6, <1>8
  <2>2. Total(window) >= n * x
    BY <1>2, <1>3, <2>1, SumBounds
  <2>3. off <= 0 /\ off \in Int
    BY <1>5, <2>2
  <2> HIDE DEF off
  <2>4. Sign(off) \in {0, -1}
    BY <2>3 DEF Sign
  <2> QED BY <1>4, <2>4
<1> QED BY <1>7, <1>8 DEF x

LEMMA SquareType ==
  ASSUME NEW x \in Int, NEW y \in Int
  PROVE  x * y \in Int /\ (x # 0 => x * x \in Nat \ {0})
  OBVIOUS

\* All terms but the last are one.
LEMMA FlatSum ==
  ASSUME NEW xs \in Seq(Int), NEW c \in Int, NEW x \in Int, NEW m \in Nat,
         Len(xs) = m + 1, xs[m + 1] = x, \A k \in 1..m : xs[k] = c
  PROVE  Total(xs) = m * c + x
<1> DEFINE head == [k \in 1..m |-> c]
           tail == <<x>>
<1>1. /\ head \in Seq(Int) /\ Len(head) = m /\ \A k \in 1..m : head[k] = c
      /\ tail \in Seq(Int) /\ Len(tail) = 1 /\ tail[1] = x
  OBVIOUS
<1> HIDE DEF head, tail
<1>2. Total(xs) = Total(head) + Total(tail)
  <2>1. \A k \in 1..Len(head) : head[k] = xs[k]
    BY <1>1
  <2>2. \A k \in 1..Len(tail) : tail[k] = xs[Len(head) + k]
    BY <1>1
  <2>3. Len(xs) = Len(head) + Len(tail)
    BY <1>1
  <2> QED BY <1>1, <2>1, <2>2, <2>3, SumSplits, Zenon
<1>3. Total(head) \in Int /\ Total(head) >= m * c /\ Total(head) <= m * c
  <2>1. /\ \A k \in 1..Len(head) : head[k] >= c
        /\ \A k \in 1..Len(head) : head[k] <= c
    BY <1>1
  <2>2. /\ Total(head) \in Int
        /\ Total(head) >= Len(head) * c /\ Total(head) <= Len(head) * c
    BY <1>1, <2>1, SumBounds, Zenon
  <2> QED BY <1>1, <2>2
<1>4. Total(tail) \in Int /\ Total(tail) >= 1 * x /\ Total(tail) <= 1 * x
  <2>1. /\ \A k \in 1..Len(tail) : tail[k] >= x
        /\ \A k \in 1..Len(tail) : tail[k] <= x
    BY <1>1
  <2>2. /\ Total(tail) \in Int
        /\ Total(tail) >= Len(tail) * x /\ Total(tail) <= Len(tail) * x
    BY <1>1, <2>1, SumBounds, Zenon
  <2> QED BY <1>1, <2>2
<1>5. m * c \in Int
  BY SquareType
<1> QED BY <1>2, <1>3, <1>4, <1>5

\* Of m closes c and a last one c + d: the distance from their mean, their spread,
\* and the comparison of the two.
LEMMA FlatDeviation ==
  ASSUME NEW m \in Nat, NEW c \in Int, NEW d \in Int, NEW z \in Nat,
         d # 0, m * m > z * z * (m + 1)
  PROVE  LET n == m + 1
             off == n * (c + d) - (m * c + (c + d))
             spread == n * (m * (c * c) + (c + d) * (c + d))
                         - (m * c + (c + d)) * (m * c + (c + d))
         IN  /\ off = m * d
             /\ spread # 0
             /\ off * off * (n - 1) > z * z * n * spread
<1> DEFINE n == m + 1
           off == n * (c + d) - (m * c + (c + d))
           spread == n * (m * (c * c) + (c + d) * (c + d))
                       - (m * c + (c + d)) * (m * c + (c + d))
           q == m * (d * d)
<1>1. off = m * d
  OBVIOUS
<1>2. spread = q
  OBVIOUS
<1>3. m # 0
  <2>1. ASSUME m = 0 PROVE FALSE
    <3>1. z * z * 1 \in Nat
      OBVIOUS
    <3> QED BY <2>1, <3>1
  <2> QED BY <2>1
<1>4. q \in Nat \ {0}
  <2>1. d * d \in Nat \ {0}
    BY SquareType
  <2> HIDE DEF q
  <2> QED BY <1>3, <2>1, ProductType DEF q
<1>5. (m * d) * (m * d) * m = (m * m) * q
  OBVIOUS
<1>6. (m * m) * q > (z * z * n) * q
  <2> DEFINE x == m * m
             y == z * z * n
  <2>1. x \in Int /\ y \in Int /\ x > y
    OBVIOUS
  <2> HIDE DEF x, y, q
  <2>2. x * q > y * q
    BY <1>4, <2>1
  <2> QED BY <2>2 DEF x, y
<1> HIDE DEF off, spread, q
<1>7. off * off * m > z * z * n * spread
  BY <1>1, <1>2, <1>5, <1>6
<1>8. n - 1 = m
  OBVIOUS
<1>9. off * off * (n - 1) > z * z * n * spread
  BY <1>7, <1>8
<1> QED BY <1>1, <1>2, <1>4, <1>9 DEF off, spread

LEMMA ReversionReverts ==
  ASSUME NEW history \in Seq(Nat), Lookback <= Len(history), NEW c \in Nat,
         \A k \in (Len(history) - Lookback + 1)..(Len(history) - 1) : history[k] = c,
         Last(history) # c,
         (Lookback - 1) * (Lookback - 1) > ZEntry * ZEntry * Lookback
  PROVE  mean_reversion(history) = -Sign(Last(history) - c)
<1> DEFINE x == Last(history)
           n == Lookback
           m == Lookback - 1
           d == x - c
           window == Window(history, n)
           squares == [k \in DOMAIN window |-> window[k] * window[k]]
           off == n * x - Total(window)
           spread == n * Squares(window) - Total(window) * Total(window)
<1>1. /\ n \in Nat \ {0} /\ m \in Nat /\ n = m + 1 /\ ZEntry \in Nat
      /\ Len(history) \in Nat /\ history \in Seq(Int) /\ Len(history) \in 1..Len(history)
  BY StrategyAssumption
<1>2. x = history[Len(history)] /\ x \in Nat
  BY <1>1 DEF Last
<1>3. /\ window \in Seq(Int) /\ Len(window) = n
      /\ \A k \in 1..n : window[k] = history[Len(history) - n + k]
  BY <1>1, WindowIs
<1>4. window[m + 1] = x /\ \A k \in 1..m : window[k] = c
  <2>1. /\ m + 1 \in 1..n /\ Len(history) - n + (m + 1) = Len(history)
        /\ \A k \in 1..m : /\ k \in 1..n
                             /\ Len(history) - n + k \in (Len(history) - n + 1)..(Len(history) - 1)
    BY <1>1
  <2>2. window[m + 1] = history[Len(history) - n + (m + 1)]
    BY <1>3, <2>1
  <2>3. window[m + 1] = x
    BY <1>2, <2>1, <2>2
  <2>4. ASSUME NEW k \in 1..m PROVE window[k] = c
    BY <1>3, <2>1
  <2> QED BY <2>3, <2>4
<1> HIDE DEF x, window, m
<1>5. Total(window) = m * c + x
  <2>1. /\ window \in Seq(Int) /\ m \in Nat /\ c \in Int /\ x \in Int
        /\ Len(window) = m + 1
    BY <1>1, <1>2, <1>3
  <2>2. window[m + 1] = x
    BY <1>4
  <2>3. \A k \in 1..m : window[k] = c
    BY <1>4
  <2> QED BY <2>1, <2>2, <2>3, FlatSum
<1>6. Squares(window) = m * (c * c) + x * x
  <2>1. /\ squares \in Seq(Int) /\ Len(squares) = n
        /\ \A k \in 1..n : squares[k] = window[k] * window[k]
    <3>1. DOMAIN window = 1..n /\ \A k \in 1..n : window[k] \in Int
      BY <1>1, <1>3
    <3>2. \A k \in 1..n : window[k] * window[k] \in Int
      BY <3>1, SquareType
    <3> QED BY <1>1, <3>1, <3>2
  <2>2. squares[m + 1] = x * x /\ \A k \in 1..m : squares[k] = c * c
    <3>1. m + 1 \in 1..n /\ \A k \in 1..m : k \in 1..n
      BY <1>1
    <3> HIDE DEF squares
    <3> QED BY <1>4, <2>1, <3>1
  <2>3. c * c \in Int /\ x * x \in Int
    BY <1>2, SquareType
  <2>4. Squares(window) = Total(squares)
    BY DEF Squares
  <2>5. Len(squares) = m + 1
    BY <1>1, <2>1
  <2> HIDE DEF squares
  <2>6. Total(squares) = m * (c * c) + x * x
    <3> DEFINE cc == c * c
               xx == x * x
    <3>1. /\ squares \in Seq(Int) /\ m \in Nat /\ cc \in Int /\ xx \in Int
          /\ Len(squares) = m + 1
      BY <1>1, <2>1, <2>3, <2>5
    <3>2. squares[m + 1] = xx /\ \A k \in 1..m : squares[k] = cc
      BY <2>2
    <3> HIDE DEF cc, xx
    <3>3. Total(squares) = m * cc + xx
      BY <3>1, <3>2, FlatSum
    <3> QED BY <3>3 DEF cc, xx
  <2> QED BY <2>4, <2>6
<1>7. d \in Int /\ d # 0 /\ x = c + d
  BY <1>2 DEF x
<1>8. m * m > ZEntry * ZEntry * (m + 1)
  BY <1>1 DEF m
<1>9. /\ off = m * d /\ spread # 0
      /\ off * off * (n - 1) > ZEntry * ZEntry * n * spread
  <2> HIDE DEF d
  <2>1. /\ off = (m + 1) * (c + d) - (m * c + (c + d))
        /\ spread = (m + 1) * (m * (c * c) + (c + d) * (c + d))
                      - (m * c + (c + d)) * (m * c + (c + d))
    BY <1>1, <1>5, <1>6, <1>7
  <2> DEFINE Off == (m + 1) * (c + d) - (m * c + (c + d))
             Spread == (m + 1) * (m * (c * c) + (c + d) * (c + d))
                         - (m * c + (c + d)) * (m * c + (c + d))
  <2> HIDE DEF off, spread
  <2>2. /\ n = m + 1
        /\ m \in Nat /\ c \in Int /\ d \in Int /\ ZEntry \in Nat
        /\ d # 0 /\ m * m > ZEntry * ZEntry * (m + 1)
    BY <1>1, <1>7, <1>8
  <2>3. /\ Off = m * d /\ Spread # 0
        /\ Off * Off * ((m + 1) - 1) > ZEntry * ZEntry * (m + 1) * Spread
    BY <2>2, FlatDeviation, ZenonT(60)
  <2>4. off = Off /\ spread = Spread
    BY <2>1
  <2> HIDE DEF Off, Spread
  <2> QED BY <2>2, <2>3, <2>4, Zenon
<1>10. mean_reversion(history) = -Sign(off)
  <2>1. ~(Len(history) < n \/ spread = 0)
    BY <1>1, <1>9
  <2> QED BY <1>9, <2>1 DEF mean_reversion, x, window
<1>11. Sign(off) = Sign(d)
  <2>1. m # 0
    <3>1. ASSUME m = 0 PROVE FALSE
      <4>1. ZEntry * ZEntry * (0 + 1) \in Nat
        BY <1>1
      <4> QED BY <1>8, <3>1, <4>1
    <3> QED BY <3>1
  <2> HIDE DEF off, d
  <2>2. /\ m * d \in Int
        /\ d > 0 => m * d > 0
        /\ d < 0 => m * d < 0
    BY <1>1, <1>7, <2>1
  <2> QED BY <1>7, <1>9, <2>2 DEF Sign
<1> QED BY <1>10, <1>11 DEF x

\* The signal is that of the bars up to the one decided last, whose number the next
\* fold keeps.
SignalInv == bar >= 0 => signal \in generate_signal(History(bar))

LEMMA HistoryIs ==
  ASSUME TypeInv, NEW i \in 0..(NBars - 1)
  PROVE  /\ History(i) \in Seq(Nat) /\ Len(History(i)) = i + 1
         /\ \A k \in 1..(i + 1) : History(i)[k] = closes[k - 1]
<1>1. i \in Nat /\ i + 1 \in Nat /\ \A k \in 1..(i + 1) : k - 1 \in 0..(NBars - 1)
  BY EngineAssumption
<1>2. \A k \in 1..(i + 1) : closes[k - 1] \in Nat
  BY <1>1, EngineAssumption DEF TypeInv, TypeOK
<1> QED BY <1>1, <1>2 DEF History

LEMMA SignalStep == TypeInv /\ SignalInv /\ [Next]_vars => SignalInv'
<1> SUFFICES ASSUME TypeInv, SignalInv, [Next]_vars PROVE SignalInv'
  OBVIOUS
<1>1. \A i : History(i)' = History(i)
  BY DEF Next, DecideBar, NextFold, vars, setup, History
<1>2. \A h : generate_signal(h)' = generate_signal(h)
  BY DEF Next, DecideBar, NextFold, vars, setup, generate_signal
<1>3. CASE DecideBar
  <2>1. bar' = next /\ signal' \in generate_signal(History(next))
    BY <1>3 DEF DecideBar
  <2> QED BY <1>1, <1>2, <2>1 DEF SignalInv
<1>4. CASE NextFold \/ UNCHANGED vars
  <2>1. bar' = bar /\ signal' = signal
    BY <1>4 DEF NextFold, vars
  <2> QED BY <1>1, <1>2, <2>1 DEF SignalInv
<1> QED BY <1>3, <1>4 DEF Next

\* Momentum follows prices that left the range of its slow window within the fast
\* one; mean reversion never follows a last close that stands out, and bets against
\* one that leaves a flat window, if that is beyond its threshold at all.
THEOREM SignalsAreTrue == Spec => []SignalsFollowTheirNames
<1>1. Init => SignalInv
  BY DEF Init, SignalInv
<1>2. ASSUME TypeInv, SignalInv PROVE SignalsFollowTheirNames
  <2> SUFFICES ASSUME NEW way \in {-1, 1}, bar >= warmup_bars
               PROVE  /\ strategy = "momentum"
                           /\ StandOut((bar - Fast + 1)..bar, (bar - Slow + 1)..(bar - Fast), way)
                         => signal = way
                      /\ strategy = "mean_reversion" /\ StandOut({bar}, Before, way)
                         => signal # way /\ (FlatBefore => signal = -way)
    BY DEF SignalsFollowTheirNames
  <2> DEFINE history == History(bar)
  <2>1. bar \in 0..(NBars - 1) /\ bar \in Nat /\ bar + 1 \in Nat
    <3>1. warmup_bars \in Nat
      BY EngineAssumption, StrategyAssumption DEF warmup_bars
    <3> QED BY <3>1, <1>2, EngineAssumption DEF TypeInv, TypeOK
  <2>2. /\ history \in Seq(Nat) /\ Len(history) = bar + 1
        /\ \A k \in 1..(bar + 1) : history[k] = closes[k - 1]
    BY <1>2, <2>1, HistoryIs
  <2>3. signal \in generate_signal(history)
    BY <1>2, <2>1 DEF SignalInv
  <2>4. \A k \in 0..bar : closes[k] \in Nat
    <3>1. \A k \in 0..bar : k \in 0..(NBars - 1)
      BY <2>1, EngineAssumption
    <3> QED BY <1>2, <3>1, EngineAssumption DEF TypeInv, TypeOK
  <2>5. \A i, j \in Nat : /\ Sign(j - i) = 1 <=> j > i
                          /\ Sign(j - i) = -1 <=> j < i
    BY DEF Sign
  <2> HIDE DEF history
  <2>6. ASSUME strategy = "momentum",
               StandOut((bar - Fast + 1)..bar, (bar - Slow + 1)..(bar - Fast), way)
        PROVE  signal = way
    <3> DEFINE old == [k \in 1..(Slow - Fast) |-> closes[bar - Slow + k]]
               recent == [k \in 1..Fast |-> closes[bar - Fast + k]]
    <3>1. /\ Fast \in Nat \ {0} /\ Slow \in Nat /\ Fast < Slow /\ Slow <= bar
          /\ Slow - Fast \in Nat
      BY <2>6, StrategyAssumption DEF warmup_bars
    <3>2. signal = momentum(history)
      BY <2>3, <2>6 DEF generate_signal
    <3>3. /\ \A k \in 1..(Slow - Fast) : /\ bar - Slow + k \in 0..bar
                                         /\ bar - Slow + k \in (bar - Slow + 1)..(bar - Fast)
          /\ \A k \in 1..Fast : /\ bar - Fast + k \in 0..bar
                                /\ bar - Fast + k \in (bar - Fast + 1)..bar
      BY <2>1, <3>1
    <3>4. old \in Seq(Nat) /\ Len(old) = Slow - Fast /\ recent \in Seq(Nat) /\ Len(recent) = Fast
      BY <2>4, <3>1, <3>3
    <3>5. ASSUME NEW k \in 1..(Slow - Fast) PROVE old[k] = history[Len(history) - Slow + k]
      <4>1. /\ Len(history) - Slow + k \in 1..(bar + 1)
            /\ (Len(history) - Slow + k) - 1 = bar - Slow + k
        BY <2>1, <2>2, <3>1
      <4> QED BY <2>2, <4>1
    <3>6. ASSUME NEW k \in 1..Fast PROVE recent[k] = history[Len(history) - Fast + k]
      <4>1. /\ Len(history) - Fast + k \in 1..(bar + 1)
            /\ (Len(history) - Fast + k) - 1 = bar - Fast + k
        BY <2>1, <2>2, <3>1
      <4> QED BY <2>2, <4>1
    <3>7. StandApart(old, recent, way)
      <4>1. \A j \in 1..Fast : \A i \in 1..(Slow - Fast) : Sign(recent[j] - old[i]) = way
        BY <2>6, <3>3 DEF StandOut
      <4> HIDE DEF old, recent
      <4> QED BY <3>4, <4>1 DEF StandApart
    <3> HIDE DEF old, recent
    <3>8. Slow <= Len(history)
      BY <2>1, <2>2, <3>1
    <3>9. momentum(history) = way
      <4>1. /\ old \in Seq(Nat) /\ recent \in Seq(Nat)
            /\ Len(old) = Slow - Fast /\ Len(recent) = Fast
            /\ \A k \in 1..(Slow - Fast) : old[k] = history[Len(history) - Slow + k]
            /\ \A k \in 1..Fast : recent[k] = history[Len(history) - Fast + k]
        BY <3>4, <3>5, <3>6
      <4> QED BY <2>2, <3>7, <3>8, <4>1, MomentumFollows
    <3> QED BY <3>2, <3>9
  <2>7. ASSUME strategy = "mean_reversion", StandOut({bar}, Before, way)
        PROVE  signal # way /\ (FlatBefore => signal = -way)
    <3> DEFINE x == Last(history)
               seen == (Len(history) - Lookback + 1)..Len(history)
    <3>1. Lookback \in Nat \ {0} /\ Lookback <= bar /\ Lookback <= Len(history)
      <4>1. Lookback \in Nat \ {0} /\ Lookback <= bar
        BY <2>7, StrategyAssumption DEF warmup_bars
      <4> QED BY <2>1, <2>2, <4>1
    <3>2. signal = mean_reversion(history)
      BY <2>3, <2>7 DEF generate_signal
    <3>3. x = closes[bar]
      <4>1. Len(history) \in 1..(bar + 1) /\ Len(history) - 1 = bar
        BY <2>1, <2>2
      <4> QED BY <2>2, <4>1 DEF Last
    <3>4. ASSUME NEW k \in seen
          PROVE  /\ history[k] \in Nat /\ x \in Nat
                 /\ (history[k] = x \/ Sign(x - history[k]) = way)
      <4>1. /\ k \in 1..(bar + 1) /\ k - 1 \in 0..bar /\ bar \in 0..bar
            /\ (k - 1 = bar \/ k - 1 \in (bar - Lookback + 1)..(bar - 1))
        BY <2>1, <2>2, <3>1
      <4>2. history[k] = closes[k - 1]
        BY <2>2, <4>1
      <4>3. history[k] = x \/ Sign(x - history[k]) = way
        BY <2>7, <3>3, <4>1, <4>2 DEF StandOut, Before
      <4> HIDE DEF x
      <4> QED BY <2>4, <3>3, <4>1, <4>2, <4>3
    <3> HIDE DEF x
    <3>5. ASSUME way = 1 PROVE signal # way
      <4>1. \A k \in seen : history[k] <= x
        <5> SUFFICES ASSUME NEW k \in seen PROVE history[k] <= x
          OBVIOUS
        <5>1. /\ history[k] \in Nat /\ x \in Nat
              /\ (history[k] = x \/ Sign(x - history[k]) = way)
          BY <3>4
        <5> QED BY <2>5, <3>5, <5>1
      <4> QED BY <2>2, <3>1, <3>2, <3>5, <4>1, ReversionLeans DEF x
    <3>6. ASSUME way = -1 PROVE signal # way
      <4>1. \A k \in seen : history[k] >= x
        <5> SUFFICES ASSUME NEW k \in seen PROVE history[k] >= x
          OBVIOUS
        <5>1. /\ history[k] \in Nat /\ x \in Nat
              /\ (history[k] = x \/ Sign(x - history[k]) = way)
          BY <3>4
        <5> QED BY <2>5, <3>6, <5>1
      <4> QED BY <2>2, <3>1, <3>2, <3>6, <4>1, ReversionLeans DEF x
    <3>7. ASSUME FlatBefore PROVE signal = -way
      <4>1. Lookback - 1 \in Nat /\ Lookback - 1 # 0
        <5>1. (Lookback - 1) * (Lookback - 1) > ZEntry * ZEntry * Lookback
          BY <3>7 DEF FlatBefore
        <5>2. ASSUME Lookback = 1 PROVE FALSE
          <6>1. ZEntry * ZEntry * 1 \in Nat
            BY StrategyAssumption
          <6> QED BY <5>1, <5>2, <6>1
        <5> QED BY <3>1, <5>2
      <4> DEFINE c == closes[bar - 1]
      <4>2. /\ bar - 1 \in Before /\ bar - 1 \in 0..bar /\ bar \in 0..bar
        BY <2>1, <3>1, <4>1 DEF Before
      <4>3. c \in Nat /\ x \in Nat /\ Sign(x - c) = way
        BY <2>4, <2>7, <3>3, <4>2 DEF StandOut
      <4>4. x # c
        BY <4>3 DEF Sign
      <4>5. ASSUME NEW k \in (Len(history) - Lookback + 1)..(Len(history) - 1)
            PROVE  history[k] = c
        <5>1. k \in 1..(bar + 1) /\ k - 1 \in Before
          BY <2>1, <2>2, <3>1 DEF Before
        <5>2. closes[k - 1] = c
          BY <3>7, <4>2, <5>1 DEF FlatBefore
        <5> QED BY <2>2, <5>1, <5>2
      <4>6. (Lookback - 1) * (Lookback - 1) > ZEntry * ZEntry * Lookback
        BY <3>7 DEF FlatBefore
      <4> HIDE DEF c
      <4>7. mean_reversion(history) = -Sign(x - c)
        BY <2>2, <3>1, <4>3, <4>4, <4>5, <4>6, ReversionReverts DEF x
      <4> QED BY <3>2, <4>3, <4>7
    <3> QED BY <3>5, <3>6, <3>7
  <2> QED BY <2>6, <2>7
<1> QED BY <1>1, <1>2, TypeInit, TypeStep, SignalStep, PTL DEF Spec
===============================================================================
