------------------------ MODULE PositionLedgerProofs ------------------------
(***************************************************************************)
(* Proof that the ledger accounts for every lot and, up to the rounding of *)
(* its averages, for every tick, for any markets and fills.                *)
(***************************************************************************)
EXTENDS PositionLedger, FiniteSums, TLAPS

\* The balance of one market's record.
Balanced(p) ==
    /\ p.net_qty_lots = p.bought_qty_lots - p.sold_qty_lots
    /\ p.bought_qty_lots + p.sold_qty_lots = abs_qty(p.net_qty_lots) + 2 * p.closed_qty_lots
    /\ p.has_open_price <=> p.net_qty_lots # 0

\* The average of an open position lies within the prices that built it.
InRange(p, h) ==
    p.net_qty_lots # 0 => h.low <= p.avg_open_price_ticks /\ p.avg_open_price_ticks <= h.high

\* What the books say too much: profit less the value of cash and position.
Excess(p, h) ==
    p.realized_pnl_ticks - (h.cash + p.avg_open_price_ticks * p.net_qty_lots)

Conserved(p, h) == abs_qty(Excess(p, h)) <= h.rounding

-----------------------------------------------------------------------------
(* Arithmetic                                                              *)

\* std::min of two quantities.
LEMMA MinOfTwo ==
    ASSUME NEW a \in Int, NEW b \in Int
    PROVE  Min({a, b}) = IF a <= b THEN a ELSE b
<1> DEFINE m == IF a <= b THEN a ELSE b
<1>1. /\ m \in {a, b}
      /\ \A y \in {a, b} : m <= y
  OBVIOUS
<1>2. \A x \in {a, b} : (\A y \in {a, b} : x <= y) => x = m
  OBVIOUS
<1>. QED
  BY Zenon, <1>1, <1>2 DEF Min

\* Likewise for the higher of two prices.
LEMMA MaxOfTwo ==
    ASSUME NEW a \in Int, NEW b \in Int
    PROVE  Max({a, b}) = IF a >= b THEN a ELSE b
<1> DEFINE m == IF a >= b THEN a ELSE b
<1>1. /\ m \in {a, b}
      /\ \A y \in {a, b} : m >= y
  OBVIOUS
<1>2. \A x \in {a, b} : (\A y \in {a, b} : x >= y) => x = m
  OBVIOUS
<1>. QED
  BY Zenon, <1>1, <1>2 DEF Max

\* Multiplication by a quantity keeps the order of prices.
LEMMA ProductMonotone ==
    ASSUME NEW x \in Int, NEW y \in Int, NEW k \in Nat, x <= y
    PROVE  x * k <= y * k
OBVIOUS

\* Division of a natural number, between the bounds its numerator has.
LEMMA QuotientBounds ==
    ASSUME NEW a \in Nat, NEW b \in Nat, b > 0
    PROVE  /\ a \div b \in Int
           /\ b * (a \div b) <= a
           /\ a < b * (a \div b) + b
           /\ \A low \in Int : low * b <= a => low <= a \div b
           /\ \A high \in Int : a <= high * b => a \div b <= high
<1> DEFINE t == a \div b
<1>1. t \in Int /\ b * t <= a /\ a < b * t + b
  OBVIOUS
<1>2. ASSUME NEW low \in Int, low * b <= a, t <= low - 1 PROVE FALSE
  BY <1>1, <1>2, ProductMonotone
<1>3. ASSUME NEW high \in Int, a <= high * b, high + 1 <= t PROVE FALSE
  BY <1>1, <1>3, ProductMonotone
<1>. QED
  BY <1>1, <1>2, <1>3

\* Truncating division loses less than the divisor, and stays within the
\* bounds its numerator has.
LEMMA TruncatedQuotientBounds ==
    ASSUME NEW a \in Int, NEW b \in Nat, b > 0
    PROVE  /\ TruncatedQuotient(a, b) \in Int
           /\ abs_qty(a - b * TruncatedQuotient(a, b)) <= b - 1
           /\ \A low \in Int : low * b <= a => low <= TruncatedQuotient(a, b)
           /\ \A high \in Int : a <= high * b => TruncatedQuotient(a, b) <= high
<1>1. CASE a >= 0
  <2>1. TruncatedQuotient(a, b) = a \div b /\ a \in Nat
    BY <1>1 DEF TruncatedQuotient
  <2>. QED
    BY <2>1, QuotientBounds DEF abs_qty
<1>2. CASE a < 0
  <2> DEFINE t == (-a) \div b
  <2>1. TruncatedQuotient(a, b) = -t /\ -a \in Nat
    BY <1>2 DEF TruncatedQuotient
  <2>2. /\ t \in Int
        /\ b * t <= -a
        /\ -a < b * t + b
        /\ \A low \in Int : low * b <= -a => low <= t
        /\ \A high \in Int : -a <= high * b => t <= high
    BY Zenon, <2>1, QuotientBounds
  <2> HIDE DEF t
  <2>3. abs_qty(a - b * (-t)) <= b - 1
    BY <2>2 DEF abs_qty
  <2>4. ASSUME NEW low \in Int, low * b <= a PROVE low <= -t
    <3>1. -low \in Int /\ -a <= (-low) * b
      BY <2>4
    <3>. QED
      BY <2>2, <3>1
  <2>5. ASSUME NEW high \in Int, a <= high * b PROVE -t <= high
    <3>1. -high \in Int /\ (-high) * b <= -a
      BY <2>5
    <3>. QED
      BY <2>2, <3>1
  <2>. QED
    BY <2>1, <2>2, <2>3, <2>4, <2>5
<1>. QED
  BY <1>1, <1>2

\* The lots a fill closes: none unless it goes against the position, then as
\* many as both have.
LEMMA ClosedQtyValue ==
    ASSUME NEW net \in Int, NEW signed \in Int
    PROVE  /\ ClosedQty(net, signed) \in Nat
           /\ net = 0 \/ SameDirection(net, signed) => ClosedQty(net, signed) = 0
           /\ ~(net = 0 \/ SameDirection(net, signed)) =>
                  ClosedQty(net, signed) =
                      IF abs_qty(net) <= abs_qty(signed) THEN abs_qty(net) ELSE abs_qty(signed)
<1>1. abs_qty(net) \in Nat /\ abs_qty(signed) \in Nat
  BY DEF abs_qty
<1>2. Min({abs_qty(net), abs_qty(signed)})
        = IF abs_qty(net) <= abs_qty(signed) THEN abs_qty(net) ELSE abs_qty(signed)
  BY <1>1, MinOfTwo
<1>. QED
  BY Zenon, <1>1, <1>2 DEF ClosedQty

\* The profit of a fill is an integer.
LEMMA RealizedPnlType ==
    ASSUME NEW p \in MarketPositionState, NEW signed \in Int, NEW price \in Int
    PROVE  RealizedPnl(p, signed, price) \in Int
<1>1. ClosedQty(p.net_qty_lots, signed) \in Nat
  BY Zenon, ClosedQtyValue DEF MarketPositionState
<1>2. \A gain \in Int : gain * ClosedQty(p.net_qty_lots, signed) \in Int
  BY <1>1
<1>3. price - p.avg_open_price_ticks \in Int /\ p.avg_open_price_ticks - price \in Int
  BY DEF MarketPositionState
<1>. QED
  BY Zenon, <1>2, <1>3 DEF RealizedPnl

\* apply_fill writes a well-formed position back.
LEMMA FilledPositionType ==
    ASSUME NEW p \in MarketPositionState, NEW signed \in Int, NEW price \in Int, signed # 0
    PROVE  FilledPosition(p, signed, price) \in MarketPositionState
<1> DEFINE net == p.net_qty_lots
           avg == p.avg_open_price_ticks
<1>1. net \in Int /\ avg \in Int
  BY Zenon DEF MarketPositionState
<1>2. ClosedQty(net, signed) \in Nat
  BY Zenon, <1>1, ClosedQtyValue
<1>3. AveragePrice(p, signed, price) \in Int
  <2>1. /\ abs_qty(net) \in Nat
        /\ abs_qty(signed) \in Nat
        /\ abs_qty(net) + abs_qty(signed) \in Nat
        /\ abs_qty(net) + abs_qty(signed) > 0
    BY <1>1 DEF abs_qty
  <2>2. avg * abs_qty(net) + price * abs_qty(signed) \in Int
    BY <1>1, <2>1
  <2>3. TruncatedQuotient(avg * abs_qty(net) + price * abs_qty(signed),
                          abs_qty(net) + abs_qty(signed)) \in Int
    BY Zenon, <2>1, <2>2, TruncatedQuotientBounds
  <2>. QED
    BY Zenon, <1>1, <2>3 DEF AveragePrice
<1>4. RealizedPnl(p, signed, price) \in Int
  BY Zenon, RealizedPnlType
<1>5. StillOpen(p, signed) \in BOOLEAN
  BY Zenon DEF StillOpen, MarketPositionState
<1>. QED
  BY <1>1, <1>2, <1>3, <1>4, <1>5 DEF FilledPosition, MarketPositionState

\* A fill keeps the balance of its market, whichever of the four ways it moves
\* the position: open, add, reduce or flip.
LEMMA FilledPositionBalanced ==
    ASSUME NEW p \in MarketPositionState, NEW signed \in Int, NEW price \in Int,
           signed # 0, Balanced(p)
    PROVE  Balanced(FilledPosition(p, signed, price))
<1> DEFINE q == FilledPosition(p, signed, price)
           net == p.net_qty_lots
<1>1. /\ net \in Int
      /\ p.bought_qty_lots \in Nat
      /\ p.sold_qty_lots \in Nat
      /\ p.closed_qty_lots \in Nat
      /\ p.has_open_price \in BOOLEAN
  BY Zenon DEF MarketPositionState
<1>2. /\ q.net_qty_lots = net + signed
      /\ q.bought_qty_lots = p.bought_qty_lots + (IF signed > 0 THEN signed ELSE 0)
      /\ q.sold_qty_lots = p.sold_qty_lots + (IF signed > 0 THEN 0 ELSE -signed)
      /\ q.closed_qty_lots = p.closed_qty_lots + ClosedQty(net, signed)
      /\ q.has_open_price = StillOpen(p, signed)
  BY Zenon DEF FilledPosition
<1>3. q.net_qty_lots = q.bought_qty_lots - q.sold_qty_lots
  BY <1>1, <1>2 DEF Balanced
<1>4. q.bought_qty_lots + q.sold_qty_lots
        = p.bought_qty_lots + p.sold_qty_lots + abs_qty(signed)
  BY <1>1, <1>2 DEF abs_qty
<1>5. abs_qty(net + signed) + 2 * ClosedQty(net, signed) = abs_qty(net) + abs_qty(signed)
  <2> DEFINE IsClosed(k) ==
          /\ net = 0 \/ SameDirection(net, signed) => k = 0
          /\ ~(net = 0 \/ SameDirection(net, signed)) =>
                 k = IF abs_qty(net) <= abs_qty(signed) THEN abs_qty(net) ELSE abs_qty(signed)
  <2>1. ClosedQty(net, signed) \in Nat /\ IsClosed(ClosedQty(net, signed))
    BY Zenon, <1>1, ClosedQtyValue
  <2>2. \A k \in Nat : IsClosed(k) =>
            abs_qty(net + signed) + 2 * k = abs_qty(net) + abs_qty(signed)
    BY <1>1 DEF abs_qty, SameDirection
  <2>. QED
    BY Zenon, <2>1, <2>2
<1>6. q.bought_qty_lots + q.sold_qty_lots = abs_qty(q.net_qty_lots) + 2 * q.closed_qty_lots
  <2>1. /\ ClosedQty(net, signed) \in Nat
        /\ abs_qty(net + signed) \in Nat
        /\ abs_qty(net) \in Nat
        /\ abs_qty(signed) \in Nat
    <3>1. ClosedQty(net, signed) \in Nat
      BY Zenon, <1>1, ClosedQtyValue
    <3>. QED
      BY <1>1, <3>1 DEF abs_qty
  <2>. QED
    BY <1>1, <1>2, <1>4, <1>5, <2>1 DEF Balanced
<1>7. q.has_open_price <=> q.net_qty_lots # 0
  <2>1. ~SameDirection(net, signed) /\ abs_qty(signed) < abs_qty(net) =>
            net # 0 /\ net + signed # 0
    BY <1>1 DEF abs_qty
  <2>. QED
    BY Zenon, <1>2, <2>1 DEF StillOpen, Balanced
<1>. QED
  BY Zenon, <1>3, <1>6, <1>7 DEF Balanced

\* A fill keeps the average of an open position within the prices that built it.
LEMMA FilledPositionInRange ==
    ASSUME NEW p \in MarketPositionState, NEW h \in FillHistory,
           NEW signed \in Int, NEW price \in Int, signed # 0, InRange(p, h)
    PROVE  InRange(FilledPosition(p, signed, price),
                   FilledHistory(h, p.net_qty_lots, signed, price))
<1> DEFINE net == p.net_qty_lots
           avg == p.avg_open_price_ticks
           avg2 == AveragePrice(p, signed, price)
           g == FilledHistory(h, net, signed, price)
<1>1. net \in Int /\ avg \in Int /\ h.low \in Int /\ h.high \in Int
  BY Zenon DEF MarketPositionState, FillHistory
<1>2. SUFFICES ASSUME net + signed # 0
               PROVE  g.low <= avg2 /\ avg2 <= g.high
  BY Zenon DEF InRange, FilledPosition
<1>3. CASE SameDirection(net, signed)
  <2> DEFINE a == abs_qty(net)
             b == abs_qty(signed)
             low == IF h.low <= price THEN h.low ELSE price
             high == IF h.high >= price THEN h.high ELSE price
  <2>1. a \in Nat /\ b \in Nat /\ a + b \in Nat /\ a + b > 0
    BY <1>1 DEF abs_qty
  <2>2. g.low = low /\ g.high = high
    BY Zenon, <1>1, <1>3, MinOfTwo, MaxOfTwo DEF FilledHistory
  <2>3. avg2 = TruncatedQuotient(avg * a + price * b, a + b)
    BY Zenon, <1>3 DEF AveragePrice
  <2>4. /\ low \in Int /\ high \in Int
        /\ low <= avg /\ low <= price
        /\ avg <= high /\ price <= high
    BY <1>1, <1>3 DEF InRange, SameDirection
  <2> HIDE DEF a, b, low, high
  <2>5. /\ low * a <= avg * a /\ low * b <= price * b
        /\ avg * a <= high * a /\ price * b <= high * b
    BY Zenon, <1>1, <2>1, <2>4, ProductMonotone
  <2>6. /\ low * (a + b) <= avg * a + price * b
        /\ avg * a + price * b <= high * (a + b)
        /\ avg * a + price * b \in Int
    BY <1>1, <2>1, <2>4, <2>5
  <2>. QED
    BY Zenon, <2>1, <2>2, <2>3, <2>4, <2>6, TruncatedQuotientBounds
<1>4. CASE ~SameDirection(net, signed) /\ abs_qty(signed) > abs_qty(net)
  BY <1>4 DEF AveragePrice, FilledHistory
<1>5. CASE ~SameDirection(net, signed) /\ ~(abs_qty(signed) > abs_qty(net))
  <2>1. net # 0
    BY <1>1, <1>5 DEF abs_qty
  <2>. QED
    BY Zenon, <1>5, <2>1 DEF AveragePrice, FilledHistory, InRange
<1>. QED
  BY Zenon, <1>3, <1>4, <1>5

\* A fill changes what the books say too much by no more than the truncation
\* of the average it computes, if it computes one.
LEMMA FilledPositionConserved ==
    ASSUME NEW p \in MarketPositionState, NEW h \in FillHistory,
           NEW signed \in Int, NEW price \in Int, signed # 0, Conserved(p, h)
    PROVE  Conserved(FilledPosition(p, signed, price),
                     FilledHistory(h, p.net_qty_lots, signed, price))
<1> DEFINE net == p.net_qty_lots
           avg == p.avg_open_price_ticks
           pnl == p.realized_pnl_ticks
           cash == h.cash
           closed == ClosedQty(net, signed)
           gain == RealizedPnl(p, signed, price)
           avg2 == AveragePrice(p, signed, price)
           q == FilledPosition(p, signed, price)
           g == FilledHistory(h, net, signed, price)
           old == pnl - (cash + avg * net)
           new == (pnl + gain) - ((cash - signed * price) + avg2 * (net + signed))
<1>1. /\ net \in Int /\ avg \in Int /\ pnl \in Int
      /\ cash \in Int /\ h.rounding \in Nat
      /\ gain \in Int
  BY Zenon, RealizedPnlType DEF MarketPositionState, FillHistory
<1>2. Excess(p, h) = old /\ Excess(q, g) = new
  <2>1. /\ q.realized_pnl_ticks = pnl + gain
        /\ q.avg_open_price_ticks = avg2
        /\ q.net_qty_lots = net + signed
        /\ g.cash = h.cash - signed * price
    BY Zenon DEF FilledPosition, FilledHistory
  <2>. QED
    BY <2>1, Zenon DEF Excess
<1>3. g.rounding = h.rounding
        + (IF SameDirection(net, signed) THEN abs_qty(net + signed) - 1 ELSE 0)
  BY Zenon DEF FilledHistory
<1>4. old \in Int /\ abs_qty(old) <= h.rounding
  BY <1>1, <1>2 DEF Conserved
<1>5. SUFFICES abs_qty(new) <= g.rounding
  BY Zenon, <1>2 DEF Conserved
<1>6. gain = (IF net > 0 THEN price - avg ELSE avg - price) * closed
  BY Zenon DEF RealizedPnl
<1>7. /\ closed \in Nat
      /\ net = 0 \/ SameDirection(net, signed) => closed = 0
      /\ ~(net = 0 \/ SameDirection(net, signed)) =>
             closed = IF abs_qty(net) <= abs_qty(signed) THEN abs_qty(net) ELSE abs_qty(signed)
  BY Zenon, <1>1, ClosedQtyValue
<1>8. CASE SameDirection(net, signed)
  <2> DEFINE a == abs_qty(net)
             b == abs_qty(signed)
             lost == (avg * a + price * b) - (a + b) * avg2
  <2>1. /\ a \in Nat /\ b \in Nat /\ a + b \in Nat /\ a + b > 0
        /\ abs_qty(net + signed) = a + b
        /\ (a = net /\ b = signed) \/ (a = -net /\ b = -signed)
    BY <1>1, <1>8 DEF abs_qty, SameDirection
  <2>2. avg2 = TruncatedQuotient(avg * a + price * b, a + b)
    BY Zenon, <1>8 DEF AveragePrice
  <2>3. avg * a + price * b \in Int
    BY <1>1, <2>1
  <2>4. avg2 \in Int /\ abs_qty(lost) <= (a + b) - 1
    BY <2>1, <2>2, <2>3, TruncatedQuotientBounds, Zenon
  <2>5. lost \in Int
    BY <1>1, <2>1, <2>4
  <2>6. new = old + lost \/ new = old - lost
    <3>1. gain = 0
      BY <1>1, <1>6, <1>7, <1>8
    <3> HIDE DEF net, avg, pnl, cash, gain, avg2, a, b
    <3>2. CASE a = net /\ b = signed
      BY <1>1, <2>4, <3>1, <3>2
    <3>3. CASE a = -net /\ b = -signed
      <4>1. /\ avg * a = -(avg * net) /\ price * b = -(price * signed)
            /\ (a + b) * avg2 = -((net + signed) * avg2)
        BY <1>1, <2>4, <3>3
      <4>2. lost = -(avg * net) - price * signed + (net + signed) * avg2
        BY <1>1, <2>4, <4>1
      <4>. QED
        BY <1>1, <2>4, <3>1, <4>2
    <3>. QED
      BY Zenon, <2>1, <3>2, <3>3
  <2>7. g.rounding = h.rounding + ((a + b) - 1)
    BY Zenon, <1>3, <1>8, <2>1
  <2> HIDE DEF old, new, lost, a, b
  <2>. QED
    BY <1>1, <1>4, <2>1, <2>4, <2>5, <2>6, <2>7 DEF abs_qty
<1>9. CASE ~SameDirection(net, signed)
  <2>1. \/ avg2 = price /\ gain = (price - avg) * net
        \/ avg2 = avg /\ gain = (avg - price) * signed
    <3>1. CASE abs_qty(signed) > abs_qty(net)
      <4>1. avg2 = price
        BY Zenon, <1>9, <3>1 DEF AveragePrice
      <4>2. closed = abs_qty(net)
        BY <1>1, <1>7, <1>9, <3>1 DEF abs_qty
      <4>3. gain = (price - avg) * net
        <5>1. CASE net > 0
          BY <1>1, <1>6, <4>2, <5>1 DEF abs_qty
        <5>2. CASE ~(net > 0)
          <6>1. closed = -net /\ gain = (avg - price) * closed
            BY <1>1, <1>6, <4>2, <5>2 DEF abs_qty
          <6>. QED
            BY <1>1, <6>1
        <5>. QED
          BY Zenon, <5>1, <5>2
      <4>. QED
        BY Zenon, <4>1, <4>3
    <3>2. CASE ~(abs_qty(signed) > abs_qty(net))
      <4>1. avg2 = avg
        BY Zenon, <1>9, <3>2 DEF AveragePrice
      <4>2. net # 0 /\ closed = abs_qty(signed)
        BY <1>1, <1>7, <1>9, <3>2 DEF abs_qty
      <4>3. CASE net > 0
        <5>1. closed = -signed /\ gain = (price - avg) * closed
          BY <1>1, <1>6, <1>9, <4>2, <4>3 DEF abs_qty, SameDirection
        <5>. QED
          BY <1>1, <4>1, <5>1
      <4>4. CASE net < 0
        <5>1. closed = signed /\ gain = (avg - price) * closed
          BY <1>1, <1>6, <1>9, <4>2, <4>4 DEF abs_qty, SameDirection
        <5>. QED
          BY Zenon, <4>1, <5>1
      <4>. QED
        BY <1>1, <4>2, <4>3, <4>4
    <3>. QED
      BY Zenon, <3>1, <3>2
  <2>2. avg2 \in Int
    BY Zenon, <1>1, <2>1
  <2>3. new = old
    <3> HIDE DEF net, avg, pnl, cash, gain, avg2
    <3>. QED
      BY <1>1, <2>1, <2>2
  <2>4. g.rounding = h.rounding
    BY <1>1, <1>3, <1>9
  <2>. QED
    BY Zenon, <1>4, <2>3, <2>4
<1>. QED
  BY Zenon, <1>8, <1>9

-----------------------------------------------------------------------------
(* The invariant.  The properties are kept together because each market's   *)
(* record must be well typed (average and profit integers, quantities        *)
(* natural numbers) for the arithmetic of the others.  Finitely many fills   *)
(* have touched finitely many markets, so there is a sum over them.          *)

IInv ==
    /\ TypeOK
    /\ LotsBalance
    /\ AverageWithinFills
    /\ PnlConserved
    /\ IsFiniteSet(DOMAIN positions)
    /\ TotalsAgree

\* apply_fill keeps the types, the lots and the money of every market.
LEMMA FillKeepsInvariant ==
    ASSUME IInv, NEW update \in OrderStateUpdate, IsFill(update), apply_fill(update)
    PROVE  IInv'
<1> DEFINE m == update.market_ticker
           p == PositionOf(m)
           h == HistoryOf(m)
           signed == SignedFill(update)
           price == update.fill_price_ticks
           net == p.net_qty_lots
           q == FilledPosition(p, signed, price)
           g == FilledHistory(h, net, signed, price)
<1>1. /\ m \in Markets
      /\ signed \in Int
      /\ signed # 0
      /\ price \in Int
  BY DEF IsFill, SignedFill, side_to_signed_qty, OrderStateUpdate
<1>2. p \in MarketPositionState /\ Balanced(p)
  BY DEF IInv, TypeOK, LotsBalance, Balanced, PositionOf, NoPosition, MarketPositionState,
         abs_qty
<1>3. /\ h \in FillHistory
      /\ InRange(p, h)
      /\ Conserved(p, h)
  <2>1. CASE m \in DOMAIN positions
    BY Zenon, <2>1 DEF IInv, TypeOK, AverageWithinFills, PnlConserved, PositionOf, HistoryOf,
       InRange, Conserved, Excess
  <2>2. CASE m \notin DOMAIN positions
    BY <2>2 DEF IInv, TypeOK, PositionOf, HistoryOf, NoPosition, NoHistory, FillHistory,
       InRange, Conserved, Excess, abs_qty
  <2>. QED
    BY Zenon, <2>1, <2>2
<1>4. q \in MarketPositionState /\ Balanced(q)
  BY Zenon, <1>1, <1>2, FilledPositionType, FilledPositionBalanced
<1>5. g \in FillHistory
  <2>1. /\ net \in Int
        /\ h.cash \in Int
        /\ h.rounding \in Nat
        /\ h.low \in Int
        /\ h.high \in Int
    BY Zenon, <1>2, <1>3 DEF MarketPositionState, FillHistory
  <2>2. h.cash - signed * price \in Int
    BY <1>1, <2>1
  <2>3. SameDirection(net, signed) => abs_qty(net + signed) - 1 \in Nat
    BY <1>1, <2>1 DEF SameDirection, abs_qty
  <2>4. Min({h.low, price}) \in Int /\ Max({h.high, price}) \in Int
    BY <1>1, <2>1, MinOfTwo, MaxOfTwo
  <2>5. h.rounding + (IF SameDirection(net, signed) THEN abs_qty(net + signed) - 1 ELSE 0)
            \in Nat
    BY <2>1, <2>3
  <2>. QED
    BY Zenon, <1>1, <2>1, <2>2, <2>4, <2>5 DEF FilledHistory, FillHistory
<1>6. /\ positions' = PutAt(positions, m, q)
      /\ history' = PutAt(history, m, g)
  BY Zenon DEF apply_fill
<1>7. /\ DOMAIN positions' = DOMAIN positions \cup {m}
      /\ DOMAIN history' = DOMAIN history \cup {m}
      /\ positions'[m] = q
      /\ history'[m] = g
      /\ \A k \in DOMAIN positions \ {m} : positions'[k] = positions[k]
      /\ \A k \in DOMAIN history \ {m} : history'[k] = history[k]
      /\ positions' = [k \in DOMAIN positions' |-> positions'[k]]
      /\ history' = [k \in DOMAIN history' |-> history'[k]]
  BY Zenon, <1>6 DEF PutAt
<1>8. /\ DOMAIN positions' \subseteq Markets
      /\ positions' \in [DOMAIN positions' -> MarketPositionState]
      /\ DOMAIN history' = DOMAIN positions'
      /\ history' \in [DOMAIN positions' -> FillHistory]
  BY Zenon, <1>1, <1>4, <1>5, <1>7 DEF IInv, TypeOK
<1>9. realized_pnl_ticks_total' \in Int /\ closed_position_count' \in Nat
  <2>1. RealizedPnl(p, signed, price) \in Int
    BY Zenon, <1>1, <1>2, RealizedPnlType
  <2>. QED
    BY <2>1 DEF IInv, TypeOK, apply_fill
<1>10. LotsBalance'
  <2>1. \A k \in DOMAIN positions' : Balanced(positions'[k])
    BY <1>4, <1>7 DEF IInv, LotsBalance, Balanced
  <2>. QED
    BY Zenon, <2>1 DEF LotsBalance, Balanced
<1>11. InRange(q, g) /\ Conserved(q, g)
  BY Zenon, <1>1, <1>2, <1>3, FilledPositionInRange, FilledPositionConserved
<1>12. /\ \A k \in DOMAIN positions' : InRange(positions'[k], history'[k])
       /\ \A k \in DOMAIN positions' : Conserved(positions'[k], history'[k])
  <2>1. \A k \in DOMAIN positions \ {m} :
            InRange(positions[k], history[k]) /\ Conserved(positions[k], history[k])
    BY Zenon DEF IInv, AverageWithinFills, PnlConserved, InRange, Conserved, Excess
  <2> HIDE DEF m, q, g
  <2>. QED
    BY Zenon, <1>7, <1>11, <2>1 DEF IInv, TypeOK
<1>13. AverageWithinFills' /\ PnlConserved'
  BY Zenon, <1>12 DEF AverageWithinFills, PnlConserved, InRange, Conserved, Excess
<1>14. IsFiniteSet(DOMAIN positions') /\ TotalsAgree'
  <2> DEFINE D == DOMAIN positions
             f == [k \in D |-> positions[k].realized_pnl_ticks]
             f2 == [k \in D \cup {m} |-> positions'[k].realized_pnl_ticks]
  <2>1. IsFiniteSet(D) /\ IsFiniteSet(D \cup {m})
    BY Zenon, FS_AddElement DEF IInv
  <2>2. \A k \in D : f[k] \in Int
    BY Zenon DEF IInv, TypeOK, MarketPositionState
  <2>3. \A k \in D \ {m} : f2[k] = f[k]
    BY Zenon, <1>7
  <2>4. RealizedPnl(p, signed, price) \in Int /\ p.realized_pnl_ticks \in Int
    BY Zenon, <1>1, <1>2, RealizedPnlType DEF MarketPositionState
  <2>5. f2[m] = p.realized_pnl_ticks + RealizedPnl(p, signed, price)
    BY <1>7 DEF FilledPosition
  <2>6. p.realized_pnl_ticks = IF m \in D THEN f[m] ELSE 0
    BY Zenon DEF PositionOf, NoPosition
  <2>7. /\ m \in D => SumFunctionOnSet(f2, D \cup {m}) + f[m] = SumFunctionOnSet(f, D) + f2[m]
        /\ m \notin D => SumFunctionOnSet(f2, D \cup {m}) = SumFunctionOnSet(f, D) + f2[m]
    <3>1. f2[m] \in Int
      BY <2>4, <2>5
    <3> HIDE DEF f, f2, m, D
    <3>. QED
      BY <2>1, <2>2, <2>3, <3>1, SumAfterPut
  <2>8. SumFunctionOnSet(f, D) = realized_pnl_ticks_total /\ realized_pnl_ticks_total \in Int
    BY Zenon DEF IInv, TypeOK, TotalsAgree, SumFunction
  <2>9. realized_pnl_ticks_total' = realized_pnl_ticks_total + RealizedPnl(p, signed, price)
    BY Zenon DEF apply_fill
  <2>10. SumFunctionOnSet(f2, D \cup {m}) = realized_pnl_ticks_total'
    <3>1. \A k \in D \cup {m} : f2[k] \in Int
      BY <2>2, <2>3, <2>4, <2>5
    <3>2. m \in D => f[m] \in Int
      BY Zenon, <2>2
    <3> HIDE DEF f, f2, m, D, p, signed, price
    <3>3. SumFunctionOnSet(f2, D \cup {m}) \in Int
      BY Zenon, <2>1, <3>1, SumType
    <3>4. CASE m \in D
      <4>1. SumFunctionOnSet(f2, D \cup {m}) + f[m] = realized_pnl_ticks_total + f2[m]
        BY Zenon, <2>7, <2>8, <3>4
      <4>2. f2[m] = f[m] + RealizedPnl(p, signed, price) /\ f[m] \in Int /\ f2[m] \in Int
        BY <2>4, <2>5, <2>6, <3>2, <3>4
      <4>3. SumFunctionOnSet(f2, D \cup {m}) = realized_pnl_ticks_total + RealizedPnl(p, signed, price)
        <5> DEFINE a == SumFunctionOnSet(f2, D \cup {m})
                   b == f[m]
                   d == f2[m]
                   e == RealizedPnl(p, signed, price)
        <5>1. /\ a \in Int /\ b \in Int /\ d \in Int /\ e \in Int
              /\ a + b = realized_pnl_ticks_total + d
              /\ d = b + e
              /\ realized_pnl_ticks_total \in Int
          BY Zenon, <2>4, <2>8, <3>3, <4>1, <4>2
        <5> HIDE DEF a, b, d, e
        <5>2. a = realized_pnl_ticks_total + e
          BY <5>1
        <5>. QED
          BY Zenon, <5>2 DEF a, e
      <4>. QED
        BY Zenon, <2>9, <4>3
    <3>5. CASE m \notin D
      BY <2>4, <2>5, <2>6, <2>7, <2>8, <2>9, <3>3, <3>5
    <3>. QED
      BY Zenon, <3>4, <3>5
  <2>11. TotalsAgree'
    BY Zenon, <1>7, <2>10 DEF TotalsAgree, SumFunction
  <2>. QED
    BY Zenon, <1>7, <2>1, <2>11
<1>. QED
  BY Zenon, <1>8, <1>9, <1>10, <1>13, <1>14 DEF IInv, TypeOK

\* The empty ledger.
LEMMA InvariantInitially == Init => IInv
<1> SUFFICES ASSUME Init PROVE IInv
  BY Zenon
<1>1. TypeOK /\ LotsBalance /\ AverageWithinFills /\ PnlConserved
  BY DEF Init, TypeOK, LotsBalance, AverageWithinFills, PnlConserved
<1>2. DOMAIN positions = {}
  BY Zenon DEF Init
<1>3. IsFiniteSet(DOMAIN positions)
  BY Zenon, <1>2, FS_EmptySet
<1>4. TotalsAgree
  BY Zenon, <1>2, SumOfNothing DEF Init, TotalsAgree, SumFunction
<1>. QED
  BY Zenon, <1>1, <1>3, <1>4 DEF IInv

\* A ledger that nobody touches.
LEMMA InvariantWhenQuiet == IInv /\ UNCHANGED vars => IInv'
BY Zenon DEF vars, IInv, TypeOK, LotsBalance, AverageWithinFills, PnlConserved, TotalsAgree

\* The invariant holds of the empty ledger and after every update.
THEOREM Invariance == Spec => []IInv
<1>1. IInv /\ [Next]_vars => IInv'
  BY Zenon, FillKeepsInvariant, InvariantWhenQuiet, LedgerAssumption DEF Next, on_order_update
<1>. QED
  BY <1>1, InvariantInitially, PTL DEF Spec

\* The snapshot the portfolio gate reads is made of integers: there is a sum
\* over the finitely many markets that have traded.
LEMMA SnapshotType ==
    ASSUME IInv, NEW market
    PROVE  portfolio_risk_snapshot(market) \in
               [net_position_market : Int, gross_position_global : Int,
                realized_pnl_ticks_total : Int]
<1>1. PositionOf(market).net_qty_lots \in Int
  BY DEF IInv, TypeOK, PositionOf, NoPosition, MarketPositionState
<1>2. \A m \in DOMAIN positions : /\ abs_qty(positions[m].net_qty_lots) \in Int
                                  /\ positions[m].realized_pnl_ticks \in Int
  BY DEF IInv, TypeOK, MarketPositionState, abs_qty
<1>3. SumFunction([m \in DOMAIN positions |-> abs_qty(positions[m].net_qty_lots)]) \in Int
  BY Zenon, <1>2, SumType DEF IInv, SumFunction
<1>4. SumFunction([m \in DOMAIN positions |-> positions[m].realized_pnl_ticks]) \in Int
  BY Zenon, <1>2, SumType DEF IInv, SumFunction
<1>. QED
  BY Zenon, <1>1, <1>3, <1>4 DEF portfolio_risk_snapshot

\* Type correctness: the truncated average and the profit stay integers, the
\* quantities natural numbers, for any prices and quantities.
THEOREM TypeCorrect == Spec => []TypeOK
<1>1. IInv => TypeOK
  BY Zenon DEF IInv
<1>. QED
  BY <1>1, Invariance, PTL

\* apply_fill accounts for every lot of every market, for any number of fills
\* of any size: net is bought less sold, each closed lot was bought and sold
\* once, and there is an open price exactly while there is a position.
THEOREM LotsAlwaysBalance == Spec => []LotsBalance
<1>1. IInv => LotsBalance
  BY Zenon DEF IInv
<1>. QED
  BY <1>1, Invariance, PTL

\* The truncated average stays within the prices that built the position, for
\* any sequence of opens, adds, reductions and flips.
THEOREM AverageAlwaysWithinFills == Spec => []AverageWithinFills
<1>1. IInv => AverageWithinFills
  BY Zenon DEF IInv
<1>. QED
  BY <1>1, Invariance, PTL

\* Realized profit is the cash of the fills plus the open position at its
\* average, up to the truncation of the averages apply_fill computed.
THEOREM PnlAlwaysConserved == Spec => []PnlConserved
<1>1. IInv => PnlConserved
  BY Zenon DEF IInv
<1>. QED
  BY <1>1, Invariance, PTL

\* The profit the ledger totals fill by fill is the sum over the markets, from
\* which the portfolio snapshot takes the figure for the loss floor, for any
\* number of markets.
THEOREM TotalsAlwaysAgree == Spec => []TotalsAgree
<1>1. IInv => TotalsAgree
  BY Zenon DEF IInv
<1>. QED
  BY <1>1, Invariance, PTL
=============================================================================
