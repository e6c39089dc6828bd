------------------------- MODULE PositionBooksProofs -------------------------
(***************************************************************************)
(* Theorems about PositionBooks, for every set of positions, quantities,    *)
(* prices, split ratios and for every fee and tax.                          *)
(***************************************************************************)
EXTENDS PositionBooks, TLAPS

(* correct_trade() divides by what the position bought.                    *)
BoughtSome == \A p \in PosId : IsOpen(p) => bought[p] > 0

IInv == BooksTypeOK /\ OneOpen /\ BoughtSome /\ BooksBalance /\ ClosedCostsNothing

-----------------------------------------------------------------------------
\* Selling everything costs the whole basis: no rounding is left behind.
LEMMA WholeCost == ASSUME NEW b \in Int, NEW q \in Nat \ {0} PROVE (b * q) \div q = b
  BY SMT

\* Rounding down gives an integer.
LEMMA DivInt == ASSUME NEW a \in Int, NEW q \in Nat \ {0} PROVE a \div q \in Int
  BY SMT

\* A new row is a row, whatever operation adds it.
LEMMA RowAdded ==
  ASSUME BooksTypeOK, NEW p \in PosId, NEW kind \in {"BUY", "SELL", "ADJUST"}, NEW q \in Nat,
         NEW pr \in Nat, NEW linked \in BOOLEAN, NEW gain \in Int,
         AddTrade(p, kind, q, pr, linked, gain)
  PROVE  trades' \in Seq(TradeRow)
  <1>1. [pos |-> p, kind |-> kind, qty |-> q, price |-> pr, linked |-> linked,
         realized |-> gain] \in TradeRow
    BY DEF TradeRow
  <1> QED BY <1>1 DEF AddTrade, BooksTypeOK

\* A ticker without positions or trades.
LEMMA InitIInv == BooksInit => IInv
  <1> SUFFICES ASSUME BooksInit PROVE IInv
    OBVIOUS
  <1>1. BooksTypeOK
    BY DEF BooksInit, BooksTypeOK
  <1>2. OneOpen /\ BoughtSome /\ BooksBalance /\ ClosedCostsNothing
    BY DEF BooksInit, OneOpen, BoughtSome, BooksBalance, Balanced, ClosedCostsNothing, IsOpen
  <1> QED BY <1>1, <1>2 DEF IInv

(* What an operation on position p makes of it: its new status st, quantity *)
(* n, basis b, P&L r, lock l, cash c and manual operations m, with x shares *)
(* bought for y in all.                                                     *)
Updated(p, st, n, b, r, l, x, y, c, m) ==
    /\ IsOpen(p) \/ (\A o \in PosId : ~IsOpen(o))
    /\ st \in {"open", "closed"} /\ n \in Nat /\ b \in Int /\ r \in Int /\ l \in Nat
    /\ x \in Nat /\ y \in Int /\ c \in Int /\ m \in SUBSET {"correct", "edit"}
    /\ st = "open" <=> n > 0
    /\ st = "open" => x > 0
    /\ m = {} => r = c + b
    /\ st = "closed" => b = 0
    /\ status' = [status EXCEPT ![p] = st]
    /\ qty' = [qty EXCEPT ![p] = n]
    /\ basis' = [basis EXCEPT ![p] = b]
    /\ realized' = [realized EXCEPT ![p] = r]
    /\ locked' = [locked EXCEPT ![p] = l]
    /\ bought' = [bought EXCEPT ![p] = x]
    /\ boughtFor' = [boughtFor EXCEPT ![p] = y]
    /\ cash' = [cash EXCEPT ![p] = c]
    /\ manual' = [manual EXCEPT ![p] = m]
    /\ trades' \in Seq(TradeRow) /\ entry' \in Nat

\* An operation of that form keeps the invariant, whichever it is.
LEMMA Update ==
  ASSUME IInv, NEW p \in PosId, NEW st, NEW n, NEW b, NEW r, NEW l, NEW x, NEW y, NEW c,
         NEW m, Updated(p, st, n, b, r, l, x, y, c, m)
  PROVE  IInv'
  <1>1. BooksTypeOK'
    BY DEF IInv, BooksTypeOK, Updated
  <1>2. OneOpen'
    BY DEF IInv, BooksTypeOK, OneOpen, IsOpen, Updated
  <1>3. BoughtSome'
    BY DEF IInv, BooksTypeOK, BoughtSome, IsOpen, Updated
  <1>4. BooksBalance'
    BY DEF IInv, BooksTypeOK, BooksBalance, Balanced, Updated
  <1>5. ClosedCostsNothing'
    BY DEF IInv, BooksTypeOK, ClosedCostsNothing, Updated
  <1> QED BY <1>1, <1>2, <1>3, <1>4, <1>5 DEF IInv

\* What does not change is written as an update.
LEMMA Unchanged ==
  ASSUME BooksTypeOK, NEW p \in PosId
  PROVE  /\ status = [status EXCEPT ![p] = status[p]]
         /\ qty = [qty EXCEPT ![p] = qty[p]]
         /\ basis = [basis EXCEPT ![p] = basis[p]]
         /\ realized = [realized EXCEPT ![p] = realized[p]]
         /\ locked = [locked EXCEPT ![p] = locked[p]]
         /\ bought = [bought EXCEPT ![p] = bought[p]]
         /\ boughtFor = [boughtFor EXCEPT ![p] = boughtFor[p]]
         /\ cash = [cash EXCEPT ![p] = cash[p]]
         /\ manual = [manual EXCEPT ![p] = manual[p]]
  BY DEF BooksTypeOK

\* The types of one position.
LEMMA Typed ==
  ASSUME BooksTypeOK, NEW p \in PosId
  PROVE  /\ status[p] \in {"none", "open", "closed"}
         /\ qty[p] \in Nat /\ basis[p] \in Int /\ realized[p] \in Int
         /\ locked[p] \in Nat /\ bought[p] \in Nat /\ boughtFor[p] \in Int
         /\ cash[p] \in Int /\ manual[p] \in SUBSET {"correct", "edit"}
         /\ entry \in Nat
  BY DEF BooksTypeOK

\* What IInv says of one position.
LEMMA OfOne ==
  ASSUME IInv, NEW p \in PosId
  PROVE  /\ status[p] = "open" <=> qty[p] > 0
         /\ status[p] = "open" => bought[p] > 0
         /\ manual[p] = {} => realized[p] = cash[p] + basis[p]
  BY DEF IInv, OneOpen, BoughtSome, BooksBalance, Balanced, IsOpen

\* buy() pays, with the fee, into a position open or new.
LEMMA BuyKeeps ==
  ASSUME IInv, NEW p \in PosId, NEW q \in Qtys, NEW pr \in Prices, NEW linked \in BOOLEAN,
         Buy(p, q, pr, linked)
  PROVE  IInv'
  <1> DEFINE paid == q * EffectivePrice(pr)
             bare == q * pr * 100
  <1>1. q \in Nat \ {0} /\ pr \in Nat \ {0} /\ FeePct \in Nat
    BY BooksAssumption DEF BooksAssumption
  <1>2. trades' \in Seq(TradeRow)
    BY <1>1, RowAdded DEF IInv, Buy
  <1>3. paid \in Nat /\ bare \in Nat /\ paid = q * pr * (100 + FeePct)
    BY <1>1 DEF EffectivePrice
  <1>4. /\ status' = [status EXCEPT ![p] = "open"]
        /\ qty' = [qty EXCEPT ![p] = qty[p] + q]
        /\ basis' = [basis EXCEPT ![p] = basis[p] + paid]
        /\ bought' = [bought EXCEPT ![p] = bought[p] + q]
        /\ boughtFor' = [boughtFor EXCEPT ![p] = boughtFor[p] + bare]
        /\ cash' = [cash EXCEPT ![p] = cash[p] - paid]
        /\ UNCHANGED <<realized, locked, manual>>
        /\ BuyInto(p)
    BY <1>3 DEF Buy
  <1>5. entry' \in Nat
    BY <1>1 DEF Buy, IInv, BooksTypeOK
  <1> HIDE DEF paid, bare
  <1>6. BooksTypeOK
    BY DEF IInv
  <1>7. IsOpen(p) \/ (\A o \in PosId : ~IsOpen(o))
    BY <1>4 DEF BuyInto
  <1>8. /\ qty[p] + q \in Nat /\ qty[p] + q > 0
        /\ basis[p] + paid \in Int
        /\ bought[p] + q \in Nat /\ bought[p] + q > 0
        /\ boughtFor[p] + bare \in Int
        /\ cash[p] - paid \in Int
        /\ manual[p] = {} => realized[p] = cash[p] - paid + (basis[p] + paid)
    BY <1>1, <1>3, <1>6, Typed, OfOne
  <1>9. /\ realized' = [realized EXCEPT ![p] = realized[p]]
        /\ locked' = [locked EXCEPT ![p] = locked[p]]
        /\ manual' = [manual EXCEPT ![p] = manual[p]]
    BY <1>4, <1>6, Unchanged
  <1>10. Updated(p, "open", qty[p] + q, basis[p] + paid, realized[p], locked[p],
                bought[p] + q, boughtFor[p] + bare, cash[p] - paid, manual[p])
    BY <1>2, <1>4, <1>5, <1>6, <1>7, <1>8, <1>9, Typed DEF Updated
  <1> QED BY <1>10, Update

\* sell() takes the cost of what it sells, all of it when it sells all.
LEMMA SellKeeps ==
  ASSUME IInv, NEW p \in PosId, NEW q \in Qtys, NEW pr \in Prices, Sell(p, q, pr)
  PROVE  IInv'
  <1> DEFINE cost == CostOf(p, q)
             net  == Proceeds(q, pr)
             gain == net - cost
             st   == IF qty[p] = q THEN "closed" ELSE "open"
  <1>1. /\ q \in Nat \ {0} /\ pr \in Nat \ {0} /\ FeePct \in Nat /\ TaxPct \in Nat
        /\ IsOpen(p) /\ q <= qty[p]
    BY BooksAssumption DEF BooksAssumption, Sell, Sold
  <1>2. BooksTypeOK
    BY DEF IInv
  <1>3. qty[p] \in Nat \ {0} /\ basis[p] \in Int /\ bought[p] > 0
    BY <1>1, <1>2, Typed, OfOne DEF IsOpen
  <1>4. cost \in Int
    <2>1. basis[p] * q \in Int
      BY <1>1, <1>3
    <2> QED BY <1>3, <2>1, DivInt DEF CostOf
  <1>5. qty[p] = q => cost = basis[p]
    BY <1>1, <1>3, WholeCost DEF CostOf
  <1>6. net \in Int
    BY <1>1 DEF Proceeds
  <1>7. /\ status' = [status EXCEPT ![p] = st]
        /\ qty' = [qty EXCEPT ![p] = qty[p] - q]
        /\ basis' = [basis EXCEPT ![p] = basis[p] - cost]
        /\ realized' = [realized EXCEPT ![p] = realized[p] + gain]
        /\ cash' = [cash EXCEPT ![p] = cash[p] + net]
        /\ AddTrade(p, "SELL", q, pr, FALSE, gain)
        /\ UNCHANGED <<locked, bought, boughtFor, entry, manual>>
    BY DEF Sell, Sold
  <1> HIDE DEF cost, net
  <1>8. gain \in Int
    BY <1>4, <1>6
  <1>9. trades' \in Seq(TradeRow)
    <2> HIDE DEF gain
    <2> QED BY <1>1, <1>2, <1>7, <1>8, RowAdded
  <1>10. /\ st \in {"open", "closed"}
         /\ qty[p] - q \in Nat
         /\ st = "open" <=> qty[p] - q > 0
         /\ basis[p] - cost \in Int
         /\ st = "closed" => basis[p] - cost = 0
    BY <1>1, <1>3, <1>4, <1>5
  <1>11. /\ realized[p] + gain \in Int
         /\ cash[p] + net \in Int
         /\ manual[p] = {} => realized[p] + gain = cash[p] + net + (basis[p] - cost)
    BY <1>2, <1>3, <1>4, <1>6, <1>8, Typed, OfOne
  <1> HIDE DEF gain, st
  <1>12. /\ locked' = [locked EXCEPT ![p] = locked[p]]
         /\ bought' = [bought EXCEPT ![p] = bought[p]]
         /\ boughtFor' = [boughtFor EXCEPT ![p] = boughtFor[p]]
         /\ manual' = [manual EXCEPT ![p] = manual[p]]
         /\ entry' \in Nat
    BY <1>2, <1>7, Unchanged, Typed
  <1>13. Updated(p, st, qty[p] - q, basis[p] - cost, realized[p] + gain, locked[p],
                 bought[p], boughtFor[p], cash[p] + net, manual[p])
    BY <1>1, <1>2, <1>3, <1>7, <1>9, <1>10, <1>11, <1>12, Typed DEF Updated
  <1> QED BY <1>13, Update

\* apply_stock_split() adds shares for nothing.
LEMMA SplitKeeps ==
  ASSUME IInv, NEW p \in PosId, NEW ratio \in Ratios, Split(p, ratio)
  PROVE  IInv'
  <1> DEFINE bonus == qty[p] * ratio
  <1>1. BooksTypeOK
    BY DEF IInv
  <1>2. /\ IsOpen(p) /\ status[p] = "open" /\ qty[p] \in Nat /\ qty[p] > 0
        /\ bought[p] > 0 /\ ratio \in Nat
    BY <1>1, BooksAssumption, Typed, OfOne DEF BooksAssumption, Split, IsOpen
  <1>3. bonus \in Nat
    BY <1>2
  <1>4. /\ qty' = [qty EXCEPT ![p] = qty[p] + bonus]
        /\ AddTrade(p, "ADJUST", bonus, 0, FALSE, 0)
        /\ UNCHANGED <<status, basis, realized, locked, bought, boughtFor, entry, cash,
                       manual>>
    BY DEF Split
  <1> HIDE DEF bonus
  <1>5. trades' \in Seq(TradeRow)
    <2>1. 0 \in Nat /\ 0 \in Int /\ FALSE \in BOOLEAN
      OBVIOUS
    <2> QED BY <1>1, <1>3, <1>4, <2>1, RowAdded
  <1>6. qty[p] + bonus \in Nat /\ qty[p] + bonus > 0
    BY <1>2, <1>3
  <1>7. /\ status' = [status EXCEPT ![p] = "open"]
        /\ basis' = [basis EXCEPT ![p] = basis[p]]
        /\ realized' = [realized EXCEPT ![p] = realized[p]]
        /\ locked' = [locked EXCEPT ![p] = locked[p]]
        /\ bought' = [bought EXCEPT ![p] = bought[p]]
        /\ boughtFor' = [boughtFor EXCEPT ![p] = boughtFor[p]]
        /\ cash' = [cash EXCEPT ![p] = cash[p]]
        /\ manual' = [manual EXCEPT ![p] = manual[p]]
        /\ entry' \in Nat
    BY <1>1, <1>2, <1>4, Unchanged, Typed
  <1>8. Updated(p, "open", qty[p] + bonus, basis[p], realized[p], locked[p], bought[p],
                boughtFor[p], cash[p], manual[p])
    BY <1>1, <1>2, <1>4, <1>5, <1>6, <1>7, Typed, OfOne DEF Updated
  <1> QED BY <1>8, Update

\* correct_trade() recomputes the average from what was bought.
LEMMA CorrectKeeps ==
  ASSUME IInv, NEW i \in DOMAIN trades, NEW pr \in Prices, Correct(i, pr)
  PROVE  IInv'
  <1> DEFINE p    == trades[i].pos
             more == trades[i].qty * (pr - trades[i].price)
             y    == boughtFor[p] + more * 100
             c    == cash[p] - more * (100 + FeePct)
             cost == (y * qty[p]) \div bought[p]
             m    == manual[p] \cup {"correct"}
  <1>1. BooksTypeOK
    BY DEF IInv
  <1>2. pr \in Nat /\ FeePct \in Nat
    BY BooksAssumption DEF BooksAssumption
  <1>3. trades \in Seq(TradeRow) /\ trades[i] \in TradeRow
    BY <1>1 DEF BooksTypeOK
  <1>4. p \in PosId /\ trades[i].qty \in Nat /\ trades[i].price \in Nat
    BY <1>3 DEF TradeRow
  <1>5. more \in Int
    BY <1>2, <1>4
  <1>6. trades' \in Seq(TradeRow)
    <2>1. trades' = [trades EXCEPT ![i] = [trades[i] EXCEPT !.price = pr]]
      BY DEF Correct, Corrected
    <2>2. [trades[i] EXCEPT !.price = pr] \in TradeRow
      BY <1>2, <1>3 DEF TradeRow
    <2> QED BY <1>3, <2>1, <2>2
  <1>7. /\ boughtFor' = [boughtFor EXCEPT ![p] = y]
        /\ basis' = [basis EXCEPT ![p] = (boughtFor'[p] * qty[p]) \div bought[p]]
        /\ cash' = [cash EXCEPT ![p] = c]
        /\ manual' = [manual EXCEPT ![p] = m]
        /\ UNCHANGED <<status, qty, realized, locked, bought, entry>>
        /\ IsOpen(p)
    BY DEF Correct, Corrected
  <1> HIDE DEF more
  <1>8. y \in Int /\ c \in Int
    BY <1>1, <1>2, <1>4, <1>5, Typed
  <1>9. m \in SUBSET {"correct", "edit"} /\ m # {}
    BY <1>1, <1>4, Typed
  <1> HIDE DEF p, y, c, m
  <1>10. /\ status[p] = "open" /\ qty[p] \in Nat /\ qty[p] > 0 /\ bought[p] \in Nat
         /\ bought[p] > 0
    BY <1>1, <1>4, <1>7, Typed, OfOne DEF IsOpen
  <1>11. cost \in Int
    <2>1. y * qty[p] \in Int /\ bought[p] \in Nat \ {0}
      BY <1>8, <1>10
    <2> QED BY <2>1, DivInt
  <1>12. boughtFor'[p] = y
    BY <1>1, <1>4, <1>7 DEF BooksTypeOK
  <1>13. basis' = [basis EXCEPT ![p] = cost]
    BY <1>7, <1>12
  <1> HIDE DEF cost
  <1>14. /\ status' = [status EXCEPT ![p] = "open"]
         /\ qty' = [qty EXCEPT ![p] = qty[p]]
         /\ realized' = [realized EXCEPT ![p] = realized[p]]
         /\ locked' = [locked EXCEPT ![p] = locked[p]]
         /\ bought' = [bought EXCEPT ![p] = bought[p]]
         /\ entry' \in Nat
    BY <1>1, <1>4, <1>7, <1>10, Unchanged, Typed
  <1>15. Updated(p, "open", qty[p], cost, realized[p], locked[p], bought[p], y, c, m)
    BY <1>1, <1>4, <1>6, <1>7, <1>8, <1>9, <1>10, <1>11, <1>13, <1>14, Typed DEF Updated
  <1> QED BY <1>15, <1>4, Update

\* edit_position() writes what it is given.
LEMMA EditKeeps ==
  ASSUME IInv, NEW p \in PosId, NEW q \in Qtys \cup {Same}, NEW avg \in Prices \cup {Same},
         NEW lock \in Locks \cup {Same}, Edit(p, q, avg, lock)
  PROVE  IInv'
  <1> DEFINE n    == New(q, qty[p])
             l    == New(lock, locked[p])
             cost == IF avg = Same THEN (basis[p] * n) \div qty[p] ELSE 100 * avg * n
             m    == manual[p] \cup {"edit"}
  <1>1. BooksTypeOK
    BY DEF IInv
  <1>2. IsOpen(p) /\ status[p] = "open" /\ qty[p] \in Nat \ {0} /\ bought[p] > 0
    BY <1>1, Typed, OfOne DEF Edit, IsOpen
  <1>3. n \in Nat \ {0} /\ l \in Nat
    BY <1>1, <1>2, Typed, BooksAssumption DEF New, Same, BooksAssumption
  <1>4. /\ qty' = [qty EXCEPT ![p] = n]
        /\ basis' = [basis EXCEPT ![p] = cost]
        /\ locked' = [locked EXCEPT ![p] = l]
        /\ manual' = [manual EXCEPT ![p] = m]
        /\ UNCHANGED <<status, realized, trades, bought, boughtFor, entry, cash>>
    BY DEF Edit
  <1> HIDE DEF n, l
  <1>5. cost \in Int
    <2>1. CASE avg = Same
      <3>1. basis[p] * n \in Int
        BY <1>1, <1>3, Typed
      <3> QED BY <1>2, <3>1, <2>1, DivInt
    <2>2. CASE avg # Same
      <3>1. avg \in Nat
        BY <2>2, BooksAssumption DEF BooksAssumption
      <3> QED BY <1>3, <2>2, <3>1
    <2> QED BY <2>1, <2>2
  <1>6. m \in SUBSET {"correct", "edit"} /\ m # {}
    BY <1>1, Typed
  <1> HIDE DEF cost, m
  <1>7. /\ status' = [status EXCEPT ![p] = "open"]
        /\ realized' = [realized EXCEPT ![p] = realized[p]]
        /\ bought' = [bought EXCEPT ![p] = bought[p]]
        /\ boughtFor' = [boughtFor EXCEPT ![p] = boughtFor[p]]
        /\ cash' = [cash EXCEPT ![p] = cash[p]]
        /\ entry' \in Nat /\ trades' \in Seq(TradeRow)
    BY <1>1, <1>2, <1>4, Unchanged, Typed DEF BooksTypeOK
  <1>8. n \in Nat /\ n > 0
    BY <1>3
  <1>9. Updated(p, "open", n, cost, realized[p], l, bought[p], boughtFor[p], cash[p], m)
    BY <1>1, <1>2, <1>3, <1>4, <1>5, <1>6, <1>7, <1>8, Typed DEF Updated
  <1> QED BY <1>9, Update

\* Every operation keeps the invariant.
LEMMA StepKeeps == IInv /\ [BooksNext]_bookVars => IInv'
  <1> SUFFICES ASSUME IInv, [BooksNext]_bookVars PROVE IInv'
    OBVIOUS
  <1>1. CASE UNCHANGED bookVars
    BY <1>1 DEF bookVars, IInv, BooksTypeOK, OneOpen, BoughtSome, BooksBalance, Balanced,
                ClosedCostsNothing, IsOpen
  <1>2. ASSUME NEW p \in PosId, NEW q \in Qtys, NEW pr \in Prices, NEW linked \in BOOLEAN,
               Buy(p, q, pr, linked)
        PROVE  IInv'
    BY <1>2, BuyKeeps
  <1>3. ASSUME NEW p \in PosId, NEW q \in Qtys, NEW pr \in Prices, Sell(p, q, pr)
        PROVE  IInv'
    BY <1>3, SellKeeps
  <1>4. ASSUME NEW p \in PosId, NEW ratio \in Ratios, Split(p, ratio)
        PROVE  IInv'
    BY <1>4, SplitKeeps
  <1>5. ASSUME NEW p \in PosId, NEW q \in Qtys \cup {Same}, NEW avg \in Prices \cup {Same},
               NEW lock \in Locks \cup {Same}, Edit(p, q, avg, lock)
        PROVE  IInv'
    BY <1>5, EditKeeps
  <1>6. ASSUME NEW i \in DOMAIN trades, NEW pr \in Prices, Correct(i, pr)
        PROVE  IInv'
    BY <1>6, CorrectKeeps
  <1> QED BY <1>1, <1>2, <1>3, <1>4, <1>5, <1>6 DEF BooksNext

-----------------------------------------------------------------------------
(* Sums over the trade rows.                                                *)

\* f holds the running totals of w.
Sums(f, w) == f = [i \in 0 .. Len(w) |-> IF i = 0 THEN 0 ELSE f[i - 1] + w[i]]

(* Sequences of n numbers have running totals, and only one function is     *)
(* that.  True of every n, but an induction over n is out of reach here: the *)
(* invariant carries it along for the rows there are, a row at a time.       *)
Adds(n) ==
    \A w \in [1 .. n -> Int] :
        \E f \in [0 .. n -> Int] : Sums(f, w) /\ \A g : Sums(g, w) => g = f

\* Total is the last of the running totals that it chooses.
LEMMA TotalIs == ASSUME NEW w PROVE Total(w) = (CHOOSE f : Sums(f, w))[Len(w)]
  BY DEF Total, Sums

\* A function on 1 .. n is a sequence of length n.
LEMMA Numbers == ASSUME NEW n \in Nat, NEW w \in [1 .. n -> Int] PROVE Len(w) = n
  OBVIOUS

\* Running totals, one number at a time.
LEMMA RunsEach ==
  ASSUME NEW n \in Nat, NEW w \in [1 .. n -> Int], NEW f
  PROVE  Sums(f, w) <=>
            /\ f = [i \in 0 .. n |-> f[i]]
            /\ \A i \in 0 .. n : f[i] = IF i = 0 THEN 0 ELSE f[i - 1] + w[i]
  BY Numbers DEF Sums

\* No number has the running total 0.
LEMMA AddsNone == Adds(0)
  <1> SUFFICES ASSUME NEW w \in [1 .. 0 -> Int]
               PROVE  \E f \in [0 .. 0 -> Int] : Sums(f, w) /\ \A g : Sums(g, w) => g = f
    BY DEF Adds
  <1> DEFINE f == [i \in 0 .. 0 |-> 0]
  <1>1. Len(w) = 0
    BY Numbers
  <1>2. f \in [0 .. 0 -> Int] /\ Sums(f, w)
    BY <1>1 DEF Sums
  <1>3. ASSUME NEW g, Sums(g, w) PROVE g = f
    BY <1>1, <1>3 DEF Sums
  <1> QED BY <1>2, <1>3

\* One number more has one running total more, and no other.
LEMMA AddsNext == ASSUME NEW n \in Nat, Adds(n) PROVE Adds(n + 1)
  <1> SUFFICES ASSUME NEW w \in [1 .. n + 1 -> Int]
               PROVE  \E f \in [0 .. n + 1 -> Int] :
                          Sums(f, w) /\ \A g : Sums(g, w) => g = f
    BY DEF Adds
  <1> DEFINE v == [i \in 1 .. n |-> w[i]]
  <1>1. v \in [1 .. n -> Int] /\ Len(v) = n /\ Len(w) = n + 1
    OBVIOUS
  <1>2. PICK f \in [0 .. n -> Int] : Sums(f, v) /\ \A g : Sums(g, v) => g = f
    BY <1>1 DEF Adds
  <1> DEFINE h == [i \in 0 .. n + 1 |-> IF i <= n THEN f[i] ELSE f[n] + w[n + 1]]
  <1>3. h \in [0 .. n + 1 -> Int]
    BY <1>2
  <1>4. Sums(h, w)
    <2>1. \A i \in 0 .. n : f[i] = IF i = 0 THEN 0 ELSE f[i - 1] + v[i]
      BY <1>1, <1>2 DEF Sums
    <2>2. \A i \in 0 .. n + 1 : h[i] = IF i = 0 THEN 0 ELSE h[i - 1] + w[i]
      <3> TAKE i \in 0 .. n + 1
      <3>1. CASE i <= n
        <4>1. i \in 0 .. n /\ h[i] = f[i]
          BY <3>1
        <4>2. CASE i = 0
          BY <2>1, <4>1, <4>2
        <4>3. CASE i # 0
          <5>1. i - 1 \in 0 .. n /\ i \in 1 .. n
            BY <3>1, <4>3
          <5>2. h[i - 1] = f[i - 1] /\ v[i] = w[i]
            BY <5>1
          <5> QED BY <2>1, <4>1, <4>3, <5>2
        <4> QED BY <4>2, <4>3
      <3>2. CASE i = n + 1
        BY <3>2
      <3> QED BY <3>1, <3>2
    <2>3. h = [i \in 0 .. n + 1 |-> h[i]]
      OBVIOUS
    <2>4. n + 1 \in Nat
      OBVIOUS
    <2> HIDE DEF h
    <2> QED BY <2>2, <2>3, <2>4, RunsEach
  <1>5. ASSUME NEW g, Sums(g, w) PROVE g = h
    <2> DEFINE r == [i \in 0 .. n |-> g[i]]
    <2>1. g = [i \in 0 .. n + 1 |-> IF i = 0 THEN 0 ELSE g[i - 1] + w[i]]
      BY <1>1, <1>5 DEF Sums
    <2>2. \A i \in 0 .. n : r[i] = IF i = 0 THEN 0 ELSE r[i - 1] + v[i]
      BY <2>1
    <2>3. Sums(r, v)
      <3>1. r = [i \in 0 .. n |-> r[i]]
        OBVIOUS
      <3> HIDE DEF r, v
      <3> QED BY <1>1, <2>2, <3>1, RunsEach
    <2>4. r = f
      BY <1>2, <2>3
    <2>5. \A i \in 0 .. n + 1 : g[i] = h[i]
      <3>1. \A i \in 0 .. n : g[i] = f[i]
        BY <2>4
      <3>2. g[n + 1] = g[n] + w[n + 1]
        BY <2>1
      <3> QED BY <3>1, <3>2
    <2> QED BY <2>1, <2>5
  <1> QED BY <1>3, <1>4, <1>5

\* What the total is, once the running totals are known.
LEMMA TotalOf ==
  ASSUME NEW n \in Nat, Adds(n), NEW w \in [1 .. n -> Int]
  PROVE  \E f \in [0 .. n -> Int] :
            /\ Sums(f, w) /\ (\A g : Sums(g, w) => g = f)
            /\ Total(w) = f[n]
  <1>1. PICK f \in [0 .. n -> Int] : Sums(f, w) /\ \A g : Sums(g, w) => g = f
    BY DEF Adds
  <1>2. (CHOOSE g : Sums(g, w)) = f
    <2> HIDE DEF Sums
    <2> QED BY <1>1
  <1> QED BY <1>1, <1>2, TotalIs, Numbers

\* A number appended to a sequence is added to its total.
LEMMA TotalGrows ==
  ASSUME NEW n \in Nat, Adds(n), NEW w \in [1 .. n -> Int], NEW v \in [1 .. n + 1 -> Int],
         \A i \in 1 .. n : v[i] = w[i]
  PROVE  Total(v) = Total(w) + v[n + 1]
  <1>1. PICK f \in [0 .. n -> Int] :
            Sums(f, w) /\ (\A g : Sums(g, w) => g = f) /\ Total(w) = f[n]
    BY TotalOf
  <1>2. PICK h \in [0 .. n + 1 -> Int] : Sums(h, v) /\ Total(v) = h[n + 1]
    <2>1. Adds(n + 1) /\ n + 1 \in Nat
      BY AddsNext
    <2> QED BY <2>1, TotalOf
  <1> DEFINE r == [i \in 0 .. n |-> h[i]]
  <1>3. \A i \in 0 .. n + 1 : h[i] = IF i = 0 THEN 0 ELSE h[i - 1] + v[i]
    <2>1. Len(v) = n + 1
      OBVIOUS
    <2>2. h = [i \in 0 .. n + 1 |-> IF i = 0 THEN 0 ELSE h[i - 1] + v[i]]
      BY <1>2, <2>1 DEF Sums
    <2> QED BY <2>2
  <1>4. \A i \in 0 .. n : r[i] = IF i = 0 THEN 0 ELSE r[i - 1] + w[i]
    <2> TAKE i \in 0 .. n
    <2>1. r[i] = IF i = 0 THEN 0 ELSE h[i - 1] + v[i]
      BY <1>3
    <2>2. i # 0 => h[i - 1] = r[i - 1] /\ v[i] = w[i]
      OBVIOUS
    <2> QED BY <2>1, <2>2
  <1>5. Sums(r, w)
    <2>1. r = [i \in 0 .. n |-> r[i]]
      OBVIOUS
    <2> HIDE DEF r
    <2> QED BY <1>4, <2>1, RunsEach
  <1>6. r = f
    BY <1>1, <1>5
  <1>7. h[n + 1] = h[n] + v[n + 1] /\ h[n] = f[n]
    <2>1. h[n + 1] = h[n] + v[n + 1]
      BY <1>3
    <2>2. r[n] = h[n]
      OBVIOUS
    <2> QED BY <1>6, <2>1, <2>2
  <1> QED BY <1>1, <1>2, <1>7

\* What one number of a sequence grows by, its total grows by.
LEMMA TotalChanges ==
  ASSUME NEW n \in Nat, Adds(n), NEW w \in [1 .. n -> Int], NEW v \in [1 .. n -> Int],
         NEW k \in 1 .. n, NEW more \in Int,
         v[k] = w[k] + more, \A i \in 1 .. n \ {k} : v[i] = w[i]
  PROVE  Total(v) = Total(w) + more
  <1>1. PICK f \in [0 .. n -> Int] : Sums(f, w) /\ Total(w) = f[n]
    BY TotalOf
  <1>2. PICK h \in [0 .. n -> Int] : (\A g : Sums(g, v) => g = h) /\ Total(v) = h[n]
    BY TotalOf
  <1> DEFINE r == [i \in 0 .. n |-> IF i < k THEN f[i] ELSE f[i] + more]
  <1>3. \A i \in 0 .. n : f[i] = IF i = 0 THEN 0 ELSE f[i - 1] + w[i]
    <2>1. f = [i \in 0 .. n |-> IF i = 0 THEN 0 ELSE f[i - 1] + w[i]]
      BY <1>1, Numbers DEF Sums
    <2> QED BY <2>1
  <1>4. \A i \in 0 .. n : r[i] = IF i = 0 THEN 0 ELSE r[i - 1] + v[i]
    <2> TAKE i \in 0 .. n
    <2>1. CASE i = 0
      BY <1>3, <2>1
    <2>2. CASE i # 0
      <3>1. i - 1 \in 0 .. n /\ i \in 1 .. n /\ f[i - 1] \in Int /\ w[i] \in Int
        BY <2>2
      <3>2. f[i] = f[i - 1] + w[i]
        BY <1>3, <2>2
      <3>3. v[i] = IF i = k THEN w[i] + more ELSE w[i]
        BY <3>1
      <3>4. r[i] = IF i < k THEN f[i] ELSE f[i] + more
        OBVIOUS
      <3>5. r[i - 1] = IF i - 1 < k THEN f[i - 1] ELSE f[i - 1] + more
        BY <3>1
      <3> HIDE DEF r
      <3>6. CASE i < k
        BY <2>2, <3>1, <3>2, <3>3, <3>4, <3>5, <3>6
      <3>7. CASE i = k
        BY <2>2, <3>1, <3>2, <3>3, <3>4, <3>5, <3>7
      <3>8. CASE i > k
        <4>1. r[i] = f[i] + more /\ v[i] = w[i]
          BY <3>3, <3>4, <3>8
        <4>2. r[i - 1] = f[i - 1] + more
          BY <3>5, <3>8
        <4> QED BY <2>2, <3>1, <3>2, <4>1, <4>2
      <3> QED BY <3>6, <3>7, <3>8
    <2> QED BY <2>1, <2>2
  <1>5. Sums(r, v)
    <2>1. r = [i \in 0 .. n |-> r[i]]
      OBVIOUS
    <2> HIDE DEF r
    <2> QED BY <1>4, <2>1, RunsEach
  <1>6. r[n] = h[n] /\ r[n] = f[n] + more
    BY <1>2, <1>5
  <1> QED BY <1>1, <1>2, <1>6

Kind == {"BUY", "SELL", "ADJUST"}

\* The part of a row in a sum is a number.
LEMMA PartsAreInt ==
  ASSUME NEW t \in TradeRow, NEW p, NEW kind
  PROVE  SharesIn(t, p, kind) \in Int /\ GainIn(t, p) \in Int /\ PaidIn(t, p) \in Int
  <1>1. t.qty \in Nat /\ t.price \in Nat /\ t.realized \in Int
    BY DEF TradeRow
  <1>2. t.qty * t.price * 100 \in Int
    BY <1>1
  <1> QED BY <1>1, <1>2 DEF SharesIn, GainIn, PaidIn

\* The sums over the rows are those of as many numbers as there are rows.
LEMMA PartsAreNumbers ==
  ASSUME NEW s \in Seq(TradeRow), NEW p, NEW kind
  PROVE  /\ [i \in 1 .. Len(s) |-> SharesIn(s[i], p, kind)] \in [1 .. Len(s) -> Int]
         /\ [i \in 1 .. Len(s) |-> GainIn(s[i], p)] \in [1 .. Len(s) -> Int]
         /\ [i \in 1 .. Len(s) |-> PaidIn(s[i], p)] \in [1 .. Len(s) -> Int]
  <1>1. \A i \in 1 .. Len(s) : s[i] \in TradeRow
    OBVIOUS
  <1>2. \A i \in 1 .. Len(s) : /\ SharesIn(s[i], p, kind) \in Int
                              /\ GainIn(s[i], p) \in Int /\ PaidIn(s[i], p) \in Int
    BY <1>1, PartsAreInt
  <1> QED BY <1>2

\* The sums are numbers.
LEMMA SumsAreInt ==
  ASSUME BooksTypeOK, Adds(Len(trades)), NEW p, NEW kind
  PROVE  Shares(p, kind) \in Int /\ Gains(p) \in Int /\ Paid(p) \in Int
  <1>1. trades \in Seq(TradeRow) /\ Len(trades) \in Nat
    BY DEF BooksTypeOK
  <1>2. ASSUME NEW w \in [1 .. Len(trades) -> Int] PROVE Total(w) \in Int
    <2> DEFINE n == Len(trades)
    <2>1. n \in Nat /\ Adds(n) /\ w \in [1 .. n -> Int]
      BY <1>1
    <2> HIDE DEF n
    <2>2. PICK f \in [0 .. n -> Int] : Total(w) = f[n]
      BY <2>1, TotalOf
    <2> QED BY <2>1, <2>2
  <1>3. Shares(p, kind) \in Int
    <2> DEFINE w == [i \in 1 .. Len(trades) |-> SharesIn(trades[i], p, kind)]
    <2>1. w \in [1 .. Len(trades) -> Int]
      BY <1>1, PartsAreNumbers
    <2>2. Shares(p, kind) = Total(w)
      BY DEF Shares
    <2> HIDE DEF w
    <2> QED BY <1>2, <2>1, <2>2
  <1>4. Gains(p) \in Int
    BY <1>1, <1>2, PartsAreNumbers DEF Gains
  <1>5. Paid(p) \in Int
    BY <1>1, <1>2, PartsAreNumbers DEF Paid
  <1> QED BY <1>3, <1>4, <1>5

\* A new row adds its parts to the sums.
LEMMA RowCounts ==
  ASSUME BooksTypeOK, Adds(Len(trades)), NEW row \in TradeRow,
         trades' = Append(trades, row), NEW p, NEW kind
  PROVE  /\ Shares(p, kind)' = Shares(p, kind) + SharesIn(row, p, kind)
         /\ Gains(p)' = Gains(p) + GainIn(row, p)
         /\ Paid(p)' = Paid(p) + PaidIn(row, p)
  <1> DEFINE n == Len(trades)
  <1>1. trades \in Seq(TradeRow) /\ trades' \in Seq(TradeRow) /\ n \in Nat
    BY DEF BooksTypeOK
  <1>2. /\ Len(trades') = n + 1 /\ trades'[n + 1] = row
        /\ \A i \in 1 .. n : trades'[i] = trades[i]
    BY <1>1
  <1> DEFINE ws(s) == [i \in 1 .. Len(s) |-> SharesIn(s[i], p, kind)]
             wg(s) == [i \in 1 .. Len(s) |-> GainIn(s[i], p)]
             wp(s) == [i \in 1 .. Len(s) |-> PaidIn(s[i], p)]
  <1>3. /\ ws(trades) \in [1 .. n -> Int] /\ ws(trades') \in [1 .. n + 1 -> Int]
        /\ wg(trades) \in [1 .. n -> Int] /\ wg(trades') \in [1 .. n + 1 -> Int]
        /\ wp(trades) \in [1 .. n -> Int] /\ wp(trades') \in [1 .. n + 1 -> Int]
    <2>1. ASSUME NEW s \in Seq(TradeRow)
          PROVE  /\ ws(s) \in [1 .. Len(s) -> Int] /\ wg(s) \in [1 .. Len(s) -> Int]
                 /\ wp(s) \in [1 .. Len(s) -> Int]
      BY PartsAreNumbers
    <2> HIDE DEF ws, wg, wp
    <2> QED BY <1>1, <1>2, <2>1
  <1>4. /\ \A i \in 1 .. n : /\ ws(trades')[i] = ws(trades)[i]
                             /\ wg(trades')[i] = wg(trades)[i]
                             /\ wp(trades')[i] = wp(trades)[i]
        /\ ws(trades')[n + 1] = SharesIn(row, p, kind)
        /\ wg(trades')[n + 1] = GainIn(row, p)
        /\ wp(trades')[n + 1] = PaidIn(row, p)
    BY <1>1, <1>2
  <1>5. /\ Shares(p, kind) = Total(ws(trades)) /\ Shares(p, kind)' = Total(ws(trades'))
        /\ Gains(p) = Total(wg(trades)) /\ Gains(p)' = Total(wg(trades'))
        /\ Paid(p) = Total(wp(trades)) /\ Paid(p)' = Total(wp(trades'))
    BY DEF Shares, Gains, Paid
  <1>6. Adds(n)
    OBVIOUS
  <1> HIDE DEF n, ws, wg, wp
  <1>7. Total(ws(trades')) = Total(ws(trades)) + ws(trades')[n + 1]
    BY <1>1, <1>3, <1>4, <1>6, TotalGrows
  <1>8. Total(wg(trades')) = Total(wg(trades)) + wg(trades')[n + 1]
    BY <1>1, <1>3, <1>4, <1>6, TotalGrows
  <1>9. Total(wp(trades')) = Total(wp(trades)) + wp(trades')[n + 1]
    BY <1>1, <1>3, <1>4, <1>6, TotalGrows
  <1> QED BY <1>4, <1>5, <1>7, <1>8, <1>9

\* The money of a corrected row, before and after.
LEMMA Money ==
  ASSUME NEW q \in Int, NEW x \in Int, NEW y \in Int
  PROVE  /\ q * (y - x) * 100 \in Int
         /\ q * y * 100 = q * x * 100 + q * (y - x) * 100
  OBVIOUS

\* A corrected price changes only what its position paid.
LEMMA RowCorrected ==
  ASSUME BooksTypeOK, Adds(Len(trades)), NEW k \in DOMAIN trades, NEW pr \in Nat,
         trades[k].kind = "BUY", trades' = [trades EXCEPT ![k].price = pr],
         NEW p, NEW kind
  PROVE  /\ Shares(p, kind)' = Shares(p, kind)
         /\ Gains(p)' = Gains(p)
         /\ Paid(p)' = Paid(p) + IF trades[k].pos = p
                                 THEN trades[k].qty * (pr - trades[k].price) * 100 ELSE 0
  <1> DEFINE n == Len(trades)
             new == [trades[k] EXCEPT !.price = pr]
  <1>1. trades \in Seq(TradeRow) /\ n \in Nat /\ k \in 1 .. n /\ trades[k] \in TradeRow
    BY DEF BooksTypeOK
  <1>2. /\ new \in TradeRow /\ new.pos = trades[k].pos /\ new.kind = "BUY"
        /\ new.qty = trades[k].qty /\ new.realized = trades[k].realized
        /\ new.price = pr
    BY <1>1 DEF TradeRow
  <1>3. /\ trades' \in Seq(TradeRow) /\ Len(trades') = n /\ trades'[k] = new
        /\ \A i \in 1 .. n \ {k} : trades'[i] = trades[i]
    BY <1>1, <1>2
  <1> HIDE DEF new
  <1>4. \A i \in 1 .. n : /\ SharesIn(trades'[i], p, kind) = SharesIn(trades[i], p, kind)
                          /\ GainIn(trades'[i], p) = GainIn(trades[i], p)
    <2>1. /\ SharesIn(new, p, kind) = SharesIn(trades[k], p, kind)
          /\ GainIn(new, p) = GainIn(trades[k], p)
      BY <1>2 DEF SharesIn, GainIn
    <2> QED BY <1>3, <2>1
  <1>5. Shares(p, kind)' = Shares(p, kind) /\ Gains(p)' = Gains(p)
    BY <1>3, <1>4 DEF Shares, Gains
  <1> DEFINE more == IF trades[k].pos = p
                     THEN trades[k].qty * (pr - trades[k].price) * 100 ELSE 0
             wp(s) == [i \in 1 .. Len(s) |-> PaidIn(s[i], p)]
  <1>6. wp(trades) \in [1 .. n -> Int] /\ wp(trades') \in [1 .. n -> Int]
    BY <1>1, <1>3, PartsAreNumbers
  <1>7. more \in Int /\ PaidIn(new, p) = PaidIn(trades[k], p) + more
    <2>1. trades[k].qty \in Nat /\ trades[k].price \in Nat
      BY <1>1 DEF TradeRow
    <2>2. /\ trades[k].qty * (pr - trades[k].price) * 100 \in Int
          /\ trades[k].qty * pr * 100 = trades[k].qty * trades[k].price * 100
                                        + trades[k].qty * (pr - trades[k].price) * 100
      <3> DEFINE q == trades[k].qty
                 x == trades[k].price
      <3>1. q \in Int /\ x \in Int /\ pr \in Int
        BY <2>1
      <3>2. q * (pr - x) * 100 \in Int /\ q * pr * 100 = q * x * 100 + q * (pr - x) * 100
        <4> HIDE DEF q, x
        <4> QED BY <3>1, Money
      <3> QED BY <3>2
    <2>3. trades[k].qty * trades[k].price * 100 \in Int
      BY <2>1
    <2>4. PaidIn(new, p) = IF trades[k].pos = p THEN trades[k].qty * pr * 100 ELSE 0
      BY <1>2 DEF PaidIn
    <2>5. PaidIn(trades[k], p) = IF trades[k].pos = p
                                 THEN trades[k].qty * trades[k].price * 100 ELSE 0
      BY DEF PaidIn
    <2>6. CASE trades[k].pos = p
      BY <2>2, <2>4, <2>5, <2>6
    <2>7. CASE trades[k].pos # p
      BY <2>4, <2>5, <2>7
    <2> QED BY <2>6, <2>7
  <1>8. /\ wp(trades')[k] = wp(trades)[k] + more
        /\ \A i \in 1 .. n \ {k} : wp(trades')[i] = wp(trades)[i]
    <2> HIDE DEF more
    <2> QED BY <1>1, <1>3, <1>7
  <1>9. Paid(p) = Total(wp(trades)) /\ Paid(p)' = Total(wp(trades'))
    BY DEF Paid
  <1>10. Adds(n)
    OBVIOUS
  <1>11. Total(wp(trades')) = Total(wp(trades)) + more
    <2> HIDE DEF n, wp, more
    <2> QED BY <1>1, <1>6, <1>7, <1>8, <1>10, TotalChanges
  <1> QED BY <1>5, <1>9, <1>11

-----------------------------------------------------------------------------
(* The rows and the books keep their types.                                *)
THEOREM BooksTypeCorrect == BooksSpec => []BooksTypeOK
  <1>1. IInv => BooksTypeOK
    BY DEF IInv
  <1> QED BY <1>1, InitIInv, StepKeeps, PTL DEF BooksSpec

(* get_open_position() finds at most one position, and it holds shares.    *)
THEOREM OneOpenAlways == BooksSpec => []OneOpen
  <1>1. IInv => OneOpen
    BY DEF IInv
  <1> QED BY <1>1, InitIInv, StepKeeps, PTL DEF BooksSpec

(* buy(), sell() and apply_stock_split() keep the books in balance with    *)
(* the cash that the trades moved, for every fee, tax, ratio and order.    *)
THEOREM BooksBalanceAlways == BooksSpec => []BooksBalance
  <1>1. IInv => BooksBalance
    BY DEF IInv
  <1> QED BY <1>1, InitIInv, StepKeeps, PTL DEF BooksSpec

(* sell() leaves no cost behind in a position that it closes.              *)
THEOREM ClosedCostsNothingAlways == BooksSpec => []ClosedCostsNothing
  <1>1. IInv => ClosedCostsNothing
    BY DEF IInv
  <1> QED BY <1>1, InitIInv, StepKeeps, PTL DEF BooksSpec

(* Once a position is closed, no trade, split, correction or edit touches  *)
(* it or its rows, those of the next position in the ticker included.      *)
THEOREM ClosedIsSettledAlways == BooksSpec => ClosedIsSettled
  <1> DEFINE Settled(p) == /\ status'[p] = "closed"
                           /\ realized'[p] = realized[p] /\ cash'[p] = cash[p]
             Kept(i)    == trades'[i] = trades[i]
  <1>1. ASSUME IInv, [BooksNext]_bookVars
        PROVE  /\ \A p \in PosId : status[p] = "closed" => Settled(p)
               /\ \A i \in DOMAIN trades : status[trades[i].pos] = "closed" => Kept(i)
    <2>1. /\ status \in [PosId -> {"none", "open", "closed"}]
          /\ realized \in [PosId -> Int] /\ cash \in [PosId -> Int]
          /\ trades \in Seq(TradeRow)
      BY <1>1 DEF IInv, BooksTypeOK
    <2>2. CASE UNCHANGED <<realized, cash, status, trades>>
      BY <2>2
    <2>3. ASSUME NEW p \in PosId, status[p] # "closed",
                 \A o \in PosId \ {p} : /\ status'[o] = status[o]
                                        /\ realized'[o] = realized[o] /\ cash'[o] = cash[o],
                 \A i \in DOMAIN trades : trades[i].pos # p => Kept(i)
          PROVE  /\ \A o \in PosId : status[o] = "closed" => Settled(o)
                 /\ \A i \in DOMAIN trades : status[trades[i].pos] = "closed" => Kept(i)
      BY <2>3
    <2>4. ASSUME NEW row PROVE \A i \in DOMAIN trades : Append(trades, row)[i] = trades[i]
      BY <2>1
    <2>5. ASSUME NEW p \in PosId, NEW q \in Qtys, NEW pr \in Prices, NEW linked \in BOOLEAN,
                 Buy(p, q, pr, linked)
          PROVE  /\ \A o \in PosId : status[o] = "closed" => Settled(o)
                 /\ \A i \in DOMAIN trades : status[trades[i].pos] = "closed" => Kept(i)
      <3>1. status[p] # "closed"
        BY <2>5 DEF Buy, BuyInto, IsOpen
      <3>2. \A i \in DOMAIN trades : Kept(i)
        BY <2>4, <2>5 DEF Buy, AddTrade
      <3>3. \A o \in PosId \ {p} : /\ status'[o] = status[o]
                                   /\ realized'[o] = realized[o] /\ cash'[o] = cash[o]
        BY <2>1, <2>5 DEF Buy
      <3> QED BY <3>1, <3>2, <3>3, <2>3
    <2>6. ASSUME NEW p \in PosId, NEW q \in Qtys, NEW pr \in Prices, Sell(p, q, pr)
          PROVE  /\ \A o \in PosId : status[o] = "closed" => Settled(o)
                 /\ \A i \in DOMAIN trades : status[trades[i].pos] = "closed" => Kept(i)
      <3>1. status[p] # "closed"
        BY <2>6 DEF Sell, Sold, IsOpen
      <3>2. \A i \in DOMAIN trades : Kept(i)
        BY <2>4, <2>6 DEF Sell, Sold, AddTrade
      <3>3. \A o \in PosId \ {p} : /\ status'[o] = status[o]
                                   /\ realized'[o] = realized[o] /\ cash'[o] = cash[o]
        BY <2>1, <2>6 DEF Sell, Sold
      <3> QED BY <3>1, <3>2, <3>3, <2>3
    <2>7. ASSUME NEW p \in PosId, NEW ratio \in Ratios, Split(p, ratio)
          PROVE  /\ \A o \in PosId : status[o] = "closed" => Settled(o)
                 /\ \A i \in DOMAIN trades : status[trades[i].pos] = "closed" => Kept(i)
      BY <2>4, <2>7 DEF Split, AddTrade
    <2>8. ASSUME NEW p \in PosId, NEW q, NEW avg, NEW lock, Edit(p, q, avg, lock)
          PROVE  UNCHANGED <<realized, cash, status, trades>>
      BY <2>8 DEF Edit
    <2>9. ASSUME NEW i \in DOMAIN trades, NEW pr \in Prices, Correct(i, pr)
          PROVE  /\ \A o \in PosId : status[o] = "closed" => Settled(o)
                 /\ \A j \in DOMAIN trades : status[trades[j].pos] = "closed" => Kept(j)
      <3>1. status[trades[i].pos] # "closed" /\ trades[i].pos \in PosId
        <4>1. status[trades[i].pos] = "open"
          BY <2>9 DEF Correct, IsOpen
        <4>2. trades[i] \in TradeRow
          BY <2>1
        <4>3. trades[i].pos \in PosId
          BY <4>2 DEF TradeRow
        <4> QED BY <4>1, <4>3
      <3>2. \A j \in DOMAIN trades : j # i => Kept(j)
        <4>1. trades' = [trades EXCEPT ![i].price = pr]
          BY <2>9 DEF Correct, Corrected
        <4> QED BY <2>1, <4>1
      <3>3. \A o \in PosId \ {trades[i].pos} : /\ status'[o] = status[o]
                                   /\ realized'[o] = realized[o] /\ cash'[o] = cash[o]
        BY <2>1, <2>9 DEF Correct, Corrected
      <3> HIDE DEF Settled, Kept
      <3>4. \A j \in DOMAIN trades : trades[j].pos # trades[i].pos => Kept(j)
        BY <3>2
      <3> QED BY <3>1, <3>3, <3>4, <2>3
    <2> QED BY <1>1, <2>2, <2>5, <2>6, <2>7, <2>8, <2>9 DEF BooksNext, bookVars
  <1>2. IInv /\ [BooksNext]_bookVars =>
          [/\ \A p \in PosId : status[p] = "closed" => Settled(p)
           /\ \A i \in DOMAIN trades : status[trades[i].pos] = "closed" => Kept(i)]_bookVars
    BY <1>1
  <1> QED BY <1>2, InitIInv, StepKeeps, PTL DEF BooksSpec, ClosedIsSettled

-----------------------------------------------------------------------------
(* The trade rows account for the positions: with the totals of the rows    *)
(* there are, what every operation adds to them is what it adds to the books. *)
RowsInv == IInv /\ Adds(Len(trades)) /\ RowsAccount

\* A ticker without rows.
LEMMA InitRows == BooksInit => RowsInv
  <1> SUFFICES ASSUME BooksInit PROVE RowsInv
    OBVIOUS
  <1>1. Len(trades) = 0
    BY DEF BooksInit
  <1>2. ASSUME NEW w \in [1 .. 0 -> Int] PROVE Total(w) = 0
    <2>1. PICK f \in [0 .. 0 -> Int] : Sums(f, w) /\ Total(w) = f[0]
      <3>1. Adds(0) /\ 0 \in Nat
        BY AddsNone
      <3> QED BY <3>1, TotalOf
    <2>2. Len(w) = 0
      BY Numbers
    <2> QED BY <2>1, <2>2 DEF Sums
  <1>3. \A p : Gains(p) = 0 /\ Paid(p) = 0 /\ \A kind : Shares(p, kind) = 0
    <2>1. ASSUME NEW p, NEW kind PROVE Gains(p) = 0 /\ Paid(p) = 0 /\ Shares(p, kind) = 0
      <3>1. /\ [i \in 1 .. 0 |-> GainIn(trades[i], p)] \in [1 .. 0 -> Int]
            /\ [i \in 1 .. 0 |-> PaidIn(trades[i], p)] \in [1 .. 0 -> Int]
            /\ [i \in 1 .. 0 |-> SharesIn(trades[i], p, kind)] \in [1 .. 0 -> Int]
        OBVIOUS
      <3>2. /\ Gains(p) = Total([i \in 1 .. 0 |-> GainIn(trades[i], p)])
            /\ Paid(p) = Total([i \in 1 .. 0 |-> PaidIn(trades[i], p)])
            /\ Shares(p, kind) = Total([i \in 1 .. 0 |-> SharesIn(trades[i], p, kind)])
        BY <1>1 DEF Gains, Paid, Shares
      <3> QED BY <1>2, <3>1, <3>2
    <2> QED BY <2>1
  <1>4. RowsAccount
    <2>1. ASSUME NEW p \in PosId
          PROVE  qty[p] = 0 /\ realized[p] = 0 /\ bought[p] = 0 /\ boughtFor[p] = 0
      BY DEF BooksInit
    <2>2. ASSUME NEW p \in PosId PROVE Accounted(p)
      <3>1. 0 = 0 + 0 - 0
        OBVIOUS
      <3> QED BY <1>3, <2>1, <3>1 DEF Accounted
    <2> QED BY <2>2 DEF RowsAccount
  <1> QED BY <1>1, <1>4, AddsNone, InitIInv DEF RowsInv

\* A row that an operation adds, with what it changes of position p.
LEMMA AddedAccounts ==
  ASSUME RowsInv, NEW p \in PosId, NEW kind \in Kind, NEW q \in Nat, NEW pr \in Nat,
         NEW linked \in BOOLEAN, NEW gain \in Int,
         AddTrade(p, kind, q, pr, linked, gain),
         kind # "SELL" => gain = 0,
         qty' = [qty EXCEPT ![p] = IF kind = "SELL" THEN @ - q ELSE @ + q],
         realized' = [realized EXCEPT ![p] = @ + gain],
         bought' = [bought EXCEPT ![p] = IF kind = "BUY" THEN @ + q ELSE @],
         boughtFor' = [boughtFor EXCEPT ![p] = IF kind = "BUY" THEN @ + q * pr * 100 ELSE @],
         manual' = manual
  PROVE  Adds(Len(trades))' /\ RowsAccount'
  <1> DEFINE row == [pos |-> p, kind |-> kind, qty |-> q, price |-> pr,
                     linked |-> linked, realized |-> gain]
  <1>1. /\ BooksTypeOK /\ Adds(Len(trades)) /\ RowsAccount
        /\ trades \in Seq(TradeRow) /\ Len(trades) \in Nat
    <2>1. BooksTypeOK /\ Adds(Len(trades)) /\ RowsAccount
      BY DEF RowsInv, IInv
    <2>2. trades \in Seq(TradeRow)
      BY <2>1 DEF BooksTypeOK
    <2>3. Len(trades) \in Nat
      BY <2>2
    <2> QED BY <2>1, <2>2, <2>3
  <1>2. row \in TradeRow /\ trades' = Append(trades, row)
    BY DEF AddTrade, TradeRow, Kind
  <1>3. Adds(Len(trades))'
    <2>1. Len(trades') = Len(trades) + 1
      BY <1>1, <1>2
    <2>2. Adds(Len(trades) + 1)
      BY <1>1, AddsNext
    <2> QED BY <2>1, <2>2
  <1>4. /\ row.pos = p /\ row.kind = kind /\ row.qty = q /\ row.price = pr
        /\ row.realized = gain
    OBVIOUS
  <1> HIDE DEF row
  <1>5. ASSUME NEW o \in PosId PROVE Accounted(o)'
    <2>1. /\ Gains(o)' = Gains(o) + GainIn(row, o)
          /\ Paid(o)' = Paid(o) + PaidIn(row, o)
          /\ \A k : Shares(o, k)' = Shares(o, k) + SharesIn(row, o, k)
      BY <1>1, <1>2, RowCounts
    <2>2. /\ Gains(o) \in Int /\ Paid(o) \in Int /\ \A k : Shares(o, k) \in Int
          /\ qty[o] \in Nat /\ realized[o] \in Int /\ bought[o] \in Nat
          /\ boughtFor[o] \in Int
      BY <1>1, SumsAreInt, Typed
    <2>3. /\ "edit" \notin manual[o]
                => qty[o] = Shares(o, "BUY") + Shares(o, "ADJUST") - Shares(o, "SELL")
          /\ realized[o] = Gains(o) /\ bought[o] = Shares(o, "BUY") /\ boughtFor[o] = Paid(o)
      BY <1>1 DEF RowsAccount, Accounted
    <2>4. CASE o # p
      <3>1. /\ GainIn(row, o) = 0 /\ PaidIn(row, o) = 0 /\ \A k : SharesIn(row, o, k) = 0
        BY <1>4, <2>4 DEF GainIn, PaidIn, SharesIn
      <3>2. /\ qty'[o] = qty[o] /\ realized'[o] = realized[o] /\ bought'[o] = bought[o]
            /\ boughtFor'[o] = boughtFor[o] /\ manual'[o] = manual[o]
        BY <1>1, <2>4 DEF BooksTypeOK
      <3>3. /\ Gains(o)' = Gains(o) /\ Paid(o)' = Paid(o)
            /\ \A k : Shares(o, k)' = Shares(o, k)
        BY <2>1, <2>2, <3>1
      <3> QED BY <2>3, <3>2, <3>3 DEF Accounted
    <2>5. CASE o = p
      <3>1. /\ GainIn(row, o) = gain
            /\ PaidIn(row, o) = IF kind = "BUY" THEN q * pr * 100 ELSE 0
            /\ \A k : SharesIn(row, o, k) = IF kind = k THEN q ELSE 0
        BY <1>4, <2>5 DEF GainIn, PaidIn, SharesIn
      <3>2. /\ qty'[o] = IF kind = "SELL" THEN qty[o] - q ELSE qty[o] + q
            /\ realized'[o] = realized[o] + gain
            /\ bought'[o] = IF kind = "BUY" THEN bought[o] + q ELSE bought[o]
            /\ boughtFor'[o] = IF kind = "BUY" THEN boughtFor[o] + q * pr * 100 ELSE boughtFor[o]
            /\ manual'[o] = manual[o]
        BY <1>1, <2>5 DEF BooksTypeOK
      <3>3. realized'[o] = Gains(o)'
        BY <2>1, <2>3, <3>1, <3>2
      <3>4. boughtFor'[o] = Paid(o)'
        <4>1. CASE kind = "BUY"
          BY <2>1, <2>3, <3>1, <3>2, <4>1
        <4>2. CASE kind # "BUY"
          BY <2>1, <2>2, <2>3, <3>1, <3>2, <4>2
        <4> QED BY <4>1, <4>2
      <3>5. bought'[o] = Shares(o, "BUY")'
        BY <2>1, <2>2, <2>3, <3>1, <3>2
      <3>6. "edit" \notin manual'[o] =>
               qty'[o] = Shares(o, "BUY")' + Shares(o, "ADJUST")' - Shares(o, "SELL")'
        <4>1. /\ Shares(o, "BUY")' = Shares(o, "BUY") + IF kind = "BUY" THEN q ELSE 0
              /\ Shares(o, "ADJUST")' = Shares(o, "ADJUST") + IF kind = "ADJUST" THEN q ELSE 0
              /\ Shares(o, "SELL")' = Shares(o, "SELL") + IF kind = "SELL" THEN q ELSE 0
          BY <2>1, <3>1
        <4>2. /\ Shares(o, "BUY") \in Int /\ Shares(o, "ADJUST") \in Int
              /\ Shares(o, "SELL") \in Int /\ qty[o] \in Int /\ q \in Int
          BY <2>2
        <4>3. CASE kind = "BUY"
          BY <2>3, <3>2, <4>1, <4>2, <4>3
        <4>4. CASE kind = "ADJUST"
          BY <2>3, <3>2, <4>1, <4>2, <4>4
        <4>5. CASE kind = "SELL"
          BY <2>3, <3>2, <4>1, <4>2, <4>5
        <4> QED BY <4>3, <4>4, <4>5 DEF Kind
      <3> QED BY <3>3, <3>4, <3>5, <3>6 DEF Accounted
    <2> QED BY <2>4, <2>5
  <1> QED BY <1>3, <1>5 DEF RowsAccount

\* buy() adds a BUY row of what it adds to the position.
LEMMA BuyAccounts ==
  ASSUME RowsInv, NEW p \in PosId, NEW q \in Qtys, NEW pr \in Prices, NEW linked \in BOOLEAN,
         Buy(p, q, pr, linked)
  PROVE  Adds(Len(trades))' /\ RowsAccount'
  <1>1. q \in Nat /\ pr \in Nat /\ "BUY" \in Kind /\ 0 \in Int
    BY BooksAssumption DEF BooksAssumption, Kind
  <1>2. BooksTypeOK
    BY DEF RowsInv, IInv
  <1>3. AddTrade(p, "BUY", q, pr, linked, 0) /\ manual' = manual
    BY DEF Buy
  <1>4. /\ qty' = [qty EXCEPT ![p] = IF "BUY" = "SELL" THEN @ - q ELSE @ + q]
        /\ bought' = [bought EXCEPT ![p] = IF "BUY" = "BUY" THEN @ + q ELSE @]
        /\ boughtFor' = [boughtFor EXCEPT ![p] = IF "BUY" = "BUY" THEN @ + q * pr * 100 ELSE @]
    BY DEF Buy
  <1>5. realized' = [realized EXCEPT ![p] = @ + 0]
    <2>1. realized' = realized /\ realized[p] + 0 = realized[p]
      BY <1>2, Typed DEF Buy
    <2> QED BY <1>2, <2>1 DEF BooksTypeOK
  <1> QED BY <1>1, <1>3, <1>4, <1>5, AddedAccounts

\* sell() adds a SELL row of what it takes and gains.
LEMMA SellAccounts ==
  ASSUME RowsInv, NEW p \in PosId, NEW q \in Qtys, NEW pr \in Prices, Sell(p, q, pr)
  PROVE  Adds(Len(trades))' /\ RowsAccount'
  <1> DEFINE gain == Proceeds(q, pr) - CostOf(p, q)
  <1>1. /\ q \in Nat \ {0} /\ pr \in Nat /\ FeePct \in Nat /\ TaxPct \in Nat
        /\ "SELL" \in Kind /\ FALSE \in BOOLEAN /\ q <= qty[p]
    BY BooksAssumption DEF BooksAssumption, Kind, Sell
  <1>2. BooksTypeOK
    BY DEF RowsInv, IInv
  <1>3. gain \in Int
    <2>1. qty[p] \in Nat \ {0} /\ basis[p] * q \in Int
      BY <1>1, <1>2, Typed
    <2>2. CostOf(p, q) \in Int
      BY <2>1, DivInt DEF CostOf
    <2>3. Proceeds(q, pr) \in Int
      BY <1>1 DEF Proceeds
    <2> QED BY <2>2, <2>3
  <1>4. AddTrade(p, "SELL", q, pr, FALSE, gain) /\ UNCHANGED <<bought, boughtFor, manual>>
    BY DEF Sell, Sold
  <1>5. /\ qty' = [qty EXCEPT ![p] = IF "SELL" = "SELL" THEN @ - q ELSE @ + q]
        /\ realized' = [realized EXCEPT ![p] = @ + gain]
    BY DEF Sell, Sold
  <1> HIDE DEF gain
  <1>6. /\ bought' = [bought EXCEPT ![p] = IF "SELL" = "BUY" THEN @ + q ELSE @]
        /\ boughtFor' = [boughtFor EXCEPT ![p] =
                            IF "SELL" = "BUY" THEN @ + q * pr * 100 ELSE @]
    BY <1>2, <1>4 DEF BooksTypeOK
  <1> QED BY <1>1, <1>3, <1>4, <1>5, <1>6, AddedAccounts

\* apply_stock_split() adds an ADJUST row of the bonus shares.
LEMMA SplitAccounts ==
  ASSUME RowsInv, NEW p \in PosId, NEW ratio \in Ratios, Split(p, ratio)
  PROVE  Adds(Len(trades))' /\ RowsAccount'
  <1> DEFINE bonus == qty[p] * ratio
  <1>1. BooksTypeOK
    BY DEF RowsInv, IInv
  <1>2. bonus \in Nat
    <2>1. qty[p] \in Nat /\ ratio \in Nat
      BY <1>1, BooksAssumption, Typed DEF BooksAssumption
    <2> QED BY <2>1
  <1>3. AddTrade(p, "ADJUST", bonus, 0, FALSE, 0) /\ qty' = [qty EXCEPT ![p] = @ + bonus]
    BY DEF Split
  <1>4. UNCHANGED <<realized, bought, boughtFor, manual>>
    BY DEF Split
  <1> HIDE DEF bonus
  <1>5. qty' = [qty EXCEPT ![p] = IF "ADJUST" = "SELL" THEN @ - bonus ELSE @ + bonus]
    BY <1>3
  <1>6. realized' = [realized EXCEPT ![p] = @ + 0]
    <2>1. realized[p] + 0 = realized[p]
      BY <1>1, Typed
    <2> QED BY <1>1, <1>4, <2>1 DEF BooksTypeOK
  <1>7. /\ bought' = [bought EXCEPT ![p] = IF "ADJUST" = "BUY" THEN @ + bonus ELSE @]
        /\ boughtFor' = [boughtFor EXCEPT ![p] =
                            IF "ADJUST" = "BUY" THEN @ + bonus * 0 * 100 ELSE @]
    BY <1>1, <1>4 DEF BooksTypeOK
  <1>8. "ADJUST" \in Kind /\ 0 \in Nat /\ 0 \in Int /\ FALSE \in BOOLEAN
    BY DEF Kind
  <1> QED BY <1>2, <1>3, <1>4, <1>5, <1>6, <1>7, <1>8, AddedAccounts

\* correct_trade() changes the row and the sums alike.
LEMMA CorrectAccounts ==
  ASSUME RowsInv, NEW i \in DOMAIN trades, NEW pr \in Prices, Correct(i, pr)
  PROVE  Adds(Len(trades))' /\ RowsAccount'
  <1> DEFINE p    == trades[i].pos
             more == trades[i].qty * (pr - trades[i].price)
  <1>1. /\ BooksTypeOK /\ Adds(Len(trades)) /\ RowsAccount
        /\ trades \in Seq(TradeRow) /\ pr \in Nat
    BY BooksAssumption DEF RowsInv, IInv, BooksTypeOK, BooksAssumption
  <1>2. trades' = [trades EXCEPT ![i].price = pr] /\ trades[i].kind = "BUY"
    BY DEF Correct, Corrected
  <1>3. /\ boughtFor' = [boughtFor EXCEPT ![p] = @ + more * 100]
        /\ manual' = [manual EXCEPT ![p] = @ \cup {"correct"}]
        /\ UNCHANGED <<qty, realized, bought>>
    BY DEF Correct, Corrected
  <1>4. trades[i] \in TradeRow /\ p \in PosId
    <2>1. trades[i] \in TradeRow
      BY <1>1
    <2> QED BY <2>1 DEF TradeRow
  <1>5. Len(trades') = Len(trades)
    BY <1>1, <1>2
  <1>6. ASSUME NEW o \in PosId PROVE Accounted(o)'
    <2>1. /\ Gains(o)' = Gains(o) /\ \A k : Shares(o, k)' = Shares(o, k)
          /\ Paid(o)' = Paid(o) + IF p = o
                                  THEN trades[i].qty * (pr - trades[i].price) * 100 ELSE 0
      BY <1>1, <1>2, RowCorrected
    <2>2. Paid(o) \in Int
      BY <1>1, SumsAreInt
    <2>3. Accounted(o)
      BY <1>1 DEF RowsAccount
    <2>4. boughtFor'[o] = Paid(o)'
      <3>1. CASE o = p
        <4>1. boughtFor'[o] = boughtFor[o] + more * 100
          BY <1>1, <1>3, <3>1 DEF BooksTypeOK
        <4> QED BY <2>1, <2>3, <3>1, <4>1 DEF Accounted
      <3>2. CASE o # p
        <4>1. boughtFor'[o] = boughtFor[o]
          BY <1>1, <1>3, <3>2 DEF BooksTypeOK
        <4> QED BY <2>1, <2>2, <2>3, <3>2, <4>1 DEF Accounted
      <3> QED BY <3>1, <3>2
    <2>5. "edit" \in manual[o] => "edit" \in manual'[o]
      BY <1>1, <1>3, <1>4 DEF BooksTypeOK
    <2> QED BY <1>3, <2>1, <2>3, <2>4, <2>5 DEF Accounted
  <1> QED BY <1>1, <1>5, <1>6 DEF RowsAccount

\* edit_position() leaves the rows behind: only the quantity may differ after it.
LEMMA EditAccounts ==
  ASSUME RowsInv, NEW p \in PosId, NEW q, NEW avg, NEW lock, Edit(p, q, avg, lock)
  PROVE  Adds(Len(trades))' /\ RowsAccount'
  <1>1. BooksTypeOK /\ Adds(Len(trades)) /\ RowsAccount
    BY DEF RowsInv, IInv
  <1>2. UNCHANGED <<realized, trades, bought, boughtFor>>
    BY DEF Edit
  <1>3. /\ qty' = [qty EXCEPT ![p] = New(q, qty[p])]
        /\ manual' = [manual EXCEPT ![p] = @ \cup {"edit"}]
    BY DEF Edit
  <1>4. \A o \in PosId : "edit" \notin manual'[o] => /\ "edit" \notin manual[o]
                                                     /\ qty'[o] = qty[o]
    BY <1>1, <1>3 DEF BooksTypeOK
  <1>5. \A o : /\ Gains(o)' = Gains(o) /\ Paid(o)' = Paid(o)
               /\ \A k : Shares(o, k)' = Shares(o, k)
    BY <1>2 DEF Gains, Paid, Shares
  <1> QED BY <1>1, <1>2, <1>4, <1>5 DEF RowsAccount, Accounted

\* Every operation keeps the rows and the books together.
LEMMA StepAccounts == RowsInv /\ [BooksNext]_bookVars => RowsInv'
  <1> SUFFICES ASSUME RowsInv, [BooksNext]_bookVars PROVE Adds(Len(trades))' /\ RowsAccount'
    BY StepKeeps DEF RowsInv
  <1>1. CASE UNCHANGED bookVars
    <2>1. /\ UNCHANGED <<qty, realized, bought, boughtFor, manual, trades>>
          /\ Adds(Len(trades)) /\ RowsAccount
      BY <1>1 DEF bookVars, RowsInv
    <2> QED BY <2>1 DEF RowsAccount, Accounted, Gains, Paid, Shares
  <1> QED BY <1>1, BuyAccounts, SellAccounts, SplitAccounts, CorrectAccounts, EditAccounts
          DEF BooksNext

(* Whatever is bought, sold, split, corrected and edited, for every fee, tax *)
(* and ratio: the trade rows add up to the position's P&L, to the sums that  *)
(* correct_trade() takes its average from, and, unless edit_position() wrote *)
(* them, to its shares.                                                      *)
THEOREM RowsAccountAlways == BooksSpec => []RowsAccount
  <1>1. RowsInv => RowsAccount
    BY DEF RowsInv
  <1> QED BY <1>1, InitRows, StepAccounts, PTL DEF BooksSpec

-----------------------------------------------------------------------------
(* Corrections.  CorrectedBooksBalance of MCPositionBooks, what comments say *)
(* of a split, is refuted by a run; this is where it does hold.             *)

\* A position that was only bought into: no sale, no split, no edit.
OnlyBought(p) ==
    /\ "edit" \notin manual[p]
    /\ \A i \in DOMAIN trades : trades[i].pos = p => trades[i].kind = "BUY"

\* Its cost and its money are the sum that its BUY rows say.
AsBought(p) ==
    /\ qty[p] = bought[p] /\ realized[p] = 0
    /\ cash[p] + boughtFor[p] = 0 /\ basis[p] = boughtFor[p]

Plain == FeePct = 0 => \A p \in PosId : OnlyBought(p) => AsBought(p)

\* Without fees, such a position balances however often its trades were
\* corrected: the mean price of all BUY rows is then what the shares cost.
CorrectionsBalance == FeePct = 0 => \A p \in PosId : OnlyBought(p) => Balanced(p)

\* A position that was only bought into was so before: rows are added, and a
\* correction changes the price of one.
LEMMA OnlyBoughtBefore ==
  ASSUME BooksTypeOK, NEW o \in PosId, OnlyBought(o)', manual[o] \subseteq manual'[o],
         \/ trades' = trades
         \/ \E t : trades' = Append(trades, t)
         \/ \E i \in DOMAIN trades : \E pr : trades' = [trades EXCEPT ![i].price = pr]
  PROVE  OnlyBought(o)
  <1>1. trades \in Seq(TradeRow)
    BY DEF BooksTypeOK
  <1>2. ASSUME NEW t, trades' = Append(trades, t) PROVE OnlyBought(o)
    BY <1>1, <1>2 DEF OnlyBought
  <1>3. ASSUME NEW i \in DOMAIN trades, NEW pr, trades' = [trades EXCEPT ![i].price = pr]
        PROVE  OnlyBought(o)
    <2>1. /\ DOMAIN trades' = DOMAIN trades
          /\ \A j \in DOMAIN trades : j # i => trades'[j] = trades[j]
          /\ trades'[i] = [trades[i] EXCEPT !.price = pr]
      BY <1>1, <1>3
    <2>2. trades[i] \in TradeRow
      BY <1>1
    <2>3. trades'[i].pos = trades[i].pos /\ trades'[i].kind = trades[i].kind
      BY <2>1, <2>2 DEF TradeRow
    <2> QED BY <2>1, <2>3 DEF OnlyBought
  <1>4. CASE trades' = trades
    BY <1>4 DEF OnlyBought
  <1> QED BY <1>2, <1>3, <1>4

\* A row that is no purchase ends it.
LEMMA NotOnlyBought ==
  ASSUME BooksTypeOK, NEW p \in PosId, NEW kind \in {"SELL", "ADJUST"},
         NEW q, NEW pr, NEW linked, NEW gain, AddTrade(p, kind, q, pr, linked, gain)
  PROVE  ~OnlyBought(p)'
  <1> DEFINE t == [pos |-> p, kind |-> kind, qty |-> q, price |-> pr, linked |-> linked,
                   realized |-> gain]
  <1>1. trades \in Seq(TradeRow) /\ trades' = Append(trades, t)
    BY DEF BooksTypeOK, AddTrade
  <1>2. t.pos = p /\ t.kind # "BUY"
    OBVIOUS
  <1> HIDE DEF t
  <1>3. Len(trades) + 1 \in DOMAIN trades' /\ trades'[Len(trades) + 1] = t
    BY <1>1
  <1> QED BY <1>2, <1>3 DEF OnlyBought

\* Each operation keeps it.
LEMMA PlainStep ==
  ASSUME IInv, Plain, [BooksNext]_bookVars
  PROVE  Plain'
  <1> SUFFICES ASSUME FeePct = 0, NEW o \in PosId, OnlyBought(o)' PROVE AsBought(o)'
    BY DEF Plain
  <1>1. BooksTypeOK
    BY DEF IInv
  <1>2. OnlyBought(o) => AsBought(o)
    BY DEF Plain
  <1>3. /\ qty[o] \in Nat /\ basis[o] \in Int /\ realized[o] \in Int /\ bought[o] \in Nat
        /\ boughtFor[o] \in Int /\ cash[o] \in Int
    BY <1>1, Typed
  <1>4. ASSUME NEW p \in PosId, NEW q \in Qtys, NEW pr \in Prices, NEW linked \in BOOLEAN,
               Buy(p, q, pr, linked)
        PROVE  AsBought(o)'
    <2>1. OnlyBought(o)
      BY <1>1, <1>4, OnlyBoughtBefore DEF Buy, AddTrade
    <2>2. q \in Nat /\ pr \in Nat
      BY BooksAssumption DEF BooksAssumption
    <2>3. q * pr \in Nat /\ q * EffectivePrice(pr) = q * pr * 100 /\ 100 + FeePct = 100
      BY <2>2 DEF EffectivePrice
    <2> DEFINE a == q * pr * 100
    <2>4. a \in Nat
      BY <2>2, <2>3
    <2>5. /\ qty' = [qty EXCEPT ![p] = @ + q] /\ basis' = [basis EXCEPT ![p] = @ + a]
          /\ bought' = [bought EXCEPT ![p] = @ + q]
          /\ boughtFor' = [boughtFor EXCEPT ![p] = @ + a]
          /\ cash' = [cash EXCEPT ![p] = @ - a] /\ realized' = realized
      BY <1>4, <2>3 DEF Buy
    <2> HIDE DEF a
    <2>6. CASE o = p
      BY <1>1, <1>2, <1>3, <2>1, <2>2, <2>4, <2>5, <2>6 DEF AsBought, BooksTypeOK
    <2>7. CASE o # p
      BY <1>1, <1>2, <2>1, <2>5, <2>7 DEF AsBought, BooksTypeOK
    <2> QED BY <2>6, <2>7
  <1>5. ASSUME NEW p \in PosId, NEW q \in Qtys, NEW pr \in Prices, Sell(p, q, pr)
        PROVE  AsBought(o)'
    <2>1. OnlyBought(o) /\ o # p
      BY <1>1, <1>5, OnlyBoughtBefore, NotOnlyBought DEF Sell, Sold, AddTrade
    <2> QED BY <1>1, <1>2, <1>5, <2>1 DEF AsBought, Sell, Sold, BooksTypeOK
  <1>6. ASSUME NEW p \in PosId, NEW ratio \in Ratios, Split(p, ratio)
        PROVE  AsBought(o)'
    <2>1. OnlyBought(o) /\ o # p
      BY <1>1, <1>6, OnlyBoughtBefore, NotOnlyBought DEF Split, AddTrade
    <2> QED BY <1>1, <1>2, <1>6, <2>1 DEF AsBought, Split, BooksTypeOK
  <1>7. ASSUME NEW p \in PosId, NEW q, NEW avg, NEW lock, Edit(p, q, avg, lock)
        PROVE  AsBought(o)'
    <2>1. manual' = [manual EXCEPT ![p] = @ \cup {"edit"}] /\ trades' = trades
      BY <1>7 DEF Edit
    <2>2. o # p /\ manual'[o] = manual[o]
      BY <1>1, <2>1 DEF BooksTypeOK, OnlyBought
    <2>3. OnlyBought(o)
      BY <1>1, <2>1, <2>2, OnlyBoughtBefore
    <2> QED BY <1>1, <1>2, <1>7, <2>2, <2>3 DEF AsBought, Edit, BooksTypeOK
  <1>8. ASSUME NEW i \in DOMAIN trades, NEW pr \in Prices, Correct(i, pr)
        PROVE  AsBought(o)'
    <2> DEFINE p    == trades[i].pos
               more == trades[i].qty * (pr - trades[i].price)
    <2>1. trades[i] \in TradeRow
      BY <1>1 DEF BooksTypeOK
    <2>2. p \in PosId /\ more \in Int
      BY <2>1, BooksAssumption DEF BooksAssumption, TradeRow
    <2>3. /\ trades' = [trades EXCEPT ![i].price = pr]
          /\ boughtFor' = [boughtFor EXCEPT ![p] = @ + more * 100]
          /\ basis' = [basis EXCEPT ![p] = (boughtFor'[p] * qty[p]) \div bought[p]]
          /\ cash' = [cash EXCEPT ![p] = @ - more * (100 + FeePct)]
          /\ manual' = [manual EXCEPT ![p] = @ \cup {"correct"}]
          /\ UNCHANGED <<qty, realized, bought>> /\ IsOpen(p)
      BY <1>8 DEF Correct, Corrected
    <2>4. more * (100 + FeePct) = more * 100
      BY <2>2
    <2> HIDE DEF p, more
    <2>5. manual[o] \subseteq manual'[o]
      BY <1>1, <2>2, <2>3 DEF BooksTypeOK
    <2>6. OnlyBought(o) /\ AsBought(o)
      BY <1>1, <1>2, <2>3, <2>5, OnlyBoughtBefore
    <2>7. CASE o = p
      <3>1. qty[p] \in Nat \ {0} /\ bought[p] = qty[p]
        BY <1>3, <2>2, <2>3, <2>6, <2>7 DEF AsBought, IInv, OneOpen
      <3>2. boughtFor'[p] = boughtFor[p] + more * 100 /\ boughtFor'[p] \in Int
        BY <1>1, <1>3, <2>2, <2>3, <2>7 DEF BooksTypeOK
      <3>3. (boughtFor'[p] * qty[p]) \div bought[p] = boughtFor'[p]
        BY <3>1, <3>2, WholeCost
      <3>4. basis'[p] = boughtFor'[p] /\ cash'[p] = cash[p] - more * 100
        BY <1>1, <2>2, <2>3, <2>4, <3>3 DEF BooksTypeOK
      <3> QED BY <1>3, <2>2, <2>3, <2>6, <2>7, <3>1, <3>2, <3>4 DEF AsBought
    <2>8. CASE o # p
      BY <1>1, <2>3, <2>6, <2>8 DEF AsBought, BooksTypeOK
    <2> QED BY <2>7, <2>8
  <1>9. CASE UNCHANGED bookVars
    BY <1>2, <1>9 DEF bookVars, OnlyBought, AsBought
  <1> QED BY <1>4, <1>5, <1>6, <1>7, <1>8, <1>9 DEF BooksNext

\* The sentence that a split refutes holds up to it: without fees, corrections
\* keep the books of a position that was only bought into, for any number of
\* positions, trades and corrections.
THEOREM CorrectionsBalanceAlways == BooksSpec => []CorrectionsBalance
  <1>1. BooksInit => Plain
    <2> SUFFICES ASSUME BooksInit, NEW p \in PosId PROVE AsBought(p)
      BY DEF Plain
    <2>1. qty[p] = 0 /\ bought[p] = 0 /\ realized[p] = 0 /\ cash[p] = 0 /\ boughtFor[p] = 0
          /\ basis[p] = 0
      BY DEF BooksInit
    <2> QED BY <2>1 DEF AsBought
  <1>2. IInv /\ Plain => CorrectionsBalance
    <2> SUFFICES ASSUME IInv, Plain, FeePct = 0, NEW p \in PosId, OnlyBought(p)
                 PROVE  Balanced(p)
      BY DEF CorrectionsBalance
    <2>1. AsBought(p)
      BY DEF Plain
    <2>2. boughtFor[p] \in Int
      BY Typed DEF IInv
    <2> QED BY <2>1, <2>2 DEF AsBought, Balanced
  <1> QED BY <1>1, <1>2, InitIInv, StepKeeps, PlainStep, PTL DEF BooksSpec
=============================================================================
