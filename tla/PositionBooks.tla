--------------------------- MODULE PositionBooks ---------------------------
(***************************************************************************)
(* The books of one user's positions in one ticker (portfolio/service.py):  *)
(* buy, sell, correct_trade, apply_stock_split and edit_position, each one  *)
(* transaction.  TradeFlow has the interleavings of buys and sells.         *)
(*                                                                          *)
(* A position is open, or closed for ever when all its shares are sold; a   *)
(* later buy opens another.  Money is counted in hundredths of the unit of  *)
(* prices, so that fees in percent are exact.  A position keeps its cost    *)
(* basis, qty * avg_cost, in place of avg_cost.  DividendRecord and         *)
(* PositionEdit rows are logs that none of these operations reads, and are  *)
(* left out, as are sector, note and the reason and date of a lock.         *)
(***************************************************************************)
EXTENDS Integers, Sequences

CONSTANTS
    PosId,       \* positions, those not yet opened included
    Prices, Qtys, Locks, Ratios,  \* what the operations are called with
    FeePct, TaxPct,               \* settings.trade_fee_pct and sell_tax_pct
    Ops,         \* the operations that are called
    MaxTrades    \* a bound on the trades

AllOps == {"buy", "sell", "correct", "split", "edit"}

ASSUME BooksAssumption ==
    /\ Prices \subseteq Nat \ {0}
    /\ Qtys \subseteq Nat \ {0}
    /\ Locks \subseteq Nat
    /\ Ratios \subseteq Nat \ {0}
    /\ FeePct \in Nat
    /\ TaxPct \in Nat
    /\ Ops \subseteq AllOps
    /\ MaxTrades \in Nat

VARIABLES
    status,    \* "none" (no row), "open" (closed_at is None) or "closed"
    qty, basis, realized, locked,   \* qty, qty * avg_cost, realized_pnl, locked_qty
    trades,    \* the Trade rows, in the order of their ids
    bought, boughtFor,  \* the sums of qty and qty * price over the BUY rows
    entry,     \* actual_entry_price of the thesis that buys link to, 0 for None
    \* What happened, for the properties:
    cash,      \* the money that the trades of a position brought less what they cost
    manual     \* the operations other than trades and splits done on a position

bookVars == <<status, qty, basis, realized, locked, trades, bought, boughtFor, entry,
          cash, manual>>

TradeRow == [pos : PosId, kind : {"BUY", "SELL", "ADJUST"}, qty : Nat, price : Nat,
             linked : BOOLEAN, realized : Int]

BooksTypeOK ==
    /\ status \in [PosId -> {"none", "open", "closed"}]
    /\ qty \in [PosId -> Nat]
    /\ basis \in [PosId -> Int]
    /\ realized \in [PosId -> Int]
    /\ locked \in [PosId -> Nat]
    /\ trades \in Seq(TradeRow)
    /\ bought \in [PosId -> Nat]
    /\ boughtFor \in [PosId -> Int]
    /\ entry \in Nat
    /\ cash \in [PosId -> Int]
    /\ manual \in [PosId -> SUBSET {"correct", "edit"}]

BooksInit ==
    /\ status = [p \in PosId |-> "none"]
    /\ qty = [p \in PosId |-> 0]
    /\ basis = [p \in PosId |-> 0]
    /\ realized = [p \in PosId |-> 0]
    /\ locked = [p \in PosId |-> 0]
    /\ trades = <<>>
    /\ bought = [p \in PosId |-> 0]
    /\ boughtFor = [p \in PosId |-> 0]
    /\ entry = 0
    /\ cash = [p \in PosId |-> 0]
    /\ manual = [p \in PosId |-> {}]

IsOpen(p) == status[p] = "open"

AddTrade(p, kind, q, pr, linked, gain) ==
    /\ Len(trades) < MaxTrades
    /\ trades' = Append(trades, [pos |-> p, kind |-> kind, qty |-> q, price |-> pr,
                                 linked |-> linked, realized |-> gain])

-----------------------------------------------------------------------------
\* Mutant: the fee is left out of the cost.
ListPrice(pr) == pr * 100

\* The buy fee is part of the cost.
EffectivePrice(pr) == pr * (100 + FeePct)

\* get_open_position(): the open position, or a new one.
BuyInto(p) == IsOpen(p) \/ (status[p] = "none" /\ \A o \in PosId : ~IsOpen(o))

Buy(p, q, pr, linked) ==
    /\ "buy" \in Ops
    /\ BuyInto(p)
    /\ AddTrade(p, "BUY", q, pr, linked, 0)
    /\ status' = [status EXCEPT ![p] = "open"]
    /\ qty' = [qty EXCEPT ![p] = @ + q]
    /\ basis' = [basis EXCEPT ![p] = @ + q * EffectivePrice(pr)]
    /\ entry' = IF linked /\ entry = 0 THEN pr ELSE entry
    /\ bought' = [bought EXCEPT ![p] = @ + q]
    /\ boughtFor' = [boughtFor EXCEPT ![p] = @ + q * pr * 100]
    /\ cash' = [cash EXCEPT ![p] = @ - q * pr * (100 + FeePct)]
    /\ UNCHANGED <<realized, locked, manual>>

\* What the sold shares cost, and what their sale brings after fee and tax.
CostOf(p, q)    == (basis[p] * q) \div qty[p]
Proceeds(q, pr) == q * pr * (100 - FeePct - TaxPct)

Sold(p, q, pr, gain) ==
    /\ "sell" \in Ops
    /\ IsOpen(p)
    /\ AddTrade(p, "SELL", q, pr, FALSE, gain)
    /\ status' = [status EXCEPT ![p] = IF qty[p] = q THEN "closed" ELSE "open"]
    /\ qty' = [qty EXCEPT ![p] = @ - q]
    /\ basis' = [basis EXCEPT ![p] = @ - CostOf(p, q)]
    /\ realized' = [realized EXCEPT ![p] = @ + gain]
    /\ cash' = [cash EXCEPT ![p] = @ + Proceeds(q, pr)]
    /\ UNCHANGED <<locked, bought, boughtFor, entry, manual>>

\* Mutant: any quantity is sold.
SellAny(p, q, pr) == Sold(p, q, pr, Proceeds(q, pr) - CostOf(p, q))

\* Nothing asks whether the shares are locked.
Sell(p, q, pr) ==
    /\ q <= qty[p]
    /\ Sold(p, q, pr, Proceeds(q, pr) - CostOf(p, q))

\* Mutant: the ADJUST row holds the shares after the split.
SplitRecordsAll(p, ratio) ==
    /\ "split" \in Ops /\ IsOpen(p)
    /\ qty' = [qty EXCEPT ![p] = @ + @ * ratio]
    /\ AddTrade(p, "ADJUST", qty[p] + qty[p] * ratio, 0, FALSE, 0)
    /\ UNCHANGED <<status, basis, realized, locked, bought, boughtFor, entry, cash,
                   manual>>

\* avg_cost falls as qty rises: the basis stays.
Split(p, ratio) ==
    /\ "split" \in Ops
    /\ IsOpen(p)
    /\ qty' = [qty EXCEPT ![p] = @ + @ * ratio]
    /\ AddTrade(p, "ADJUST", qty[p] * ratio, 0, FALSE, 0)
    /\ UNCHANGED <<status, basis, realized, locked, bought, boughtFor, entry, cash,
                   manual>>

Corrected(i, pr) ==
    LET p    == trades[i].pos
        more == trades[i].qty * (pr - trades[i].price)
    IN
    /\ trades[i].kind = "BUY"
    /\ trades' = [trades EXCEPT ![i].price = pr]
    /\ boughtFor' = [boughtFor EXCEPT ![p] = @ + more * 100]
    /\ basis' = [basis EXCEPT ![p] = (boughtFor'[p] * qty[p]) \div bought[p]]
    /\ cash' = [cash EXCEPT ![p] = @ - more * (100 + FeePct)]
    /\ manual' = [manual EXCEPT ![p] = @ \cup {"correct"}]
    /\ UNCHANGED <<status, qty, realized, locked, bought, entry>>

\* Mutant: trades of closed positions are corrected too.
CorrectAny(i, pr) == "correct" \in Ops /\ Corrected(i, pr)

\* The average becomes the mean price of all BUY rows: without the fee, and
\* whatever was sold or split since.
Correct(i, pr) ==
    /\ "correct" \in Ops
    /\ IsOpen(trades[i].pos)
    /\ Corrected(i, pr)

\* edit_position(): a value is new, or kept (None).
Same == -1
New(x, old) == IF x = Same THEN old ELSE x

Edit(p, q, avg, lock) ==
    /\ "edit" \in Ops
    /\ IsOpen(p)
    /\ <<q, avg, lock>> # <<Same, Same, Same>>
    /\ lock <= New(q, qty[p])
    /\ qty' = [qty EXCEPT ![p] = New(q, @)]
    /\ basis' = [basis EXCEPT ![p] =
                    IF avg = Same THEN (@ * New(q, qty[p])) \div qty[p]
                    ELSE 100 * avg * New(q, qty[p])]
    /\ locked' = [locked EXCEPT ![p] = New(lock, @)]
    /\ manual' = [manual EXCEPT ![p] = @ \cup {"edit"}]
    /\ UNCHANGED <<status, realized, trades, bought, boughtFor, entry, cash>>

BooksNext ==
    \/ \E p \in PosId :
          \/ \E q \in Qtys, pr \in Prices :
                \/ \E linked \in BOOLEAN : Buy(p, q, pr, linked)
                \/ Sell(p, q, pr)
          \/ \E ratio \in Ratios : Split(p, ratio)
          \/ \E q \in Qtys \cup {Same}, avg \in Prices \cup {Same},
                lock \in Locks \cup {Same} : Edit(p, q, avg, lock)
    \/ \E i \in DOMAIN trades, pr \in Prices : Correct(i, pr)

BooksSpec == BooksInit /\ [][BooksNext]_bookVars

-----------------------------------------------------------------------------
(* What the trade rows say of a position.                                   *)

\* The sum of a sequence of numbers.
Total(w) == LET sum[i \in 0 .. Len(w)] == IF i = 0 THEN 0 ELSE sum[i - 1] + w[i]
            IN  sum[Len(w)]

\* The part of one row in the sums of position p.
SharesIn(t, p, kind) == IF t.pos = p /\ t.kind = kind THEN t.qty ELSE 0
GainIn(t, p)         == IF t.pos = p THEN t.realized ELSE 0
PaidIn(t, p)         == IF t.pos = p /\ t.kind = "BUY" THEN t.qty * t.price * 100 ELSE 0

Shares(p, kind) == Total([i \in 1 .. Len(trades) |-> SharesIn(trades[i], p, kind)])
Gains(p)        == Total([i \in 1 .. Len(trades) |-> GainIn(trades[i], p)])
Paid(p)         == Total([i \in 1 .. Len(trades) |-> PaidIn(trades[i], p)])

-----------------------------------------------------------------------------
\* A user holds at most one open position in a ticker, get_open_position()
\* relies on it, and a position is open exactly as long as it has shares.
OneOpen ==
    /\ \A p, o \in PosId : IsOpen(p) /\ IsOpen(o) => p = o
    /\ \A p \in PosId : IsOpen(p) <=> qty[p] > 0

\* What a position realized and what its shares cost is what its trades
\* brought in cash, fees and taxes included, as long as nobody corrected or
\* edited it: sold out, its realized P&L is the money that the user made.
Balanced(p)  == realized[p] = cash[p] + basis[p]
BooksBalance == \A p \in PosId : manual[p] = {} => Balanced(p)

\* A sold-out position has no cost left, whatever was done to it.
ClosedCostsNothing == \A p \in PosId : status[p] = "closed" => basis[p] = 0

\* The trade rows account for the position: its shares, unless they were
\* edited, its realized P&L and the sums its corrected average is made of,
\* always.  Reports and replays read the rows.
Accounted(p) ==
    /\ "edit" \notin manual[p]
           => qty[p] = Shares(p, "BUY") + Shares(p, "ADJUST") - Shares(p, "SELL")
    /\ realized[p] = Gains(p)
    /\ bought[p] = Shares(p, "BUY") /\ boughtFor[p] = Paid(p)
RowsAccount == \A p \in PosId : Accounted(p)

\* Nothing changes a closed position or its rows: its P&L is settled.
ClosedIsSettled ==
    [][/\ \A p \in PosId : status[p] = "closed" =>
              /\ status'[p] = "closed"
              /\ realized'[p] = realized[p] /\ cash'[p] = cash[p]
       /\ \A i \in DOMAIN trades : status[trades[i].pos] = "closed"
                                       => trades'[i] = trades[i]]_bookVars
=============================================================================
