---------------------------- MODULE OrderOwnerProofs ----------------------------
(***************************************************************************)
(* Every contract held has an owner, before the last day of the            *)
(* competition: one structure of a candidate is held at a time, so only    *)
(* the last chain of its entries ever fills, and the first entry that      *)
(* filled bounds what may be held; its fills are listed in every cycle and *)
(* keep its row in force until nothing is held.  The windows of the last   *)
(* day, in which several are held at once, are not covered.                *)
(***************************************************************************)
EXTENDS OrderChainProofs

(***************************************************************************)
(* What a candidate may hold, and what an order or a fill adds to it.      *)
(***************************************************************************)
Left(o)   == request[o].quantity - broker[o].filled
Filled(c) == {o \in Placed : IsEntry(o) /\ Of(o) = c /\ broker[o].filled > 0}
Closes(c) == {o \in Placed : ~IsEntry(o) /\ Of(o) = c}
First(c, a) == a \in Filled(c) /\ \A o \in Filled(c) : a <= o

\* The entries of a candidate that may still buy: working, or about to be replaced.
Buying(o) == Working(o) \/ (run.pc = "replace" /\ o = run.current)
Buyers(c) == {o \in Placed : IsEntry(o) /\ Of(o) = c /\ Buying(o)}

\* What a candidate holds, may still buy, and sold in any one close fits in the
\* request of its first filled entry; so do that entry's fills and what another buys.
ToBuy(c) == {0} \cup {Left(o) : o \in Buyers(c)}
Sold(c)  == {0} \cup {broker[k].filled : k \in Closes(c)}
Fits(c, a) ==
  /\ \A n \in ToBuy(c), m \in Sold(c), l \in Legs : position[c][l] + n + m <= request[a].quantity
  /\ \A w \in Buyers(c) : w # a => broker[a].filled + Left(w) <= request[a].quantity

\* A close of that entry comes when it buys no more, and takes what is held once it
\* has filled.
SellsOut(c, k, a) ==
  /\ a \notin Buyers(c)
  /\ Left(a) = 0 => \A l \in Legs : position[c][l] <= Left(k)

Market(c) ==
  /\ \A v, w \in Buyers(c) : v = w
  /\ \A w \in Buyers(c), o \in Filled(c) : o <= w
  /\ Closes(c) # {} => Filled(c) # {}
  /\ \A a \in Placed : First(c, a) => Fits(c, a)
  /\ \A k \in Closes(c) : First(c, request[k].parent) => SellsOut(c, k, request[k].parent)
  /\ \A l, m \in Legs : position[c][l] = position[c][m]

\* What is held, filled and left are numbers, of orders and candidates that exist.
LEMMA MarketTypes ==
  ASSUME TypeInv
  PROVE  /\ \A o \in Placed : /\ o \in Orders /\ o \in Nat /\ Left(o) \in Nat /\ Of(o) \in Candidates
                              /\ broker[o].filled \in Nat /\ request[o].quantity \in Nat \ {0}
         /\ \A c \in Candidates, l \in Legs : position[c][l] \in Nat
<1>1. ASSUME NEW o \in Placed
      PROVE  /\ o \in Orders /\ o \in Nat /\ Left(o) \in Nat /\ Of(o) \in Candidates
             /\ broker[o].filled \in Nat /\ request[o].quantity \in Nat \ {0}
  <2>1. /\ o \in Orders /\ request[o].quantity \in 1..MaxQty /\ broker[o] \in BrokerRecord
        /\ Of(o) \in Candidates /\ broker[o].filled <= request[o].quantity
    BY RequestFields DEF TypeInv, Bounded
  <2>2. QED
    BY <2>1, ConstantsAssumption DEF BrokerRecord, Left, Orders
<1>2. \A c \in Candidates, l \in Legs : position[c][l] \in Nat
  BY DEF TypeInv, TypeOK
<1>3. QED
  BY <1>1, <1>2

\* Where a step fills nothing and moves nothing of a candidate, and nobody starts to
\* buy, all stays as it is.
LEMMA MarketKept ==
  ASSUME NEW c \in Candidates, Market(c), Placed \subseteq Placed',
         \A o \in Placed : /\ request'[o] = request[o]
                           /\ Of(o) = c => broker'[o].filled = broker[o].filled,
         \A o \in Placed' \ Placed : Of(o)' # c,
         position'[c] = position[c], Buyers(c)' \subseteq Buyers(c)
  PROVE  Market(c)'
<1>1. \A o \in Placed : /\ (IsEntry(o)' <=> IsEntry(o)) /\ Of(o)' = Of(o)
                        /\ Of(o) = c => Left(o)' = Left(o)
  BY DEF IsEntry, Of, Left
<1>2. Filled(c)' = Filled(c) /\ Closes(c)' = Closes(c)
  BY <1>1 DEF Filled, Closes
<1>3. Sold(c)' = Sold(c)
  BY <1>2 DEF Sold, Closes
<1>4. ToBuy(c)' \subseteq ToBuy(c)
  BY <1>1 DEF ToBuy, Buyers
<1>5. \A a \in Placed' : First(c, a)' => First(c, a) /\ a \in Placed /\ Of(a) = c
  BY <1>2 DEF First, Filled
<1>6. ASSUME NEW a \in Placed, First(c, a) PROVE Fits(c, a)'
  <2>1. Fits(c, a) /\ Of(a) = c
    BY <1>6 DEF Market, First, Filled
  <2>2. \A w \in Buyers(c) : Left(w)' = Left(w)
    BY <1>1 DEF Buyers
  <2>3. QED
    BY <1>3, <1>4, <2>1, <2>2 DEF Fits
<1>7. ASSUME NEW k \in Closes(c), First(c, request[k].parent) PROVE SellsOut(c, k, request[k].parent)'
  <2>1. /\ SellsOut(c, k, request[k].parent) /\ request[k].parent \in Placed /\ k \in Placed
        /\ Of(k) = c /\ Of(request[k].parent) = c
    BY <1>7 DEF Market, First, Filled, Closes
  <2>2. request'[k] = request[k]
    BY <2>1
  <2>3. QED
    BY <1>1, <2>1, <2>2 DEF SellsOut
<1>8. \A k \in Closes(c) : request'[k] = request[k]
  BY DEF Closes
<1>9. \A k \in Closes(c)' : First(c, request[k].parent)' => SellsOut(c, k, request[k].parent)'
  BY <1>2, <1>7, <1>8 DEF First
<1>10. QED
  BY <1>2, <1>5, <1>6, <1>9 DEF Market

\* What a new order changes.
LEMMA NewOrderLeft ==
  ASSUME TypeInv, NEW r \in Request, Accept(r), NEW n, n = placed'
  PROVE  /\ n = placed + 1 /\ n \notin Placed /\ Placed' = Placed \cup {n} /\ request'[n] = r
         /\ broker'[n].filled = 0 /\ Left(n)' = r.quantity
         /\ (IsEntry(n)' <=> ~r.closing) /\ Of(n)' = r.candidate
         /\ \A o \in Placed : o <= n
         /\ \A o \in Placed : /\ request'[o] = request[o] /\ IsEntry(o)' = IsEntry(o)
                              /\ Of(o)' = Of(o) /\ Left(o)' = Left(o) /\ Working(o)' = Working(o)
         /\ broker' = broker /\ position' = position /\ fills' = fills /\ n \in Orders
<1>1. /\ n = placed + 1 /\ n \notin Placed /\ Placed' = Placed \cup {n} /\ request'[n] = r
      /\ \A o \in Placed : request'[o] = request[o]
      /\ broker' = broker /\ position' = position /\ fills' = fills /\ n \in Orders
  BY AcceptExtends
<1>2. broker[n].filled = 0
  BY <1>1 DEF TypeInv, Bounded
<1>3. \A o \in Placed : o <= n
  BY <1>1 DEF TypeInv, TypeOK, Placed
<1>4. r.quantity \in Int /\ r.closing \in BOOLEAN
  BY ConstantsAssumption DEF Request
<1>5. QED
  BY <1>1, <1>2, <1>3, <1>4 DEF Left, IsEntry, Of, Working

\* A first entry of a candidate that never held anything.
LEMMA EntryPlaced ==
  ASSUME TypeInv, NEW r \in Request, Accept(r), ~r.closing, NEW c, c = r.candidate,
         Market(c), Filled(c) = {}, Buyers(c) = {}, run'.pc # "replace"
  PROVE  Market(c)'
<1> SUFFICES ASSUME NEW n, n = placed' PROVE Market(c)'
  OBVIOUS
<1>1. \A w \in Buyers(c)' : w = n
  BY NewOrderLeft DEF Buyers, Buying
<1>2. Filled(c)' = {}
  BY NewOrderLeft DEF Filled
<1>3. Closes(c)' = {}
  <2>1. Closes(c) = {}
    BY DEF Market
  <2>2. QED
    BY <2>1, NewOrderLeft DEF Closes
<1>4. position' = position
  BY NewOrderLeft
<1>5. \A a : ~First(c, a)'
  BY <1>2 DEF First
<1>6. QED
  BY <1>1, <1>2, <1>3, <1>4, <1>5 DEF Market

\* The successor of a canceled entry buys what that had left.
LEMMA EntryReplaced ==
  ASSUME TypeInv, NEW r \in Request, Accept(r), ~r.closing, NEW c, c = r.candidate,
         Market(c), run.pc = "replace", run'.pc = "persist", run.current \in Buyers(c),
         ~Working(run.current), r.quantity = Left(run.current)
  PROVE  Market(c)'
<1> DEFINE w == run.current
<1> SUFFICES ASSUME NEW n, n = placed' PROVE Market(c)'
  OBVIOUS
<1>1. /\ Buyers(c)' \subseteq {n} /\ Filled(c)' = Filled(c) /\ Closes(c)' = Closes(c)
  <2>1. \A o \in Placed : Buying(o)' => Buying(o) /\ o # w
    BY NewOrderLeft DEF Buying
  <2>2. \A o \in Buyers(c)' : o \in Placed => o \in Buyers(c) /\ o # w
    BY <2>1, NewOrderLeft DEF Buyers
  <2>3. \A o \in Buyers(c) : o = w
    BY DEF Market
  <2>4. \A o \in Buyers(c)' : o = n
    BY <2>2, <2>3, NewOrderLeft DEF Buyers
  <2>5. QED
    BY <2>4, NewOrderLeft DEF Filled, Closes
<1>2. Sold(c)' = Sold(c)
  BY <1>1, NewOrderLeft DEF Sold
<1>3. ToBuy(c)' \subseteq ToBuy(c)
  BY <1>1, NewOrderLeft DEF ToBuy
<1>4. ASSUME NEW a, First(c, a) PROVE Fits(c, a)' /\ a \in Placed
  <2>1. /\ a \in Placed /\ Fits(c, a)
    BY <1>4 DEF Market, First, Filled
  <2>2. /\ broker'[a] = broker[a] /\ request'[a] = request[a] /\ position' = position
    BY <2>1, NewOrderLeft
  <2>3. \A m \in Buyers(c)' : m # a => broker'[a].filled + Left(m)' <= request'[a].quantity
    <3>1. broker[a].filled + Left(w) <= request[a].quantity
      <4>1. CASE a = w
        <5>1. broker[a].filled \in Nat /\ request[a].quantity \in Nat
          BY <2>1, MarketTypes
        <5>2. QED
          BY <4>1, <5>1 DEF Left
      <4>2. CASE a # w
        BY <2>1, <4>2 DEF Fits
      <4>3. QED
        BY <4>1, <4>2
    <3>2. QED
      BY <1>1, <2>2, <3>1, NewOrderLeft
  <2>4. QED
    BY <1>2, <1>3, <2>1, <2>2, <2>3 DEF Fits
<1>5. \A a \in Placed' : First(c, a)' => First(c, a)
  BY <1>1 DEF First
<1>6. ASSUME NEW k \in Closes(c), First(c, request[k].parent) PROVE SellsOut(c, k, request[k].parent)'
  <2>1. /\ request[k].parent \in Placed /\ k \in Placed /\ SellsOut(c, k, request[k].parent)
    BY <1>6 DEF Market, First, Filled, Closes
  <2>2. request[k].parent \notin Buyers(c)'
    BY <1>1, <2>1, NewOrderLeft
  <2>3. QED
    BY <2>1, <2>2, NewOrderLeft DEF SellsOut
<1>7. \A k \in Closes(c) : request'[k] = request[k]
  BY NewOrderLeft DEF Closes
<1>8. \A k \in Closes(c)' : First(c, request[k].parent)' => SellsOut(c, k, request[k].parent)'
  BY <1>1, <1>6, <1>7 DEF First
<1>9. \A v \in Buyers(c)', o \in Filled(c)' : o <= v
  BY <1>1, NewOrderLeft DEF Filled
<1>10. QED
  BY <1>1, <1>4, <1>5, <1>8, <1>9, NewOrderLeft DEF Market

\* A close of what is held, or the successor of a canceled one.
LEMMA ClosePlaced ==
  ASSUME TypeInv, NEW r \in Request, Accept(r), r.closing, NEW c, c = r.candidate,
         Market(c), Filled(c) # {}, run'.pc # "replace",
         First(c, r.parent) =>
           /\ r.parent \notin Buyers(c)
           /\ Left(r.parent) = 0 => \A l \in Legs : position[c][l] <= r.quantity
  PROVE  Market(c)'
<1> SUFFICES ASSUME NEW n, n = placed' PROVE Market(c)'
  OBVIOUS
<1>1. /\ Buyers(c)' \subseteq Buyers(c) /\ Filled(c)' = Filled(c) /\ Closes(c)' = Closes(c) \cup {n}
      /\ n \notin Closes(c)
  BY NewOrderLeft DEF Buyers, Buying, Filled, Closes
<1>2. Sold(c)' = Sold(c)
  <2>1. \A k \in Closes(c) : broker'[k] = broker[k]
    BY NewOrderLeft
  <2>2. QED
    BY <1>1, <2>1, NewOrderLeft DEF Sold
<1>3. \A w \in Buyers(c) : Left(w)' = Left(w)
  BY NewOrderLeft DEF Buyers
<1>4. ToBuy(c)' \subseteq ToBuy(c)
  BY <1>1, <1>3 DEF ToBuy
<1>5. ASSUME NEW a, First(c, a) PROVE Fits(c, a)' /\ a \in Placed
  <2>1. /\ a \in Placed /\ Fits(c, a)
    BY <1>5 DEF Market, First, Filled
  <2>2. /\ broker'[a] = broker[a] /\ request'[a] = request[a] /\ position' = position
    BY <2>1, NewOrderLeft
  <2>3. QED
    BY <1>1, <1>2, <1>3, <1>4, <2>1, <2>2 DEF Fits
<1>6. \A a : First(c, a)' <=> First(c, a)
  BY <1>1 DEF First
<1>7. ASSUME NEW k \in Closes(c), First(c, request[k].parent) PROVE SellsOut(c, k, request[k].parent)'
  <2>1. /\ request[k].parent \in Placed /\ k \in Placed /\ SellsOut(c, k, request[k].parent)
    BY <1>7 DEF Market, First, Filled, Closes
  <2>2. QED
    BY <1>1, <2>1, NewOrderLeft DEF SellsOut
<1>8. ASSUME First(c, r.parent) PROVE SellsOut(c, n, r.parent)'
  <2>1. r.parent \in Placed
    BY <1>8 DEF First, Filled
  <2>2. QED
    BY <1>1, <1>8, <2>1, NewOrderLeft DEF SellsOut
<1>9. \A k \in Closes(c) : request'[k] = request[k]
  BY NewOrderLeft DEF Closes
<1>10. request'[n] = r
  BY NewOrderLeft
<1>11. \A k \in Closes(c)' : First(c, request[k].parent)' => SellsOut(c, k, request[k].parent)'
  BY <1>1, <1>6, <1>7, <1>8, <1>9, <1>10
<1>12. \A v, w \in Buyers(c)' : v = w
  BY <1>1 DEF Market
<1>13. \A w \in Buyers(c)', o \in Filled(c)' : o <= w
  BY <1>1 DEF Market
<1>14. \A l, m \in Legs : position'[c][l] = position'[c][m]
  BY NewOrderLeft DEF Market
<1>15. QED
  BY <1>1, <1>5, <1>6, <1>11, <1>12, <1>13, <1>14 DEF Market

\* What k traded contracts of order o change.
LEMMA FillMoves ==
  ASSUME TypeInv, NEW o \in Placed, NEW k \in 1..MaxQty, Fill(o, k)
  PROVE  /\ Working(o) /\ k <= Left(o) /\ k \in Nat \ {0} /\ Left(o) - k \in Nat
         /\ Left(o)' = Left(o) - k /\ broker'[o].filled = broker[o].filled + k
         /\ broker'[o].status = IF k = Left(o) THEN "filled"
                                ELSE IF broker[o].status = "new" THEN "partially_filled"
                                ELSE broker[o].status
         /\ \A p \in Placed \ {o} : /\ broker'[p] = broker[p] /\ Left(p)' = Left(p)
         /\ fills'[o] = fills[o] \cup {Left(o) - k}
         /\ \A p \in Orders \ {o} : fills'[p] = fills[p]
         /\ \A l \in Legs : position'[Of(o)][l] =
               IF IsEntry(o) THEN position[Of(o)][l] + k ELSE position[Of(o)][l] - k
         /\ \A c \in Candidates \ {Of(o)} : position'[c] = position[c]
         /\ UNCHANGED <<placed, request, ledger, run>>
<1> DEFINE left == request[o].quantity - broker[o].filled
           now == IF k = left THEN "filled"
                  ELSE IF broker[o].status = "new" THEN "partially_filled" ELSE broker[o].status
<1>1. /\ broker \in [Orders -> BrokerRecord] /\ fills \in [Orders -> SUBSET (0..MaxQty)]
      /\ position \in [Candidates -> [Legs -> Nat]] /\ o \in Orders /\ Of(o) \in Candidates
      /\ \A p \in Placed : p \in Orders
  BY RequestFields DEF TypeInv, TypeOK
<1>2. /\ broker' = [broker EXCEPT ![o] = [filled |-> broker[o].filled + k, status |-> now]]
      /\ fills' = [fills EXCEPT ![o] = @ \cup {left - k}]
      /\ position' = [position EXCEPT ![Of(o)] =
            [l \in Legs |-> IF IsEntry(o) THEN @[l] + k ELSE @[l] - k]]
      /\ UNCHANGED <<placed, request, ledger, run>> /\ k <= left /\ Working(o)
  BY <1>1 DEF Fill, Working
<1>3. broker'[o] = [filled |-> broker[o].filled + k, status |-> now]
  BY <1>1, <1>2
<1>4. \A p \in Placed \ {o} : broker'[p] = broker[p]
  BY <1>1, <1>2
<1>5. k \in Nat \ {0} /\ left \in Nat /\ broker[o].filled \in Nat /\ request[o].quantity \in Nat
  BY MarketTypes, ConstantsAssumption DEF Left
<1>6. request' = request
  BY <1>2
<1>7. /\ \A l \in Legs : position'[Of(o)][l] =
            IF IsEntry(o) THEN position[Of(o)][l] + k ELSE position[Of(o)][l] - k
      /\ \A c \in Candidates \ {Of(o)} : position'[c] = position[c]
      /\ fills'[o] = fills[o] \cup {left - k} /\ \A p \in Orders \ {o} : fills'[p] = fills[p]
  BY <1>1, <1>2
<1>8. Left(o)' = left - k
  BY <1>3, <1>5, <1>6 DEF Left
<1> QED
  BY <1>2, <1>3, <1>4, <1>5, <1>6, <1>7, <1>8 DEF Left

\* An entry that fills is the only one that buys, and what it buys was allowed for.
LEMMA EntryFills ==
  ASSUME TypeInv, NEW o \in Placed, NEW k \in 1..MaxQty, Fill(o, k), IsEntry(o),
         NEW c, c = Of(o), Market(c),
         Filled(c) = {} => \A l \in Legs : position[c][l] = 0
  PROVE  Market(c)'
<1> USE FillMoves
<1>1. /\ Placed' = Placed /\ \A p \in Placed : IsEntry(p)' = IsEntry(p) /\ Of(p)' = Of(p)
      /\ request' = request
  BY DEF Placed, IsEntry, Of
<1>2. o \in Buyers(c) /\ \A w \in Buyers(c) : w = o
  BY DEF Buyers, Buying, Market
<1>3. Buyers(c)' \subseteq Buyers(c)
  <2>1. \A p \in Placed : Buying(p)' => Buying(p) \/ p = o
    BY DEF Buying, Working
  <2>2. QED
    BY <1>1, <1>2, <2>1 DEF Buyers
<1>4. Filled(c)' = Filled(c) \cup {o} /\ Closes(c)' = Closes(c)
  <2>1. \A p \in Placed \ {o} : broker'[p].filled > 0 <=> broker[p].filled > 0
    OBVIOUS
  <2>2. broker'[o].filled > 0
    BY MarketTypes
  <2>3. QED
    BY <1>1, <2>1, <2>2 DEF Filled, Closes
<1>5. Sold(c)' = Sold(c)
  BY <1>1, <1>4 DEF Sold, Closes
<1>6. \A n \in ToBuy(c)' : n = 0 \/ n = Left(o) - k
  BY <1>2, <1>3 DEF ToBuy
<1>7. \A l \in Legs : position'[c][l] = position[c][l] + k /\ position[c][l] \in Nat
  BY MarketTypes
<1>8. \A p \in Placed : p \in Int /\ broker[p].filled \in Nat /\ Left(p) \in Nat /\ request[p].quantity \in Nat
  BY MarketTypes
<1>9. CASE Filled(c) = {}
  <2>1. Closes(c) = {} /\ Filled(c)' = {o}
    BY <1>4, <1>9 DEF Market
  <2>2. Sold(c)' = {0}
    BY <1>4, <2>1 DEF Sold
  <2>3. broker[o].filled = 0
    BY <1>8, <1>9 DEF Filled
  <2>4. Fits(c, o)'
    <3>1. ASSUME NEW n \in ToBuy(c)', NEW l \in Legs
          PROVE  position'[c][l] + n + 0 <= request'[o].quantity
      <4>1. position'[c][l] = k /\ Left(o) = request[o].quantity
        BY <1>7, <1>8, <1>9, <2>3 DEF Left
      <4>2. QED
        BY <1>1, <1>6, <1>8, <3>1, <4>1
    <3>2. QED
      BY <1>2, <1>3, <2>2, <3>1 DEF Fits
  <2>5. \A a \in Placed' : First(c, a)' => Fits(c, a)'
    BY <2>1, <2>4 DEF First
  <2>6. \A w \in Buyers(c)', p \in Filled(c)' : p <= w
    BY <1>2, <1>3, <1>8, <2>1
  <2>7. QED
    BY <1>2, <1>3, <1>4, <1>7, <2>1, <2>5, <2>6 DEF Market
<1>10. CASE Filled(c) # {}
  <2>1. \A p \in Filled(c) : p <= o /\ p \in Int
    BY <1>2, <1>8 DEF Market, Filled
  <2>2. ASSUME NEW a \in Placed, First(c, a)' PROVE First(c, a)
    <3>1. a \in Filled(c) \cup {o} /\ \A p \in Filled(c) : a <= p
      BY <1>4, <2>2 DEF First
    <3>2. a \in Filled(c)
      <4>1. PICK p \in Filled(c) : TRUE
        BY <1>10
      <4>2. CASE a = o
        <5>1. p = o
          BY <1>8, <2>1, <3>1, <4>1, <4>2
        <5>2. QED
          BY <4>1, <4>2, <5>1
      <4>3. QED
        BY <3>1, <4>2
    <3>3. QED
      BY <3>1, <3>2 DEF First
  <2>3. ASSUME NEW a \in Placed, First(c, a) PROVE Fits(c, a)'
    <3>1. Fits(c, a)
      BY <2>3 DEF Market
    <3>2. ASSUME NEW n \in ToBuy(c)', NEW m \in Sold(c)', NEW l \in Legs
          PROVE  position'[c][l] + n + m <= request'[a].quantity
      <4>1. /\ position[c][l] + 0 + m <= request[a].quantity
            /\ position[c][l] + Left(o) + m <= request[a].quantity
        BY <1>2, <1>5, <3>1, <3>2, ZenonT(40) DEF Fits, ToBuy
      <4>2. m \in Nat
        BY <1>5, <1>8, <3>2 DEF Sold, Closes
      <4>3. QED
        BY <1>1, <1>6, <1>7, <1>8, <3>2, <4>1, <4>2
    <3>3. \A w \in Buyers(c)' : w # a => broker'[a].filled + Left(w)' <= request'[a].quantity
      <4>1. o # a => broker[a].filled + Left(o) <= request[a].quantity
        BY <1>2, <3>1 DEF Fits
      <4>2. o # a => broker[a].filled + (Left(o) - k) <= request[a].quantity
        BY <1>8, <4>1
      <4>3. QED
        BY <1>1, <1>2, <1>3, <4>2
    <3>4. QED
      BY <3>2, <3>3 DEF Fits
  <2>4. ASSUME NEW j \in Closes(c), First(c, request[j].parent)
        PROVE  SellsOut(c, j, request[j].parent)'
    <3> DEFINE p == request[j].parent
    <3>1. /\ p \in Placed /\ p \notin Buyers(c) /\ Fits(c, p)
      BY <2>4 DEF Market, First, Filled, SellsOut
    <3>2. p # o /\ broker[p].filled + Left(o) <= request[p].quantity
      BY <1>2, <3>1 DEF Fits
    <3>3. Left(p) # 0
      BY <1>8, <3>1, <3>2 DEF Left
    <3>4. p \notin Buyers(c)' /\ Left(p)' # 0
      BY <1>3, <3>1, <3>2, <3>3
    <3>5. QED
      BY <1>1, <3>4 DEF SellsOut
  <2>5. \A w \in Buyers(c)', p \in Filled(c)' : p <= w
    BY <1>2, <1>3, <1>4, <1>8, <2>1
  <2>6. \A j \in Closes(c)' : First(c, request[j].parent)' => SellsOut(c, j, request[j].parent)'
    <3>1. \A j \in Closes(c)' : First(c, request[j].parent)' => First(c, request[j].parent)
      BY <1>1, <1>4, <2>2 DEF First, Filled
    <3>2. QED
      BY <1>1, <1>4, <2>4, <3>1
  <2>7. \A l, m \in Legs : position'[c][l] = position'[c][m]
    BY <1>7 DEF Market
  <2>8. \A v, w \in Buyers(c)' : v = w
    BY <1>2, <1>3
  <2>9. Filled(c)' # {}
    BY <1>4
  <2>10. QED
    BY <1>1, <2>2, <2>3, <2>5, <2>6, <2>7, <2>8, <2>9 DEF Market
<1>11. QED
  BY <1>9, <1>10

\* A close that fills takes as much from what is held as it had left less.
LEMMA CloseFills ==
  ASSUME TypeInv, NEW o \in Placed, NEW k \in 1..MaxQty, Fill(o, k), ~IsEntry(o),
         NEW c, c = Of(o), Market(c)
  PROVE  Market(c)'
<1> USE FillMoves
<1>1. /\ Placed' = Placed /\ \A p \in Placed : IsEntry(p)' = IsEntry(p) /\ Of(p)' = Of(p)
      /\ request' = request
  BY DEF Placed, IsEntry, Of
<1>2. \A p \in Placed : IsEntry(p) => broker'[p] = broker[p] /\ Left(p)' = Left(p)
  OBVIOUS
<1>3. Buyers(c)' = Buyers(c) /\ Filled(c)' = Filled(c) /\ Closes(c)' = Closes(c)
  BY <1>1, <1>2 DEF Buyers, Buying, Working, Filled, Closes
<1>4. ToBuy(c)' = ToBuy(c)
  BY <1>2, <1>3 DEF ToBuy, Buyers
<1>5. \A m \in Sold(c)' : m \in Sold(c) \/ m = broker[o].filled + k
  BY <1>3 DEF Sold, Closes
<1>6. o \in Closes(c) /\ broker[o].filled \in Sold(c)
  BY DEF Sold, Closes
<1>7. \A l \in Legs : position'[c][l] = position[c][l] - k /\ position[c][l] \in Nat
  BY MarketTypes
<1>8. \A p \in Placed : broker[p].filled \in Nat /\ Left(p) \in Nat /\ request[p].quantity \in Nat
  BY MarketTypes
<1>9. \A n \in ToBuy(c) : n \in Nat
  BY <1>8 DEF ToBuy, Buyers
<1>10. \A m \in Sold(c) : m \in Nat
  BY <1>8 DEF Sold, Closes
<1>11. ASSUME NEW a \in Placed, First(c, a) PROVE Fits(c, a)'
  <2>1. Fits(c, a) /\ a # o
    BY <1>11 DEF Market, First, Filled
  <2>2. ASSUME NEW n \in ToBuy(c), NEW m \in Sold(c)', NEW l \in Legs
        PROVE  position'[c][l] + n + m <= request'[a].quantity
    <3>1. CASE m \in Sold(c)
      <4>1. position[c][l] + n + m <= request[a].quantity
        BY <2>1, <3>1 DEF Fits
      <4>2. QED
        BY <1>1, <1>7, <1>8, <1>9, <1>10, <3>1, <4>1
    <3>2. CASE m = broker[o].filled + k
      <4>1. position[c][l] + n + broker[o].filled <= request[a].quantity
        BY <1>6, <2>1 DEF Fits
      <4>2. QED
        BY <1>1, <1>7, <1>8, <1>9, <3>2, <4>1
    <3>3. QED
      BY <1>5, <3>1, <3>2
  <2>3. \A w \in Buyers(c) : w # a => broker'[a].filled + Left(w)' <= request'[a].quantity
    BY <1>1, <1>2, <2>1 DEF Fits, Buyers
  <2>4. QED
    BY <1>3, <1>4, <2>2, <2>3 DEF Fits
<1>12. ASSUME NEW j \in Closes(c), First(c, request[j].parent) PROVE SellsOut(c, j, request[j].parent)'
  <2> DEFINE p == request[j].parent
  <2>1. SellsOut(c, j, p) /\ p \in Placed /\ IsEntry(p) /\ j \in Placed
    BY <1>12 DEF Market, First, Filled, Closes
  <2>2. ASSUME Left(p) = 0, NEW l \in Legs PROVE position'[c][l] <= Left(j)'
    <3>1. position[c][l] <= Left(j)
      BY <2>1, <2>2 DEF SellsOut
    <3>2. Left(j)' = Left(j) \/ Left(j)' = Left(j) - k
      BY <2>1
    <3>3. QED
      BY <1>7, <1>8, <2>1, <3>1, <3>2
  <2>3. Left(p)' = Left(p) /\ request'[j].parent = p
    BY <1>1, <1>2, <2>1
  <2>4. QED
    BY <1>3, <2>1, <2>2, <2>3 DEF SellsOut
<1>13. \A a : First(c, a)' <=> First(c, a)
  BY <1>3 DEF First
<1>14. \A j \in Closes(c)' : First(c, request[j].parent)' => SellsOut(c, j, request[j].parent)'
  BY <1>1, <1>3, <1>12, <1>13
<1>15. \A l, m \in Legs : position'[c][l] = position'[c][m]
  BY <1>7 DEF Market
<1>16. \A a \in Placed' : First(c, a)' => Fits(c, a)'
  BY <1>1, <1>11, <1>13
<1>17. QED
  BY <1>3, <1>14, <1>15, <1>16 DEF Market

\* A single leg reduced leaves less to account for.
LEMMA ReductionFits ==
  ASSUME TypeInv, NEW c \in Candidates, NEW x \in Legs, Reduce(c, x), \A l, m \in Legs : l = m,
         Market(c)
  PROVE  Market(c)'
<1>1. /\ UNCHANGED <<placed, request, broker, run>>
      /\ \A l \in Legs : position'[c][l] = position[c][l] - 1 /\ position[c][l] \in Nat
  BY DEF Reduce, TypeInv, TypeOK
<1>2. /\ Buyers(c)' = Buyers(c) /\ Filled(c)' = Filled(c) /\ Closes(c)' = Closes(c)
      /\ \A o \in Placed : Left(o)' = Left(o)
  BY <1>1 DEF Buyers, Buying, Working, Filled, Closes, Placed, IsEntry, Of, Left
<1>3. ToBuy(c)' = ToBuy(c) /\ Sold(c)' = Sold(c)
  BY <1>1, <1>2 DEF ToBuy, Sold, Buyers
<1>4. \A o \in Placed : broker[o].filled \in Nat /\ Left(o) \in Nat /\ request[o].quantity \in Nat
  BY MarketTypes
<1>5. (\A n \in ToBuy(c) : n \in Nat) /\ (\A m \in Sold(c) : m \in Nat)
  BY <1>4 DEF ToBuy, Buyers, Sold, Closes
<1>6. ASSUME NEW a \in Placed, Fits(c, a) PROVE Fits(c, a)'
  <2>1. ASSUME NEW n \in ToBuy(c), NEW m \in Sold(c), NEW l \in Legs
        PROVE  position'[c][l] + n + m <= request[a].quantity
    <3>1. position[c][l] + n + m <= request[a].quantity
      BY <1>6 DEF Fits
    <3>2. QED
      BY <1>1, <1>4, <1>5, <3>1
  <2>2. \A w \in Buyers(c) : Left(w)' = Left(w)
    BY <1>2 DEF Buyers
  <2>3. QED
    BY <1>1, <1>2, <1>3, <1>6, <2>1, <2>2 DEF Fits
<1>7. ASSUME NEW j \in Closes(c), NEW p \in Placed, SellsOut(c, j, p) PROVE SellsOut(c, j, p)'
  <2>1. j \in Placed
    BY DEF Closes
  <2>2. Left(p) = 0 => \A l \in Legs : position'[c][l] <= Left(j)
    <3>1. Left(p) = 0 => \A l \in Legs : position[c][l] <= Left(j)
      BY <1>7 DEF SellsOut
    <3>2. QED
      BY <1>1, <1>4, <2>1, <3>1
  <2>3. QED
    BY <1>2, <1>7, <2>1, <2>2 DEF SellsOut
<1>8. \A a : (First(c, a)' <=> First(c, a)) /\ (First(c, a) => a \in Placed)
  BY <1>2 DEF First, Filled
<1>9. \A j \in Closes(c)' : First(c, request[j].parent)' => SellsOut(c, j, request[j].parent)'
  BY <1>1, <1>2, <1>7, <1>8 DEF Market
<1>10. \A a \in Placed' : First(c, a)' => Fits(c, a)'
  BY <1>6, <1>8 DEF Market
<1>11. QED
  BY <1>1, <1>2, <1>9, <1>10 DEF Market

(***************************************************************************)
(* What the broker shows of an order, in a cycle nothing trades in.        *)
(***************************************************************************)
\* The broker moves between cycles, fills all legs alike, no worker dies, and the
\* last day has not come.
Calm == /\ Windows = {"ordinary"}
        /\ Faults \subseteq {"reduction"}
        /\ "reduction" \in Faults => \A l, m \in Legs : l = m

After == Pcs \ Before

\* What an order's status and activities say of its fills.
Traced ==
  /\ \A o \in Orders : o \notin Placed => broker[o].status = "new"
  /\ \A o \in Orders : 0 \in fills[o] => o \in Placed /\ Left(o) = 0
  /\ \A o \in Placed : broker[o].status = "filled" => Left(o) = 0
  /\ \A o \in Placed : Working(o) =>
        broker[o].status = IF broker[o].filled = 0 THEN "new" ELSE "partially_filled"

\* The snapshot is what the broker shows until the cycle ends.
Pictured ==
  /\ run.pc \notin {"idle", "reading"} => run.snap.position = position
  /\ run.pc \in {"ingest", "reconcile"} => run.snap.fills = fills

\* A canceled order that is about to be replaced lacks what its row says.
Resting ==
  run.pc = "replace" =>
    ledger[run.current].remaining = Left(run.current) /\ ~Working(run.current)

\* The steps of a cycle that do anything at the broker.
LEMMA CycleSteps ==
  ASSUME TypeInv, [Next]_vars, ~BrokerNext, ~CancelAccepted, ~PlaceReplacement,
         ~(\E o \in run.work : PlaceClose(o)),
         ~(\E c \in Candidates, q \in 1..MaxQty : PlaceEntry(c, q))
  PROVE  Quiet /\ (run'.pc # "replace" \/ UNCHANGED <<run, ledger>>)
<1> USE DEF Quiet
<1>1. CASE OrdersNext
  <2>1. ASSUME NEW o \in run.work,
               PollEntryTerminal(o) \/ PollCloseCanceled(o) \/ PollCloseFilled(o) \/ PollWait(o)
        PROVE  Quiet /\ run'.pc # "replace"
    BY <2>1, PollSteps
  <2>2. ASSUME NEW o \in run.work, NEW a, PollCancel(o, a) PROVE Quiet /\ run'.pc # "replace"
    BY <2>2, CancelSteps
  <2>3. CASE ReplacementExists \/ PersistReplacement \/ EndOrders
    BY <2>3, SettledSteps, EndOrdersSteps
  <2>4. QED
    BY <1>1, <2>1, <2>2, <2>3 DEF OrdersNext
<1>2. CASE StructuresNext
  <2>1. ASSUME NEW o \in run.work,
               \/ StructureSkipped(o) \/ StructureFlat(o) \/ StructureReduced(o) \/ StructureHeld(o)
               \/ CloseExists(o) \/ CloseWithoutQuotes(o)
        PROVE  Quiet /\ run'.pc # "replace"
    BY <2>1, JudgeSteps
  <2>2. CASE PersistClose \/ MarkClosing \/ EndStructures
    BY <2>2, ClosingSteps
  <2>3. QED
    BY <1>2, <2>1, <2>2 DEF StructuresNext
<1>3. CASE IngestFills
  BY <1>3 DEF IngestFills, TypeInv, TypeOK, Run, brokerVars
<1>4. CASE ClearKillSwitch \/ Done \/ UNCHANGED vars
  BY <1>4 DEF ClearKillSwitch, Done, vars, brokerVars
<1>5. ASSUME NEW m \in Modes, BeginCycle(m) PROVE Quiet /\ run'.pc # "replace"
  BY <1>5, BeginLocals DEF BeginCycle, brokerVars
<1>6. ASSUME NEW S \in SUBSET Reads, Read(S) PROVE Quiet /\ run'.pc # "replace"
  BY <1>6, ListSteps, ReadLocals
<1>7. CASE Reconcile \/ StartLifecycle
  BY <1>7, ReconcileSteps, StartSteps
<1>8. CASE PersistEntry \/ Abstain \/ FailClosed \/ Crash
  BY <1>8, EndSteps
<1>9. QED
  BY <1>1, <1>2, <1>3, <1>4, <1>5, <1>6, <1>7, <1>8 DEF Next, CycleNext

\* The snapshot goes on showing the broker until the cycle ends.
LEMMA PicturedStep ==
  ASSUME TypeInv, Calm, Pictured, [Next]_vars
  PROVE  Pictured'
<1>1. CASE BrokerNext
  <2>1. run' = run /\ run.pc = "idle"
    BY <1>1, MarketSteps DEF Calm
  <2>2. QED
    BY <2>1 DEF Pictured
<1>2. CASE ~BrokerNext
  <2>1. UNCHANGED <<fills, position>>
    BY <1>2, BrokerMoved
  <2>2. CASE run'.pc = "idle"
    BY <2>2 DEF Pictured
  <2>3. ASSUME NEW m \in Modes, BeginCycle(m) PROVE Pictured'
    BY <2>3, BeginLocals DEF Pictured
  <2>4. ASSUME NEW S \in SUBSET Reads, Read(S) PROVE Pictured'
    <3>1. S = Reads
      BY <2>4 DEF Read, Calm
    <3>2. run'.snap.fills = fills /\ run'.snap.position = position
      <4> DEFINE open == {o \in Placed : broker[o].status \in OpenAtBroker}
                 snap == [open     |-> IF "orders" \in S THEN open ELSE run.snap.open,
                          broker   |-> IF "orders" \in S
                                       THEN [o \in Orders |-> IF o \in open THEN broker[o] ELSE Blank]
                                       ELSE run.snap.broker,
                          position |-> IF "positions" \in S THEN position ELSE run.snap.position,
                          fills    |-> IF "activities" \in S THEN fills ELSE run.snap.fills]
      <4>1. run' = [run EXCEPT !.snap = snap, !.seen = @ \cup S,
                               !.pc = IF run.seen \cup S = Reads THEN "ingest" ELSE "reading"]
        BY <2>4 DEF Read
      <4>2. run'.snap = snap
        <5> HIDE DEF snap
        <5>1. QED
          BY <4>1 DEF TypeInv, TypeOK, Run
      <4>3. QED
        BY <3>1, <4>2 DEF Reads
    <3>3. QED
      BY <2>1, <3>2 DEF Pictured
  <2>5. CASE Reconcile
    BY <2>1, <2>5, ReconcileSteps DEF Pictured
  <2>6. CASE /\ run'.pc # "idle" /\ ~(\E m \in Modes : BeginCycle(m))
             /\ ~(\E S \in SUBSET Reads : Read(S)) /\ ~Reconcile
    <3>1. run'.snap = run.snap /\ run.pc # "idle" /\ (run.pc = "reading" <=> run'.pc = "reading")
          /\ (run.pc \in Before <=> run'.pc \in Before)
      BY <2>6, LocalsKept
    <3>2. QED
      BY <2>1, <3>1 DEF Pictured, Before
  <2>7. QED
    BY <2>2, <2>3, <2>4, <2>5, <2>6
<1>3. QED
  BY <1>1, <1>2

\* Nothing moves between a cancel and its replacement.
LEMMA RestingStep ==
  ASSUME TypeInv, Calm, Followed, Resting, [Next]_vars
  PROVE  Resting'
<1>1. CASE run'.pc # "replace"
  BY <1>1 DEF Resting
<1>2. CASE CancelAccepted
  <2>1. /\ run.pc = "cancel" /\ run'.current = run.current /\ run.current \in Placed
        /\ UNCHANGED request /\ ledger'[run.current].remaining = ledger[run.current].remaining
        /\ broker'[run.current].filled = broker[run.current].filled
        /\ broker'[run.current].status = "canceled"
    BY <1>2, AcceptedSteps, RequestFields DEF Calm, Counted
  <2>2. QED
    BY <2>1 DEF Resting, Followed, Exact, Left, Working, OpenAtBroker
<1>3. CASE run'.pc = "replace" /\ ~CancelAccepted
  <2>1. ~BrokerNext
    BY <1>3, MarketSteps DEF Calm
  <2>2. ~PlaceReplacement /\ ~(\E o \in run.work : PlaceClose(o))
        /\ ~(\E c \in Candidates, q \in 1..MaxQty : PlaceEntry(c, q))
    BY <1>3, ReplaceSteps, CloseSteps, EntrySteps
  <2>3. Quiet /\ UNCHANGED <<run, ledger>>
    BY <1>3, <2>1, <2>2, CycleSteps
  <2>4. QED
    BY <2>3 DEF Resting, Quiet, Left, Working
<1>4. QED
  BY <1>1, <1>2, <1>3

\* Fills, cancels and lapses leave the traces they should.
LEMMA TracedStep ==
  ASSUME TypeInv, TypeInv', Calm, Unfinished, Traced, [Next]_vars
  PROVE  Traced'
<1> USE DEF Quiet
<1>1. CASE UNCHANGED <<placed, request, broker, fills>>
  BY <1>1 DEF Traced, Left, Working, Placed
<1>2. ASSUME NEW r \in Request, Accept(r) PROVE Traced'
  <2> SUFFICES ASSUME NEW n, n = placed' PROVE Traced'
    OBVIOUS
  <2>1. broker'[n].status = "new"
    BY <1>2, NewOrderLeft DEF Traced
  <2>2. \A o \in Placed' : (broker[o].status = "filled" => Left(o) = 0)'
    BY <1>2, <2>1, NewOrderLeft DEF Traced
  <2>3. \A o \in Orders : (0 \in fills[o] => o \in Placed /\ Left(o) = 0)'
    BY <1>2, NewOrderLeft DEF Traced
  <2>4. \A o \in Placed' : (Working(o) =>
            broker[o].status = IF broker[o].filled = 0 THEN "new" ELSE "partially_filled")'
    BY <1>2, <2>1, NewOrderLeft DEF Traced, Working
  <2>5. \A o \in Orders : (o \notin Placed => broker[o].status = "new")'
    BY <1>2, NewOrderLeft DEF Traced
  <2>6. QED
    BY <2>2, <2>3, <2>4, <2>5 DEF Traced
<1>3. ASSUME NEW o \in Placed, NEW k \in 1..MaxQty, Fill(o, k) PROVE Traced'
  <2>1. Placed' = Placed /\ o \in Orders /\ o \notin Orders \ Placed
    BY <1>3, FillMoves, RequestFields DEF Placed
  <2>2. ASSUME NEW p \in Orders PROVE (0 \in fills[p] => p \in Placed /\ Left(p) = 0)'
    <3>1. CASE p = o
      <4>1. 0 \notin fills[o] /\ fills'[o] = fills[o] \cup {Left(o) - k} /\ Left(o)' = Left(o) - k
        BY <1>3, <2>1, FillMoves DEF Traced
      <4>2. QED
        BY <2>1, <3>1, <4>1
    <3>2. CASE p # o
      <4>1. fills'[p] = fills[p] /\ (p \in Placed => Left(p)' = Left(p))
        BY <1>3, <3>2, FillMoves
      <4>2. QED
        BY <2>1, <4>1 DEF Traced
    <3>3. QED
      BY <3>1, <3>2
  <2>3. broker[o].status = IF broker[o].filled = 0 THEN "new" ELSE "partially_filled"
    BY <1>3, FillMoves DEF Traced
  <2>4. /\ broker'[o].filled # 0
        /\ broker'[o].status = IF k = Left(o) THEN "filled" ELSE "partially_filled"
        /\ k = Left(o) => Left(o)' = 0
    BY <1>3, <2>3, FillMoves, MarketTypes
  <2>5. \A p \in Placed \ {o} : broker'[p] = broker[p] /\ Left(p)' = Left(p)
    BY <1>3, FillMoves
  <2>6. \A p \in Orders \ Placed : broker'[p] = broker[p]
    <3>1. \A p \in Orders \ {o} : broker'[p] = broker[p]
      BY <1>3 DEF Fill, TypeInv, TypeOK
    <3>2. QED
      BY <2>1, <3>1
  <2>7. QED
    BY <2>1, <2>2, <2>4, <2>5, <2>6 DEF Traced, Working, OpenAtBroker
<1>4. ASSUME NEW o \in Placed, UNCHANGED <<placed, request, fills>>, broker'[o].status = "canceled",
             \A p \in Orders : broker'[p].filled = broker[p].filled,
             \A p \in Orders : p # o => broker'[p] = broker[p]
      PROVE  Traced'
  <2>1. Placed' = Placed /\ \A p \in Placed : p \in Orders
    BY <1>4, RequestFields DEF Placed
  <2>2. \A p \in Placed : Left(p)' = Left(p)
    BY <1>4, <2>1 DEF Left
  <2>3. QED
    BY <1>4, <2>1, <2>2 DEF Traced, Working, OpenAtBroker
<1>5. CASE CancelAccepted
  BY <1>4, <1>5, AcceptedSteps DEF Calm
<1>6. ASSUME NEW o \in Placed, Lapse(o) PROVE Traced'
  <2>1. broker' = [broker EXCEPT ![o].status = "canceled"] /\ UNCHANGED <<placed, request, fills>>
    BY <1>6 DEF Lapse
  <2>2. broker \in [Orders -> BrokerRecord] /\ o \in Orders
    BY RequestFields DEF TypeInv, TypeOK
  <2>3. /\ broker'[o].status = "canceled" /\ \A p \in Orders : broker'[p].filled = broker[p].filled
        /\ \A p \in Orders : p # o => broker'[p] = broker[p]
    BY <2>1, <2>2 DEF BrokerRecord
  <2>4. QED
    BY <1>4, <2>1, <2>3
<1>7. CASE BrokerNext
  <2>1. ASSUME NEW c \in Candidates, NEW l \in Legs, Reduce(c, l) PROVE Traced'
    BY <1>1, <2>1 DEF Reduce
  <2>2. QED
    BY <1>3, <1>6, <1>7, <2>1 DEF BrokerNext
<1>8. QED
  <2>1. CASE UNCHANGED <<placed, request>>
    BY <1>1, <1>5, <1>7, <2>1, BrokerMoved
  <2>2. ASSUME NEW r \in Request, Submits(r) PROVE Traced'
    BY <1>2, <2>2 DEF Submits
  <2>3. QED
    BY <2>1, <2>2, SubmissionsAreChecked

\* What the broker does leaves an order that has nothing left as it is.
LEMMA LeftStays ==
  ASSUME TypeInv, [Next]_vars, NEW o \in Placed, Left(o) = 0
  PROVE  o \in Placed' /\ Left(o)' = 0
<1>1. /\ o \in Placed' /\ request'[o] = request[o]
  <2>1. CASE UNCHANGED <<placed, request>>
    BY <2>1 DEF Placed
  <2>2. ASSUME NEW r \in Request, Submits(r) PROVE o \in Placed' /\ request'[o] = request[o]
    BY <2>2, AcceptExtends DEF Submits
  <2>3. QED
    BY <2>1, <2>2, SubmissionsAreChecked
<1>2. broker'[o].filled = broker[o].filled
  <2>1. ASSUME NEW p \in Placed, NEW k \in 1..MaxQty, Fill(p, k) PROVE broker'[o].filled = broker[o].filled
    BY <2>1, FillMoves
  <2>2. ASSUME NEW p \in Placed, Lapse(p) PROVE broker'[o].filled = broker[o].filled
    BY <2>2, RequestFields DEF Lapse, TypeInv, TypeOK, BrokerRecord
  <2>3. ASSUME NEW c \in Candidates, NEW l \in Legs, Reduce(c, l) PROVE broker' = broker
    BY <2>3 DEF Reduce
  <2>4. CASE CancelAccepted
    BY <2>4, AcceptedSteps, RequestFields
  <2>5. QED
    BY <2>1, <2>2, <2>3, <2>4, BrokerMoved DEF BrokerNext
<1>3. QED
  BY <1>1, <1>2 DEF Left

(***************************************************************************)
(* How a row changes.                                                      *)
(***************************************************************************)
\* Every way a row comes to another status.
EndedRow(o) ==
  /\ PollEntryTerminal(o)
  /\ ledger'[o].status = IF broker[o].status = "canceled" /\ broker[o].filled > 0
                         THEN "partially_filled_canceled" ELSE broker[o].status
SoldRow(k, o) ==
  /\ PollCloseFilled(k)
  /\ \/ o = k /\ ledger'[o].status = "filled"
     \/ /\ o = request[k].parent /\ CloseAgrees(k) /\ ParentCloses(k)
        /\ ledger'[o].status = "closed"
RowChange(o) ==
  \/ IngestFills \/ Reconcile
  \/ StartLifecycle /\ o \in FilledCloseParents /\ ledger'[o].status = "closed"
  \/ o \in run.work /\ EndedRow(o)
  \/ o \in run.work /\ PollCloseCanceled(o) /\ ledger'[o].status = "canceled"
  \/ \E k \in run.work : SoldRow(k, o)
  \/ CancelAccepted /\ o = run.current /\ ledger'[o].status = CanceledStatus(o)
  \/ run.pc \in InFlightPcs /\ o = placed /\ ledger'[o].status = "new"
  \/ o \in run.work /\ StructureFlat(o) /\ ledger'[o].status = "closed"
  \/ o \in run.work /\ StructureReduced(o) /\ ledger'[o].status = "externally_reduced"
  \/ MarkClosing /\ o = run.current /\ ledger'[o].status = "closing"

\* A row changes its status in no other way.
LEMMA RowsChange ==
  ASSUME TypeInv, [Next]_vars, NEW o \in Orders, ledger'[o].status # ledger[o].status
  PROVE  RowChange(o)
<1>1. ASSUME NEW p, NEW s, MarkRow(p, s) PROVE o = p /\ ledger'[o].status = s
  <2>1. ledger' = [ledger EXCEPT ![p].status = s] /\ ledger[o] \in Row /\ ledger \in [Orders -> Row]
    BY <1>1 DEF MarkRow, TypeInv, TypeOK
  <2>2. o = p
    BY <2>1
  <2>3. ledger'[o] = [ledger[o] EXCEPT !.status = s]
    BY <2>1, <2>2
  <2>4. QED
    BY <2>1, <2>2, <2>3 DEF Row
<1>2. PersistRow => o = placed /\ ledger'[o].status = "new"
  BY DEF PersistRow, TypeInv, TypeOK
<1>3. ASSUME NEW k \in run.work, PollEntryTerminal(k) PROVE RowChange(o)
  <2>1. MarkRow(k, IF broker[k].status = "canceled" /\ broker[k].filled > 0
                   THEN "partially_filled_canceled" ELSE broker[k].status)
    BY <1>3 DEF PollEntryTerminal
  <2>2. QED
    BY <1>1, <1>3, <2>1 DEF EndedRow, RowChange
<1>4. ASSUME NEW k \in run.work, PollCloseCanceled(k) PROVE RowChange(o)
  <2>1. MarkRow(k, "canceled")
    BY <1>4 DEF PollCloseCanceled
  <2>2. QED
    BY <1>1, <1>4, <2>1 DEF RowChange
<1>5. ASSUME NEW k \in run.work, PollCloseFilled(k) PROVE RowChange(o)
  <2> DEFINE p == request[k].parent
             settled == CloseAgrees(k) /\ ParentCloses(k)
  <2>1. /\ ledger' = [ledger EXCEPT ![k].status = "filled",
                                    ![p].status = IF settled THEN "closed" ELSE @]
        /\ ledger \in [Orders -> Row] /\ ledger[o] \in Row
    BY <1>5 DEF PollCloseFilled, TypeInv, TypeOK
  <2>2. \/ o = k /\ ledger'[o].status = "filled"
        \/ o = p /\ settled /\ ledger'[o].status = "closed"
    <3> HIDE DEF settled, p
    <3>1. QED
      BY <2>1 DEF Row
  <2>3. QED
    BY <1>5, <2>2 DEF SoldRow, RowChange
<1>6. CASE StartLifecycle
  <2>1. ledger' = [x \in Orders |-> IF x \in FilledCloseParents
                                    THEN [ledger[x] EXCEPT !.status = "closed"] ELSE ledger[x]]
    BY <1>6 DEF StartLifecycle
  <2>2. o \in FilledCloseParents /\ ledger'[o] = [ledger[o] EXCEPT !.status = "closed"] /\ ledger[o] \in Row
    BY <2>1 DEF TypeInv, TypeOK
  <2>3. ledger'[o].status = "closed"
    BY <2>2 DEF Row
  <2>4. QED
    BY <1>6, <2>2, <2>3 DEF RowChange
<1>7. CASE CancelAccepted
  <2>1. MarkRow(run.current, CanceledStatus(run.current))
    BY <1>7 DEF CancelAccepted
  <2>2. QED
    BY <1>1, <1>7, <2>1 DEF RowChange
<1>8. CASE PersistReplacement \/ PersistClose \/ PersistEntry
  <2>1. PersistRow /\ run.pc \in InFlightPcs
    BY <1>8 DEF PersistReplacement, PersistClose, PersistEntry, InFlightPcs
  <2>2. QED
    BY <1>2, <2>1 DEF RowChange, PersistRow, TypeInv, TypeOK
<1>9. ASSUME NEW k \in run.work, StructureFlat(k) \/ StructureReduced(k) PROVE RowChange(o)
  <2>1. \/ StructureFlat(k) /\ MarkRow(k, "closed")
        \/ StructureReduced(k) /\ MarkRow(k, "externally_reduced")
    BY <1>9 DEF StructureFlat, StructureReduced
  <2>2. QED
    BY <1>1, <2>1 DEF RowChange
<1>10. CASE MarkClosing
  <2>1. MarkRow(run.current, "closing")
    BY <1>10 DEF MarkClosing
  <2>2. QED
    BY <1>1, <1>10, <2>1 DEF RowChange
<1>11. CASE OrdersNext
  <2>1. ASSUME NEW k \in run.work, NEW a, PollCancel(k, a) PROVE FALSE
    BY <2>1, CancelSteps
  <2>2. ASSUME NEW k \in run.work, PollWait(k) PROVE FALSE
    BY <2>2 DEF PollWait
  <2>3. ~PlaceReplacement /\ ~ReplacementExists /\ ~EndOrders
    BY DEF PlaceReplacement, ReplacementExists, EndOrders
  <2>4. QED
    BY <1>3, <1>4, <1>5, <1>7, <1>8, <1>11, <2>1, <2>2, <2>3 DEF OrdersNext
<1>12. CASE StructuresNext
  <2>1. ASSUME NEW k \in run.work,
               StructureSkipped(k) \/ StructureHeld(k) \/ CloseExists(k) \/ CloseWithoutQuotes(k) \/ PlaceClose(k)
        PROVE FALSE
    BY <2>1 DEF StructureSkipped, StructureHeld, CloseExists, CloseWithoutQuotes, PlaceClose
  <2>2. ~EndStructures
    BY DEF EndStructures
  <2>3. QED
    BY <1>8, <1>9, <1>10, <1>12, <2>1, <2>2 DEF StructuresNext
<1>13. ~BrokerNext
  BY MarketSteps
<1>14. ~(\E m \in Modes : BeginCycle(m)) /\ ~(\E S \in SUBSET Reads : Read(S))
  BY DEF BeginCycle, Read
<1>15. /\ ~(\E c \in Candidates, q \in 1..MaxQty : PlaceEntry(c, q))
       /\ ~Abstain /\ ~FailClosed /\ ~ClearKillSwitch /\ ~Crash /\ ~Done /\ ~UNCHANGED vars
  BY DEF PlaceEntry, Abstain, FailClosed, ClearKillSwitch, Crash, Done, vars
<1>16. CASE IngestFills \/ Reconcile
  BY <1>16 DEF RowChange
<1>17. QED
  BY <1>6, <1>8, <1>11, <1>12, <1>13, <1>14, <1>15, <1>16 DEF Next, CycleNext

(***************************************************************************)
(* What reconciliation takes for a filled entry.                           *)
(***************************************************************************)
\* A quantity is a natural number, and at least that of any member.
LEMMA Quantities ==
  ASSUME TypeInv, NEW S \in SUBSET Placed
  PROVE  /\ Quantity(S) \in Nat
         /\ \A o \in S : request[o].quantity <= Quantity(S)
<1> DEFINE q == [o \in Orders |-> request[o].quantity]
<1>1. IsFiniteSet(S)
  <2>1. placed \in Nat
    BY DEF TypeInv, TypeOK
  <2>2. IsFiniteSet(Placed)
    BY <2>1, FS_Interval DEF Placed
  <2>3. QED
    BY <2>2, FS_Subset
<1>2. \A o \in S : q[o] \in Nat /\ q[o] = request[o].quantity
  BY RequestFields, ConstantsAssumption
<1>3. \A o \in S : q[o] \in Int
  BY <1>2
<1>4. Quantity(S) = SumFunctionOnSet(q, S)
  BY DEF Quantity
<1> HIDE DEF q
<1>5. SumFunctionOnSet(q, S) \in Int
  BY <1>1, <1>3, SumType
<1>6. ASSUME NEW R \in SUBSET S PROVE SumFunctionOnSet(q, R) <= SumFunctionOnSet(q, S)
  BY <1>1, <1>2, SumOfPart
<1>7. 0 <= SumFunctionOnSet(q, S)
  BY <1>6, SumOfNone
<1>8. ASSUME NEW o \in S PROVE q[o] <= SumFunctionOnSet(q, S)
  <2>1. SumFunctionOnSet(q, {o}) = q[o] + SumFunctionOnSet(q, {o} \ {o})
    <3>1. IsFiniteSet({o}) /\ \A x \in {o} : q[x] \in Int
      BY <1>3, FS_Singleton
    <3>2. QED
      BY <3>1, SumWithout
  <2>2. {o} \ {o} = {}
    OBVIOUS
  <2>3. SumFunctionOnSet(q, {o}) = q[o]
    BY <1>3, <2>1, <2>2, SumOfNone
  <2>4. QED
    BY <1>6, <2>3
<1>9. QED
  BY <1>2, <1>4, <1>5, <1>7, <1>8

\* What starts at 0 and grows by natural numbers only takes natural values.
LEMMA SumsAreNatural ==
  ASSUME NEW N \in Nat, NEW size, \A n \in 1..N : size[n] \in Nat, NEW f, f[0] = 0,
         \A n \in 1..N : f[n] = f[n - 1] + size[n] \/ f[n] = f[n - 1]
  PROVE  \A n \in 0..N : f[n] \in Nat
<1> DEFINE U == {n \in Nat : n <= N => f[n] \in Nat}
<1>1. 0 \in U
  OBVIOUS
<1>2. ASSUME NEW n \in Nat, n \in U PROVE n + 1 \in U
  <2> SUFFICES ASSUME n + 1 <= N PROVE f[n + 1] \in Nat
    OBVIOUS
  <2>1. n + 1 \in 1..N /\ (n + 1) - 1 = n /\ f[n] \in Nat
    BY <1>2
  <2>2. size[n + 1] \in Nat
    BY <2>1
  <2>3. f[n + 1] = f[n] + size[n + 1] \/ f[n + 1] = f[n]
    BY <2>1
  <2>4. QED
    BY <2>1, <2>2, <2>3
<1> HIDE DEF U
<1>3. Nat \subseteq U
  BY <1>1, <1>2, Counting
<1>4. QED
  BY <1>3 DEF U

\* The recursion over the entries of a candidate, and that it has a solution.
Fit(rows, c, n, u) ==
  /\ IsEntry(n) /\ Of(n) = c /\ rows[n].status \in OpenAtBroker
  /\ \A l \in Legs : u + request[n].quantity <= Unreserved(rows, c)[l]
Advance(rows, c, g, n) ==
  IF n = 0 THEN 0
  ELSE IF Fit(rows, c, n, g[n - 1]) THEN g[n - 1] + request[n].quantity ELSE g[n - 1]

\* The recursive function of the model, as the equation its value is chosen by.
LEMMA ConsumedIs ==
  ASSUME NEW rows, NEW c
  PROVE  Consumed(rows, c) = CHOOSE g : g = [n \in 0..placed |-> Advance(rows, c, g, n)]
BY DEF Consumed, Advance, Fit

\* Some function satisfies that equation, by induction on the orders.
LEMMA ConsumedExists ==
  ASSUME TypeInv, NEW rows, NEW c
  PROVE  \E g : g = [n \in 0..placed |-> Advance(rows, c, g, n)]
<1> DEFINE N == placed
           Right(g, n) == \A m \in 0..n : g[m] = Advance(rows, c, g, m)
           T == {n \in Nat : n <= N => \E g \in [0..N -> Nat] : Right(g, n)}
<1>0. N \in Nat /\ \A n \in 1..N : request[n].quantity \in Nat
  BY MarketTypes DEF TypeInv, TypeOK, Placed
<1> HIDE DEF N
<1>1. 0 \in T
  <2>1. [m \in 0..N |-> 0] \in [0..N -> Nat] /\ Right([m \in 0..N |-> 0], 0)
    BY <1>0 DEF Advance
  <2> HIDE DEF Right
  <2>2. QED
    BY <2>1
<1>2. ASSUME NEW n \in Nat, n \in T PROVE n + 1 \in T
  <2> SUFFICES ASSUME n + 1 <= N PROVE \E g \in [0..N -> Nat] : Right(g, n + 1)
    OBVIOUS
  <2>0. n <= N
    BY <1>0
  <2>1. PICK g \in [0..N -> Nat] : Right(g, n)
    <3> HIDE DEF Right
    <3>1. QED
      BY <1>2, <2>0
  <2> DEFINE h == [g EXCEPT ![n + 1] = Advance(rows, c, g, n + 1)]
  <2>2. n \in 0..N /\ n + 1 \in 1..N /\ n + 1 \in 0..N /\ (n + 1) - 1 = n /\ n + 1 # 0
    BY <1>0
  <2>3. Advance(rows, c, g, n + 1) \in Nat
    <3>1. g[n] \in Nat /\ request[n + 1].quantity \in Nat
      BY <1>0, <2>2
    <3>2. Advance(rows, c, g, n + 1) \in {g[n], g[n] + request[n + 1].quantity}
      BY <2>2 DEF Advance
    <3>3. QED
      BY <3>1, <3>2
  <2>4. h \in [0..N -> Nat] /\ h[n + 1] = Advance(rows, c, g, n + 1) /\ \A m \in 0..n : h[m] = g[m]
    BY <2>2, <2>3
  <2> HIDE DEF h
  <2>5. ASSUME NEW m \in 0..(n + 1) PROVE h[m] = Advance(rows, c, h, m)
    <3>1. CASE m = n + 1
      <4>1. h[n] = g[n]
        BY <2>4
      <4>2. QED
        BY <2>2, <2>4, <3>1, <4>1 DEF Advance
    <3>2. CASE m # n + 1
      <4>1. m \in 0..n /\ (m # 0 => m - 1 \in 0..n)
        BY <3>2
      <4>2. h[m] = g[m] /\ g[m] = Advance(rows, c, g, m) /\ (m # 0 => h[m - 1] = g[m - 1])
        BY <2>1, <2>4, <4>1
      <4>3. QED
        BY <4>2 DEF Advance
    <3>3. QED
      BY <3>1, <3>2
  <2>6. QED
    BY <2>4, <2>5
<1>3. N \in T
  <2> HIDE DEF T
  <2>1. QED
    BY <1>0, <1>1, <1>2, Counting
<1>4. PICK g \in [0..N -> Nat] : Right(g, N)
  BY <1>0, <1>3
<1>5. g = [n \in 0..N |-> Advance(rows, c, g, n)]
  BY <1>4
<1>6. QED
  BY <1>5 DEF N

\* So the value does: what is consumed grows only by entries that fit.
LEMMA ConsumedGrows ==
  ASSUME TypeInv, NEW rows, NEW c, NEW f, f = Consumed(rows, c)
  PROVE  /\ \A n \in 0..placed : f[n] \in Nat
         /\ \A n \in 1..placed : f[n] # f[n - 1] => Fit(rows, c, n, f[n - 1])
<1>1. f = [n \in 0..placed |-> Advance(rows, c, f, n)]
  BY ConsumedIs, ConsumedExists
<1>2. placed \in Nat /\ \A n \in 1..placed : request[n].quantity \in Nat
  BY MarketTypes DEF TypeInv, TypeOK, Placed
<1>3. f[0] = 0
  BY <1>1, <1>2 DEF Advance
<1>4. ASSUME NEW n \in 1..placed
      PROVE  /\ f[n] = f[n - 1] + request[n].quantity \/ f[n] = f[n - 1]
             /\ f[n] # f[n - 1] => Fit(rows, c, n, f[n - 1])
  <2>0. n \in 0..placed /\ n # 0
    BY <1>2
  <2>1. f[n] = Advance(rows, c, f, n)
    BY <1>1, <2>0
  <2>2. QED
    BY <2>0, <2>1 DEF Advance
<1>5. \A n \in 0..placed : f[n] \in Nat
  <2> DEFINE size == [n \in 1..placed |-> request[n].quantity]
  <2>1. \A n \in 1..placed : size[n] \in Nat /\ size[n] = request[n].quantity
    BY <1>2
  <2> HIDE DEF size
  <2>2. \A n \in 1..placed : f[n] = f[n - 1] + size[n] \/ f[n] = f[n - 1]
    BY <1>4, <2>1
  <2>3. QED
    BY <1>2, <1>3, <2>1, <2>2, SumsAreNatural
<1>6. QED
  BY <1>4, <1>5

(***************************************************************************)
(* What reconciliation makes of the rows.                                  *)
(***************************************************************************)
\* An entry reconciliation takes for filled asked for no more than is held.
LEMMA HeldInFull ==
  ASSUME TypeInv, NEW rows, NEW o \in Placed,
         Consumed(rows, Of(o))[o] # Consumed(rows, Of(o))[o - 1], NEW l \in Legs
  PROVE  request[o].quantity <= run.snap.position[Of(o)][l]
<1> DEFINE c == Of(o)
           f == Consumed(rows, c)
           established == {p \in Placed : IsEntry(p) /\ Of(p) = c /\ rows[p].status \in Established}
           held == run.snap.position[c][l]
<1>1. o \in 1..placed /\ o - 1 \in 0..placed /\ c \in Candidates /\ request[o].quantity \in Nat \ {0}
  BY MarketTypes DEF Placed, TypeInv, TypeOK
<1>2. held \in Nat
  BY <1>1 DEF TypeInv, TypeOK, Run, Snapshot
<1>3. Quantity(established) \in Nat
  BY Quantities
<1>4. f[o - 1] \in Nat /\ Fit(rows, c, o, f[o - 1])
  <2> HIDE DEF c
  <2>1. f[o] # f[o - 1]
    BY DEF c
  <2> HIDE DEF f
  <2>2. f = Consumed(rows, c)
    BY DEF f
  <2>3. QED
    BY <1>1, <2>1, <2>2, ConsumedGrows
<1>5. Unreserved(rows, c)[l] = Positive(held - Quantity(established))
  BY DEF Unreserved
<1>6. f[o - 1] + request[o].quantity <= Positive(held - Quantity(established))
  BY <1>4, <1>5 DEF Fit
<1> HIDE DEF f, held, established
<1>7. request[o].quantity <= held
  BY <1>1, <1>2, <1>3, <1>4, <1>6 DEF Positive
<1>8. QED
  BY <1>7 DEF held

\* What reconciliation makes of a row.
LEMMA ReconciledRow ==
  ASSUME TypeInv, NEW o \in Placed, NEW row, row = Absent(Normalized(Synced))[o]
  PROVE  \/ row.status = Synced[o].status
         \/ Synced[o].status = "closing" /\ row.status = "closed"
         \/ /\ row.status = "filled" /\ IsEntry(o)
            /\ \A l \in Legs : request[o].quantity <= run.snap.position[Of(o)][l]
<1> DEFINE normal == Normalized(Synced)[o]
           taken == /\ IsEntry(o)
                    /\ Consumed(Synced, Of(o))[o] # Consumed(Synced, Of(o))[o - 1]
<1>1. o \in Orders /\ Synced[o] \in Row
  <2>1. o \in Orders /\ run.snap.open \subseteq Placed /\ run.snap.broker \in [Orders -> BrokerRecord]
    BY RequestFields DEF TypeInv, TypeOK, Bounded, Run, Snapshot
  <2>2. \A p \in run.snap.open : request[p].quantity - run.snap.broker[p].filled \in 0..MaxQty
    BY <2>1, RequestFields, ConstantsAssumption DEF TypeInv, Bounded, BrokerRecord
  <2>3. QED
    BY <2>1, <2>2 DEF Synced, Row, RowStatus, BrokerRecord, Terminal, Established, TypeInv, TypeOK
<1>2. normal = Synced[o] \/ (taken /\ normal = [status |-> "filled", remaining |-> 0])
  BY <1>1 DEF Normalized
<1>3. row = normal \/ (normal.status = "closing" /\ row = [normal EXCEPT !.status = "closed"])
  BY <1>1 DEF Absent
<1>4. taken => IsEntry(o) /\ \A l \in Legs : request[o].quantity <= run.snap.position[Of(o)][l]
  BY HeldInFull
<1> HIDE DEF normal, taken
<1>5. CASE normal = Synced[o]
  <2>1. row.status = normal.status \/ (normal.status = "closing" /\ row.status = "closed")
    BY <1>1, <1>3, <1>5 DEF Row
  <2>2. QED
    BY <1>5, <2>1
<1>6. CASE taken /\ normal = [status |-> "filled", remaining |-> 0]
  <2>1. normal.status = "filled" /\ row = normal
    BY <1>3, <1>6
  <2>2. QED
    BY <1>4, <1>6, <2>1
<1>7. QED
  BY <1>2, <1>5, <1>6

\* An order nobody accepted has no row.
Rowless == \A o \in Orders : o \notin Placed => ~HasRow(o)

\* Only a submission that was accepted gets a row.
LEMMA RowlessStep ==
  ASSUME TypeInv, Rowless, [Next]_vars
  PROVE  Rowless'
<1> SUFFICES ASSUME NEW o \in Orders, o \notin Placed', HasRow(o)' PROVE FALSE
  BY DEF Rowless
<1>1. Placed \subseteq Placed'
  <2>1. CASE UNCHANGED <<placed, request>>
    BY <2>1 DEF Placed
  <2>2. ASSUME NEW r \in Request, Submits(r) PROVE Placed \subseteq Placed'
    BY <2>2, AcceptExtends DEF Submits
  <2>3. QED
    BY <2>1, <2>2, SubmissionsAreChecked
<1>2. o \notin Placed /\ ledger[o].status = "none" /\ ledger'[o].status # "none"
  BY <1>1 DEF Rowless, HasRow
<1>3. RowChange(o)
  BY <1>2, RowsChange
<1>4. CASE IngestFills
  BY <1>2, <1>4 DEF IngestFills, HasRow
<1>5. CASE Reconcile
  <2>1. ledger' = Absent(Normalized(Synced)) /\ o \notin run.snap.open
    BY <1>2, <1>5, ReconcileSteps DEF TypeInv, Bounded
  <2>2. QED
    BY <1>2, <2>1 DEF Absent, Normalized, Synced
<1>6. run.pc \in {"orders", "structures"} => run.work \subseteq Placed
  BY DEF TypeInv, WorkLeft
<1>7. o \in run.work => ~Polling(o) /\ run.pc # "structures"
  BY <1>2, <1>6 DEF Polling
<1>8. ASSUME NEW k \in run.work, SoldRow(k, o) PROVE FALSE
  <2>1. run.pc = "orders" /\ (o = k \/ ledger[o].status \in Established \cup {"closed"})
    BY <1>8 DEF SoldRow, PollCloseFilled, Polling, ParentCloses
  <2>2. QED
    BY <1>2, <1>6, <2>1 DEF Established
<1>9. run.pc \in {"cancel", "mark_closing"} => o # run.current
  BY <1>2 DEF TypeInv, WorkLeft
<1>10. run.pc \in InFlightPcs => o # placed
  BY <1>2 DEF TypeInv, TypeOK, WorkLeft, InFlightPcs, Placed
<1>11. CASE StartLifecycle /\ o \in FilledCloseParents
  BY <1>2, <1>11 DEF FilledCloseParents, OpenManaged
<1>12. QED
  BY <1>3, <1>4, <1>5, <1>7, <1>8, <1>9, <1>10, <1>11
     DEF RowChange, EndedRow, PollEntryTerminal, PollCloseCanceled, StructureFlat, StructureReduced,
         Judging, CancelAccepted, MarkClosing

\* A row that says filled belongs to an order that has nothing left: of a close
\* always, of an entry when its activities have just been ingested.
Settled ==
  /\ \A k \in Placed : ~IsEntry(k) /\ ledger[k].status = "filled" => Left(k) = 0
  /\ run.pc = "reconcile" =>
       \A o \in Placed : fills[o] # {} /\ ledger[o].status = "filled" => Left(o) = 0

\* Where a cycle comes from.
LEMMA ComesFrom ==
  ASSUME TypeInv, Calm, [Next]_vars
  PROVE  /\ run'.pc = "reconcile" => IngestFills \/ UNCHANGED vars
         /\ run'.pc = "start" => Reconcile \/ UNCHANGED vars
         /\ run'.pc \in OrderPcs => StartLifecycle \/ OrdersNext \/ UNCHANGED vars
         /\ run'.pc \in StructurePcs => EndOrders \/ StructuresNext \/ UNCHANGED vars
         /\ run'.pc = "idle" => \/ run.pc = "idle" /\ UNCHANGED ledger
                                \/ PersistEntry \/ Abstain \/ FailClosed
<1>1. CASE BrokerNext
  BY <1>1, MarketSteps DEF Calm, OrderPcs, StructurePcs
<1>2. ASSUME NEW m \in Modes, BeginCycle(m) PROVE run'.pc = "reading"
  BY <1>2, BeginLocals
<1>3. ASSUME NEW S \in SUBSET Reads, Read(S) PROVE run'.pc \in {"reading", "ingest"}
  BY <1>3, ReadLocals
<1>4. IngestFills => run'.pc = "reconcile"
  BY DEF IngestFills, TypeInv, TypeOK, Run
<1>5. (Reconcile => run'.pc = "start") /\ (StartLifecycle => run'.pc = "orders")
  BY ReconcileSteps, StartSteps
<1>6. OrdersNext => run'.pc \in OrderPcs \/ EndOrders
  <2>1. ASSUME NEW o \in run.work,
               PollEntryTerminal(o) \/ PollCloseCanceled(o) \/ PollCloseFilled(o) \/ PollWait(o)
        PROVE  run'.pc = "orders"
    BY <2>1, PollSteps
  <2>2. ASSUME NEW o \in run.work, NEW a, PollCancel(o, a) PROVE run'.pc = "cancel"
    BY <2>2, CancelSteps
  <2>3. CancelAccepted \/ PlaceReplacement \/ ReplacementExists \/ PersistReplacement
        => run'.pc \in OrderPcs
    BY AcceptedSteps, ReplaceSteps, SettledSteps DEF OrderPcs
  <2>4. QED
    BY <2>1, <2>2, <2>3 DEF OrdersNext, OrderPcs
<1>7. EndOrders => run'.pc = "structures"
  BY EndOrdersSteps
<1>8. StructuresNext => run'.pc \in StructurePcs \cup {"decide"}
  BY StructuresLocals DEF Onward, StructurePcs
<1>9. ASSUME NEW c \in Candidates, NEW q \in 1..MaxQty, PlaceEntry(c, q) PROVE run'.pc = "persist_entry"
  BY <1>9, EntrySteps
<1>10. PersistEntry \/ Abstain \/ FailClosed => run'.pc = "idle"
  BY EndSteps
<1>11. ClearKillSwitch \/ Done => run.pc = "idle" /\ run'.pc = "idle" /\ UNCHANGED ledger
  BY DEF ClearKillSwitch, Done, vars
<1>12. ~Crash
  BY DEF Crash, Calm
<1>13. UNCHANGED vars => UNCHANGED ledger
  BY DEF vars
<1>14. (run'.pc = "idle" /\ UNCHANGED vars) => run.pc = "idle"
  BY DEF vars
<1>15. QED
  BY <1>1, <1>2, <1>3, <1>4, <1>5, <1>6, <1>7, <1>8, <1>9, <1>10, <1>11, <1>12, <1>13, <1>14
     DEF Next, CycleNext, OrderPcs, StructurePcs

\* The last activity of an order is one of those listed.
LEMMA IngestedRow ==
  ASSUME TypeInv, Pictured, Traced, IngestFills, NEW o \in Placed, fills[o] # {},
         HasRow(o), ledger'[o].status = "filled"
  PROVE  Left(o) = 0
<1>1. o \in Orders /\ run.snap.fills = fills /\ fills[o] \in SUBSET (0..MaxQty) /\ MaxQty \in Nat
  BY RequestFields, ConstantsAssumption DEF IngestFills, Pictured, TypeInv, TypeOK
<1>2. ledger'[o].status = IF LastLeaves(fills[o]) = 0 THEN "filled" ELSE "partially_filled"
  BY <1>1 DEF IngestFills
<1>3. LastLeaves(fills[o]) = 0
  BY <1>2
<1>4. LastLeaves(fills[o]) \in fills[o]
  <2>1. fills[o] \in SUBSET Nat
    BY <1>1
  <2>2. Max(fills[o]) \in fills[o] /\ Min(fills[o]) \in fills[o]
    BY <1>1, <2>1, MaxIsElement, MinIsElement
  <2>3. QED
    BY <2>2 DEF LastLeaves
<1>5. QED
  BY <1>1, <1>3, <1>4 DEF Traced

\* No row says filled before its order is.
LEMMA SettledStep ==
  ASSUME TypeInv, TypeInv', Calm, Recorded, Traced, Pictured, Reviewed, Rowless, Settled, [Next]_vars
  PROVE  Settled'
<1>1. ASSUME NEW k \in Placed', ~IsEntry(k)', ledger'[k].status = "filled" PROVE Left(k)' = 0
  <2>1. CASE k \notin Placed
    <3>1. PICK r \in Request : Submits(r)
      BY <2>1, SubmissionsAreChecked DEF Placed
    <3>2. k \in Orders /\ ledger' = ledger
      BY <3>1, NewOrderLeft, RequestFields DEF Submits
    <3>3. QED
      BY <1>1, <2>1, <3>2 DEF Rowless, HasRow
  <2>2. CASE k \in Placed /\ Left(k) = 0
    BY <2>2, LeftStays
  <2>3. CASE k \in Placed /\ Left(k) # 0
    <3>1. k \in Orders /\ ~IsEntry(k)
      <4>1. CASE UNCHANGED <<placed, request>>
        BY <1>1, <2>3, <4>1, RequestFields DEF IsEntry
      <4>2. ASSUME NEW r \in Request, Submits(r) PROVE k \in Orders /\ ~IsEntry(k)
        BY <1>1, <2>3, <4>2, NewOrderLeft, RequestFields DEF Submits
      <4>3. QED
        BY <4>1, <4>2, SubmissionsAreChecked
    <3>2. ledger[k].status # "filled"
      BY <2>3, <3>1 DEF Settled
    <3>3. RowChange(k)
      BY <1>1, <3>1, <3>2, RowsChange
    <3>4. ~IngestFills
      <4>1. SUFFICES ASSUME IngestFills PROVE FALSE
        OBVIOUS
      <4>2. HasRow(k) /\ fills[k] # {}
        <5>1. run.snap.fills[k] # {} /\ HasRow(k)
          BY <1>1, <3>1, <3>2, <4>1 DEF IngestFills
        <5>2. QED
          BY <4>1, <5>1 DEF Pictured, IngestFills
      <4>3. QED
        BY <1>1, <2>3, <4>1, <4>2, IngestedRow
    <3>5. ~Reconcile
      <4>1. SUFFICES ASSUME Reconcile PROVE FALSE
        OBVIOUS
      <4>2. ledger' = Absent(Normalized(Synced)) /\ run.pc = "reconcile"
        BY <4>1, ReconcileSteps
      <4>3. Synced[k].status = "filled"
        BY <1>1, <2>3, <3>1, <4>2, ReconciledRow
      <4>4. k \in run.snap.open /\ run.snap.broker[k].status = "filled"
        BY <3>1, <3>2, <4>3 DEF Synced
      <4>5. QED
        BY <2>3, <4>2, <4>4 DEF Reviewed, OpenAtBroker
    <3>6. ~EndedRow(k)
      BY <3>1 DEF EndedRow, PollEntryTerminal
    <3>7. ASSUME NEW j \in run.work, SoldRow(j, k) PROVE FALSE
      <4>1. broker[k].status = "filled"
        BY <1>1, <3>7 DEF SoldRow, PollCloseFilled
      <4>2. QED
        BY <2>3, <4>1 DEF Traced
    <3>8. QED
      BY <1>1, <3>3, <3>4, <3>5, <3>6, <3>7 DEF RowChange, CanceledStatus
  <2>4. QED
    BY <2>1, <2>2, <2>3
<1>2. ASSUME run'.pc = "reconcile", NEW o \in Placed', fills'[o] # {}, ledger'[o].status = "filled"
      PROVE  Left(o)' = 0
  <2>1. CASE UNCHANGED vars
    BY <1>2, <2>1 DEF Settled, vars, Left, Placed
  <2>2. CASE IngestFills
    <3>1. Placed' = Placed /\ fills' = fills /\ run.pc = "ingest"
      BY <2>2 DEF IngestFills, brokerVars, Placed
    <3>2. HasRow(o)
      BY <1>2, <3>1 DEF Recorded, InFlight, InFlightPcs
    <3>3. Left(o) = 0
      BY <1>2, <2>2, <3>1, <3>2, IngestedRow
    <3>4. QED
      BY <1>2, <3>1, <3>3, LeftStays
  <2>3. QED
    BY <1>2, <2>1, <2>2, ComesFrom
<1>3. QED
  BY <1>1, <1>2 DEF Settled

(***************************************************************************)
(* What the worker relies on when it judges a structure.                   *)
(***************************************************************************)
Empty(c) == \A l \in Legs : position[c][l] = 0

\* The rows the structures are judged by, and the row of a close in flight.
Judgable ==
  /\ run.pc \in StructurePcs => \A o \in run.work : ledger[o].status \in Established
  /\ run.pc \in {"persist_close", "mark_closing"} => ledger[run.current].status \in Established
  /\ run.pc = "persist_close" => placed \notin run.work /\ placed # run.current

\* Judging one structure leaves the rows of the others.
LEMMA JudgableStep ==
  ASSUME TypeInv, Calm, Judgable, [Next]_vars
  PROVE  Judgable'
<1>1. CASE run'.pc \notin StructurePcs
  BY <1>1 DEF Judgable, StructurePcs
<1>2. CASE UNCHANGED vars
  BY <1>2 DEF Judgable, vars
<1>3. CASE EndOrders
  <2>1. run'.pc = "structures" /\ run'.work = OpenManaged /\ ledger' = ledger
    BY <1>3, EndOrdersSteps
  <2>2. QED
    BY <2>1 DEF Judgable, OpenManaged
<1>4. ASSUME NEW o \in run.work,
             \/ StructureSkipped(o) \/ StructureFlat(o) \/ StructureReduced(o) \/ StructureHeld(o)
             \/ CloseExists(o) \/ CloseWithoutQuotes(o)
      PROVE  Judgable'
  <2>1. run.pc = "structures" /\ run'.pc = "structures" /\ run'.work = run.work \ {o}
        /\ run.work \subseteq Placed
    BY <1>4, JudgeSteps DEF TypeInv, WorkLeft
  <2>2. ASSUME NEW p \in run'.work PROVE ledger'[p].status \in Established
    <3>1. p \in Orders /\ p \in run.work /\ p # o /\ ledger[p].status \in Established
      BY <2>1, RequestFields DEF Judgable, StructurePcs
    <3>2. CASE ledger'[p].status # ledger[p].status
      <4>1. RowChange(p)
        BY <3>1, <3>2, RowsChange
      <4>2. ~StructureFlat(p) /\ ~StructureReduced(p)
        <5>1. StructureFlat(p) \/ StructureReduced(p) => run'.work = run.work \ {p}
          BY <3>1, JudgeSteps
        <5>2. QED
          BY <2>1, <3>1, <5>1
      <4>3. QED
        BY <2>1, <4>1, <4>2
           DEF RowChange, IngestFills, Reconcile, StartLifecycle, EndedRow, PollEntryTerminal, Polling,
               PollCloseCanceled, SoldRow, PollCloseFilled, CancelAccepted, InFlightPcs, MarkClosing
    <3>3. QED
      BY <3>1, <3>2
  <2>3. QED
    BY <2>1, <2>2 DEF Judgable
<1>5. ASSUME NEW o \in run.work, PlaceClose(o) PROVE Judgable'
  <2>1. /\ run.pc = "structures" /\ run'.pc = "persist_close" /\ run'.work = run.work \ {o}
        /\ o \in Placed /\ CloseRequest(o) \in Request /\ Accept(CloseRequest(o)) /\ ledger' = ledger
        /\ run.work \subseteq Placed
    BY <1>5, CloseSteps DEF TypeInv, WorkLeft
  <2>2. run'.current = o
    BY <1>5 DEF PlaceClose, TypeInv, TypeOK, Run
  <2>3. placed' \notin Placed
    BY <2>1, NewOrder
  <2>4. QED
    BY <2>1, <2>2, <2>3 DEF Judgable, StructurePcs
<1>6. CASE PersistClose
  <2>1. /\ run.pc = "persist_close" /\ run'.pc = "mark_closing" /\ run'.work = run.work
        /\ run'.current = run.current
    BY <1>6 DEF PersistClose, TypeInv, TypeOK, Run
  <2>2. \A p : p # placed => ledger'[p] = ledger[p]
    BY <1>6 DEF PersistClose, PersistRow, TypeInv, TypeOK
  <2>3. QED
    BY <2>1, <2>2 DEF Judgable, StructurePcs
<1>7. CASE MarkClosing
  <2>1. run.pc = "mark_closing" /\ run'.pc = "structures" /\ run'.work = run.work
        /\ run.work \subseteq Placed
    BY <1>7 DEF MarkClosing, TypeInv, TypeOK, Run, WorkLeft
  <2>2. ASSUME NEW p \in run.work PROVE ledger'[p].status \in Established
    <3>1. p \in Orders /\ ledger[p].status \in Established
      BY <2>1, RequestFields DEF Judgable, StructurePcs
    <3>2. ledger' = [ledger EXCEPT ![run.current].status = "closing"] /\ ledger \in [Orders -> Row]
      BY <1>7 DEF MarkClosing, MarkRow, TypeInv, TypeOK
    <3>3. ledger'[p].status \in {ledger[p].status, "closing"}
      BY <3>1, <3>2 DEF Row
    <3>4. QED
      BY <3>1, <3>3 DEF Established
  <2>3. QED
    BY <2>1, <2>2 DEF Judgable
<1>8. CASE EndStructures
  BY <1>1, <1>8, ClosingSteps DEF StructurePcs, EndStructures, PersistClose, MarkClosing
<1>9. QED
  BY <1>1, <1>2, <1>3, <1>4, <1>5, <1>6, <1>7, <1>8, ComesFrom DEF StructuresNext

\* Nothing trades during a cycle, so the first filled entry stays the first.
LEMMA CycleStandsStill ==
  ASSUME TypeInv, Calm, [Next]_vars, run.pc # "idle"
  PROVE  /\ Placed \subseteq Placed' /\ position' = position /\ fills' = fills
         /\ \A o \in Placed : /\ request'[o] = request[o] /\ broker'[o].filled = broker[o].filled
                              /\ Left(o)' = Left(o) /\ Of(o)' = Of(o) /\ (IsEntry(o)' <=> IsEntry(o))
                              /\ Working(o)' => Working(o)
         /\ \A c, a : First(c, a)' => First(c, a) /\ a \in Placed
<1>1. ~BrokerNext
  BY MarketSteps DEF Calm
<1>2. position' = position /\ fills' = fills
  BY <1>1, BrokerMoved
<1>3. /\ Placed \subseteq Placed' /\ \A o \in Placed : request'[o] = request[o]
      /\ \A n \in Placed' : n \notin Placed => broker'[n].filled = 0
  <2>1. CASE UNCHANGED <<placed, request>>
    BY <2>1 DEF Placed
  <2>2. ASSUME NEW r \in Request, Submits(r)
        PROVE  /\ Placed \subseteq Placed' /\ \A o \in Placed : request'[o] = request[o]
               /\ \A n \in Placed' : n \notin Placed => broker'[n].filled = 0
    BY <2>2, NewOrderLeft DEF Submits
  <2>3. QED
    BY <2>1, <2>2, SubmissionsAreChecked
<1>4. \A o \in Placed : broker'[o].filled = broker[o].filled
  <2>1. CASE CancelAccepted
    BY <2>1, AcceptedSteps, RequestFields
  <2>2. QED
    BY <1>1, <2>1, BrokerMoved
<1>5. ASSUME NEW o \in Placed, Working(o)' PROVE Working(o)
  <2>1. broker'[o] = broker[o] \/ Working(o)
    BY BrokerMoved
  <2>2. QED
    BY <1>5, <2>1 DEF Working
<1>6. \A o \in Placed : Left(o)' = Left(o) /\ Of(o)' = Of(o) /\ (IsEntry(o)' <=> IsEntry(o))
  BY <1>3, <1>4 DEF Left, Of, IsEntry
<1>7. ASSUME NEW c, NEW a, First(c, a)' PROVE First(c, a) /\ a \in Placed
  <2>1. ASSUME NEW o \in Placed' PROVE o \in Filled(c)' <=> o \in Filled(c)
    <3>1. CASE o \in Placed
      BY <1>3, <1>4, <1>6, <3>1 DEF Filled
    <3>2. CASE o \notin Placed
      BY <1>3, <3>2 DEF Filled
    <3>3. QED
      BY <3>1, <3>2
  <2>2. Filled(c)' = Filled(c)
    BY <1>3, <2>1 DEF Filled
  <2>3. QED
    BY <1>7, <2>2 DEF First, Filled
<1>8. QED
  BY <1>2, <1>3, <1>4, <1>5, <1>6, <1>7

\* While it is worked on, the row of an entry that has filled in part says so.
Half(o) == IsEntry(o) /\ Working(o) /\ broker[o].filled > 0
Marked ==
  /\ run.pc = "start" => \A o \in Placed : Half(o) /\ ledger[o].status \in OpenAtBroker =>
                                              ledger[o].status = "partially_filled"
  /\ run.pc \in OrderPcs => \A o \in run.work : Half(o) => ledger[o].status = "partially_filled"
  /\ run.pc = "cancel" /\ Half(run.current) => ledger[run.current].status = "partially_filled"

\* Reconciliation gives a working order the broker's status or takes it for filled.
LEMMA ReconciledWorking ==
  ASSUME TypeInv, Recorded, Listed, Reconcile, NEW o \in Placed, Working(o)
  PROVE  \/ ledger'[o].status = broker[o].status
         \/ ledger'[o].status = "filled" /\ \A l \in Legs : request[o].quantity <= run.snap.position[Of(o)][l]
<1>1. ledger' = Absent(Normalized(Synced)) /\ run.pc = "reconcile"
  BY ReconcileSteps
<1>2. o \in Orders /\ HasRow(o) /\ o \in run.snap.open /\ run.snap.broker[o] = broker[o]
  BY <1>1, RequestFields DEF Recorded, InFlight, InFlightPcs, Listed
<1>3. Synced[o].status = broker[o].status
  BY <1>2 DEF Synced
<1>4. Synced[o].status # "closing"
  BY <1>3 DEF Working, OpenAtBroker
<1>5. QED
  BY <1>1, <1>3, <1>4, ReconciledRow

\* A partial fill stays marked until its order ends.
LEMMA MarkedStep ==
  ASSUME TypeInv, Calm, Recorded, Listed, Followed, Traced, Marked, [Next]_vars
  PROVE  Marked'
<1>1. CASE UNCHANGED vars
  BY <1>1 DEF Marked, vars, Half, IsEntry, Working, Placed
<1>2. CASE run'.pc \notin OrderPcs \cup {"start"}
  BY <1>2 DEF Marked, OrderPcs
<1>3. CASE Reconcile
  <2>1. run'.pc = "start" /\ Quiet /\ Placed' = Placed
    BY <1>3, ReconcileSteps DEF Quiet, Placed
  <2>2. ASSUME NEW o \in Placed, Half(o), ledger'[o].status \in OpenAtBroker
        PROVE  ledger'[o].status = "partially_filled"
    <3>1. broker[o].status = "partially_filled"
      <4>1. broker[o].filled \in Nat
        BY MarketTypes
      <4>2. QED
        BY <2>2, <4>1 DEF Half, Traced
    <3>2. QED
      BY <1>3, <2>2, <3>1, ReconciledWorking DEF Half, OpenAtBroker
  <2>3. \A o \in Placed : Half(o)' => Half(o)
    BY <2>1 DEF Half, IsEntry, Working, Quiet
  <2>4. QED
    BY <2>1, <2>2, <2>3 DEF Marked, OrderPcs
<1>4. CASE StartLifecycle
  <2>1. run.pc = "start" /\ run'.pc = "orders" /\ run'.work = PendingManaged /\ Quiet
    BY <1>4, StartSteps
  <2>2. ASSUME NEW o \in PendingManaged, Half(o)' PROVE ledger'[o].status = "partially_filled"
    <3>1. o \in Placed /\ o \in Orders /\ ledger[o].status \in OpenAtBroker /\ Half(o)
      BY <2>1, <2>2, RequestFields DEF PendingManaged, Half, IsEntry, Working, Quiet
    <3>2. ledger[o].status = "partially_filled" /\ o \notin FilledCloseParents
      BY <2>1, <3>1 DEF Marked, FilledCloseParents, OpenManaged, OpenAtBroker, Established
    <3>3. ledger'[o] = ledger[o]
      BY <1>4, <3>1, <3>2 DEF StartLifecycle
    <3>4. QED
      BY <3>2, <3>3
  <2>3. QED
    BY <2>1, <2>2 DEF Marked
<1>5. ASSUME run.pc \in OrderPcs, run'.pc \in OrderPcs, run'.work \subseteq run.work,
             run.work \subseteq Placed, NEW o \in run'.work, Half(o)'
      PROVE  ledger'[o].status = "partially_filled"
  <2>1. o \in Placed /\ o \in Orders /\ Half(o)
    BY <1>5, CycleStandsStill, RequestFields DEF Half, OrderPcs
  <2>2. ledger[o].status = "partially_filled"
    BY <1>5, <2>1 DEF Marked
  <2>3. CASE ledger'[o].status # ledger[o].status
    <3>1. RowChange(o)
      BY <2>1, <2>3, RowsChange
    <3>2. ~EndedRow(o) /\ ~PollCloseCanceled(o)
      BY <2>1 DEF EndedRow, PollEntryTerminal, PollCloseCanceled, Half, Working, Terminal, OpenAtBroker
    <3>3. ~(\E k \in run.work : SoldRow(k, o))
      BY <2>1, <2>2 DEF SoldRow, PollCloseFilled, ParentCloses, Half, Established
    <3>4. ~(CancelAccepted /\ o = run.current)
      <4>1. CancelAccepted => broker'[run.current].status = "canceled"
        BY AcceptedSteps DEF Calm
      <4>2. QED
        BY <1>5, <4>1 DEF Half, Working, OpenAtBroker
    <3>5. ~(run.pc \in InFlightPcs /\ o = placed)
      BY <1>5 DEF Followed, InFlightPcs, OrderPcs
    <3>6. QED
      BY <1>5, <3>1, <3>2, <3>3, <3>4, <3>5
         DEF RowChange, IngestFills, Reconcile, StartLifecycle, StructureFlat, StructureReduced, Judging,
             MarkClosing, OrderPcs
  <2>4. QED
    BY <2>2, <2>3
<1>6. ASSUME NEW o \in run.work, NEW a, PollCancel(o, a) PROVE Marked'
  <2>1. /\ run.pc = "orders" /\ run'.pc = "cancel" /\ run'.work = run.work \ {o}
        /\ run'.current = o /\ ledger' = ledger /\ o \in Placed /\ run.work \subseteq Placed
    BY <1>6, CancelSteps DEF TypeInv, WorkLeft
  <2>2. \A p \in run'.work : Half(p)' => ledger'[p].status = "partially_filled"
    BY <1>5, <2>1 DEF OrderPcs
  <2>3. Half(o)' => Half(o)
    BY <2>1, CycleStandsStill DEF Half
  <2>4. QED
    BY <2>1, <2>2, <2>3 DEF Marked, OrderPcs
<1>7. CASE run.pc \in OrderPcs /\ run'.pc \in OrderPcs \ {"cancel"} /\ run'.work \subseteq run.work
  <2>1. run.work \subseteq Placed
    BY <1>7 DEF TypeInv, WorkLeft, OrderPcs
  <2>2. QED
    BY <1>5, <1>7, <2>1 DEF Marked, OrderPcs
<1>8. ASSUME NEW o \in run.work,
             PollEntryTerminal(o) \/ PollCloseCanceled(o) \/ PollCloseFilled(o) \/ PollWait(o)
      PROVE  Marked'
  BY <1>7, <1>8, PollSteps DEF OrderPcs
<1>9. CASE CancelAccepted \/ PlaceReplacement \/ ReplacementExists \/ PersistReplacement
  BY <1>7, <1>9, AcceptedSteps, ReplaceSteps, SettledSteps DEF OrderPcs
<1>10. CASE EndOrders
  BY <1>2, <1>10, EndOrdersSteps DEF OrderPcs
<1>11. CASE OrdersNext
  BY <1>6, <1>8, <1>9, <1>10, <1>11 DEF OrdersNext
<1>12. QED
  BY <1>1, <1>2, <1>3, <1>4, <1>11, ComesFrom

(***************************************************************************)
(* The owner of a candidate through a cycle.                               *)
(***************************************************************************)
\* From reconciliation on, the first filled entry of a candidate counts as exposure
\* or nothing is held, and a row in force that is not open belongs to an ended order.
Anchored ==
  \A c \in Candidates : \A a \in Placed : First(c, a) =>
    /\ ledger[a].status \in Owning \/ Empty(c)
    /\ ledger[a].status \in Established => ~Working(a)
\* A working entry has an open row, unless it is in flight or something is held.
Watched ==
  \A w \in Placed : IsEntry(w) /\ Working(w) =>
    \/ ledger[w].status \in OpenAtBroker \/ InFlight(w)
    \/ \A l \in Legs : position[Of(w)][l] > 0
\* A row in force that is not open is of an entry filled to the end, or held in full.
Whole ==
  \A c \in Candidates : \A a \in Placed : First(c, a) /\ ledger[a].status \in Established =>
    Left(a) = 0 \/ \A l \in Legs : request[a].quantity <= position[c][l]
Kept ==
  /\ run.pc \in After => Anchored /\ Watched
  /\ run.pc = "start" => Whole

\* A close that sold all its entry ever bought leaves nothing.
LEMMA SoldOut ==
  ASSUME TypeInv, NEW c \in Candidates, Market(c), NEW a \in Placed, First(c, a),
         NEW k \in Closes(c), request[k].parent = a, Left(k) = 0,
         \/ request[k].quantity = request[a].quantity
         \/ Left(a) = 0
         \/ \A l \in Legs : request[a].quantity <= position[c][l]
  PROVE  Empty(c)
<1>1. /\ k \in Placed /\ Fits(c, a) /\ SellsOut(c, k, a)
  BY DEF Market, Closes
<1>2. /\ broker[k].filled \in Nat /\ request[k].quantity \in Nat \ {0} /\ request[a].quantity \in Nat
      /\ \A l \in Legs : position[c][l] \in Nat
  BY <1>1, MarketTypes
<1>3. broker[k].filled = request[k].quantity
  BY <1>2 DEF Left
<1>4. ASSUME NEW l \in Legs PROVE position[c][l] = 0
  <2>1. position[c][l] + 0 + broker[k].filled <= request[a].quantity
    BY <1>1 DEF Fits, ToBuy, Sold
  <2>2. Left(a) = 0 => position[c][l] <= 0
    BY <1>1 DEF SellsOut
  <2>3. QED
    BY <1>2, <1>3, <2>1, <2>2
<1>5. QED
  BY <1>4 DEF Empty

\* Reconciliation anchors what the broker holds.
LEMMA KeptAtStart ==
  ASSUME TypeInv, Calm, Recorded, Unfinished, Traced, Sourced, Reviewed, Listed, Pictured, Settled,
         \A c \in Candidates : Market(c), Reconcile
  PROVE  Anchored' /\ Watched' /\ Whole'
<1>1. /\ run.pc = "reconcile" /\ run'.pc = "start" /\ Quiet /\ Placed' = Placed
      /\ ledger' = Absent(Normalized(Synced)) /\ run.snap.position = position
      /\ \A o \in Placed : HasRow(o) /\ o \in Orders
  BY ReconcileSteps, RequestFields DEF Quiet, Placed, Recorded, InFlight, InFlightPcs, Pictured
<1>2. ASSUME NEW o \in Placed, Working(o)
      PROVE  \/ ledger'[o].status \in OpenAtBroker
             \/ /\ ledger'[o].status = "filled"
                /\ \A l \in Legs : request[o].quantity <= position[Of(o)][l]
  BY <1>1, <1>2, ReconciledWorking DEF Working
<1>3. ASSUME NEW c \in Candidates, NEW a \in Placed, First(c, a)
      PROVE  /\ ledger'[a].status \in Owning
             /\ ledger'[a].status \in Established =>
                  /\ ~Working(a)
                  /\ Left(a) = 0 \/ \A l \in Legs : request[a].quantity <= position[c][l]
  <2>1. /\ broker[a].filled > 0 /\ Of(a) = c /\ Fits(c, a) /\ IsEntry(a) /\ fills[a] # {}
    BY <1>3 DEF First, Filled, Market, Sourced
  <2>2. CASE Working(a)
    <3>1. Left(a) >= 1 /\ Left(a) \in Nat /\ request[a].quantity \in Nat /\ a \in Buyers(c)
      <4>1. broker[a].filled < request[a].quantity /\ broker[a].filled \in Nat
            /\ request[a].quantity \in Nat /\ Left(a) \in Nat
        BY <2>2, MarketTypes DEF Unfinished
      <4>2. QED
        BY <2>1, <2>2, <4>1 DEF Left, Buyers, Buying
    <3>2. ASSUME \A l \in Legs : request[a].quantity <= position[c][l] PROVE FALSE
      <4>1. PICK l \in Legs : TRUE
        BY ConstantsAssumption
      <4>2. position[c][l] + Left(a) + 0 <= request[a].quantity /\ position[c][l] \in Nat
        BY <2>1, <3>1, MarketTypes DEF Fits, ToBuy, Sold
      <4>3. QED
        BY <3>1, <3>2, <4>2
    <3>3. ledger'[a].status \in OpenAtBroker
      BY <1>2, <2>1, <2>2, <3>2
    <3>4. QED
      BY <3>3 DEF OpenAtBroker, Owning, Established
  <2>3. CASE ~Working(a)
    <3>1. /\ a \notin run.snap.open /\ ledger[a].status \in {"filled", "partially_filled"}
      <4>1. a \notin run.snap.open
        BY <1>1, <2>3 DEF Listed
      <4>2. QED
        BY <1>1, <2>1, <4>1 DEF Reviewed
    <3>2. Synced[a] = ledger[a]
      BY <1>1, <3>1 DEF Synced
    <3>3. ledger'[a].status \in Owning
      BY <1>1, <3>1, <3>2, ExposureStays DEF OpenAtBroker
    <3>4. ASSUME ledger'[a].status \in Established
          PROVE  Left(a) = 0 \/ \A l \in Legs : request[a].quantity <= position[c][l]
      <4>1. \/ ledger'[a].status = ledger[a].status
            \/ \A l \in Legs : request[a].quantity <= position[c][l]
        BY <1>1, <2>1, <3>1, <3>2, ReconciledRow
      <4>2. CASE ledger'[a].status = ledger[a].status
        <5>1. ledger[a].status = "filled"
          BY <3>1, <3>4, <4>2 DEF Established
        <5>2. QED
          BY <1>1, <2>1, <5>1 DEF Settled
      <4>3. QED
        BY <4>1, <4>2
    <3>5. QED
      BY <2>3, <3>3, <3>4
  <2>4. QED
    BY <2>2, <2>3
<1>4. /\ \A c, a : First(c, a)' => First(c, a)
      /\ \A o \in Placed : /\ Left(o)' = Left(o) /\ (Working(o)' <=> Working(o)) /\ Of(o)' = Of(o)
                           /\ (IsEntry(o)' <=> IsEntry(o)) /\ request'[o] = request[o]
      /\ position' = position
  BY <1>1 DEF First, Filled, Left, Working, Of, IsEntry, Quiet
<1>5. Anchored'
  BY <1>1, <1>3, <1>4 DEF Anchored
<1>6. Whole'
  BY <1>1, <1>3, <1>4 DEF Whole
<1>7. Watched'
  <2>1. ASSUME NEW w \in Placed, Working(w), \A l \in Legs : request[w].quantity <= position[Of(w)][l]
        PROVE  \A l \in Legs : position[Of(w)][l] > 0
    <3>1. request[w].quantity \in Nat \ {0} /\ \A l \in Legs : position[Of(w)][l] \in Nat
      BY MarketTypes
    <3>2. QED
      BY <2>1, <3>1
  <2>2. QED
    BY <1>1, <1>2, <1>4, <2>1 DEF Watched
<1>8. QED
  BY <1>5, <1>6, <1>7

\* What holds of the rows once the cycle reconciled them goes on holding.
LEMMA AnchoredLater ==
  ASSUME TypeInv, Calm, Followed, Traced, Parented, Pictured, Settled, Judgable, Marked, Kept,
         \A c \in Candidates : Market(c), run.pc \in After, [Next]_vars
  PROVE  Anchored'
<1> SUFFICES ASSUME NEW c \in Candidates, NEW a \in Placed', First(c, a)'
             PROVE  /\ ledger'[a].status \in Owning \/ Empty(c)'
                    /\ ledger'[a].status \in Established => ~Working(a)'
  BY DEF Anchored
<1>1. run.pc # "idle" /\ run.pc \notin {"ingest", "reconcile"}
  BY DEF After, Before
<1>2. /\ First(c, a) /\ a \in Placed /\ a \in Orders /\ Market(c)
      /\ Working(a)' => Working(a)
      /\ Empty(c) => Empty(c)'
  BY <1>1, CycleStandsStill, RequestFields DEF Empty
<1>3. /\ IsEntry(a) /\ Of(a) = c /\ broker[a].filled > 0
      /\ ledger[a].status \in Owning \/ Empty(c)
      /\ ledger[a].status \in Established => ~Working(a)
      /\ broker[a].filled \in Nat
  BY <1>2, MarketTypes DEF First, Filled, Kept, Anchored
<1>4. CASE ledger'[a].status = ledger[a].status
  BY <1>2, <1>3, <1>4
<1>5. CASE ledger'[a].status # ledger[a].status
  <2>1. RowChange(a)
    BY <1>2, <1>5, RowsChange
  <2>2. CASE StartLifecycle /\ a \in FilledCloseParents /\ ledger'[a].status = "closed"
    <3>1. PICK k \in Placed : ~IsEntry(k) /\ ledger[k].status = "filled" /\ request[k].parent = a
      BY <2>2 DEF FilledCloseParents
    <3>2. k \in Closes(c) /\ Left(k) = 0
      BY <1>3, <3>1 DEF Parented, Closes, Settled
    <3>3. Left(a) = 0 \/ \A l \in Legs : request[a].quantity <= position[c][l]
      BY <1>2, <2>2 DEF FilledCloseParents, OpenManaged, StartLifecycle, Kept, Whole
    <3>4. Empty(c)
      BY <1>2, <3>1, <3>2, <3>3, SoldOut
    <3>5. QED
      BY <1>2, <2>2, <3>4 DEF Established
  <2>3. CASE a \in run.work /\ EndedRow(a)
    <3>1. broker[a].status \in Terminal
      BY <2>3 DEF EndedRow, PollEntryTerminal
    <3>2. ~Working(a) /\ ledger'[a].status \in {"partially_filled_canceled", "filled"}
      BY <1>3, <2>3, <3>1 DEF EndedRow, Working, Terminal, OpenAtBroker
    <3>3. QED
      BY <1>2, <3>2 DEF Owning, Established
  <2>4. ~PollCloseCanceled(a)
    BY <1>3 DEF PollCloseCanceled
  <2>5. ASSUME NEW k \in run.work, SoldRow(k, a) PROVE Empty(c) /\ ledger'[a].status = "closed"
    <3>1. run.pc = "orders" /\ ~IsEntry(k) /\ k \in Placed
      BY <2>5 DEF SoldRow, PollCloseFilled, Polling, TypeInv, WorkLeft
    <3>2. /\ a = request[k].parent /\ CloseAgrees(k) /\ ParentCloses(k)
          /\ ledger'[a].status = "closed"
      BY <1>3, <2>5, <3>1 DEF SoldRow
    <3>3. k \in Closes(c)
      BY <1>3, <3>1, <3>2 DEF Parented, Closes
    <3>4. Left(k) = 0 /\ request[k].quantity = request[a].quantity
      BY <3>1, <3>2, MarketTypes DEF CloseAgrees, ParentCloses, Left
    <3>5. QED
      BY <1>2, <3>2, <3>3, <3>4, SoldOut
  <2>6. CASE CancelAccepted /\ a = run.current /\ ledger'[a].status = CanceledStatus(a)
    <3>1. run.pc = "cancel" /\ Working(a) /\ broker'[a].status = "canceled"
      BY <2>6, AcceptedSteps DEF Calm, Followed
    <3>2. ledger[a].status = "partially_filled"
      BY <1>3, <2>6, <3>1 DEF Marked, Half
    <3>3. ledger'[a].status = "partially_filled_canceled" /\ ~Working(a)'
      BY <1>3, <2>6, <3>1, <3>2 DEF CanceledStatus, Working, OpenAtBroker
    <3>4. QED
      BY <3>3 DEF Owning, Established
  <2>7. ledger'[a].status = "new" =>
           ledger'[a].status \in Owning /\ ledger'[a].status \notin Established
    BY DEF Owning, OpenAtBroker, Established
  <2>8. CASE a \in run.work /\ StructureFlat(a) /\ ledger'[a].status = "closed"
    <3>1. \A l \in Legs : ~(run.snap.position[c][l] > 0)
      BY <1>3, <2>8 DEF StructureFlat, Present
    <3>2. run.snap.position = position
      BY <2>8 DEF StructureFlat, Judging, Pictured
    <3>3. \A l \in Legs : position[c][l] \in Nat
      BY MarketTypes
    <3>4. Empty(c)
      BY <3>1, <3>2, <3>3 DEF Empty
    <3>5. QED
      BY <1>2, <2>8, <3>4 DEF Established
  <2>9. CASE a \in run.work /\ StructureReduced(a) /\ ledger'[a].status = "externally_reduced"
    <3>1. ledger[a].status \in Established
      BY <2>9 DEF StructureReduced, Judging, Judgable, StructurePcs
    <3>2. QED
      BY <1>2, <1>3, <2>9, <3>1 DEF Owning, Established
  <2>10. CASE MarkClosing /\ a = run.current /\ ledger'[a].status = "closing"
    <3>1. ledger[a].status \in Established
      BY <2>10 DEF MarkClosing, Judgable
    <3>2. QED
      BY <1>2, <1>3, <2>10, <3>1 DEF Owning, Established
  <2>11. ledger'[a].status = "closed" => ledger'[a].status \notin Established
    BY DEF Established
  <2>12. QED
    BY <1>1, <1>2, <2>1, <2>2, <2>3, <2>4, <2>5, <2>6, <2>7, <2>8, <2>9, <2>10, <2>11
       DEF RowChange, IngestFills, Reconcile
<1>6. QED
  BY <1>4, <1>5

\* The row of a working entry stays open.
LEMMA WatchedLater ==
  ASSUME TypeInv, Calm, Followed, Parented, Judgable, Kept, run.pc \in After, [Next]_vars
  PROVE  Watched'
<1> SUFFICES ASSUME NEW w \in Placed', IsEntry(w)', Working(w)'
             PROVE  \/ ledger'[w].status \in OpenAtBroker \/ InFlight(w)'
                    \/ \A l \in Legs : position'[Of(w)'][l] > 0
  BY DEF Watched
<1>1. run.pc # "idle" /\ run.pc \notin {"ingest", "reconcile"}
  BY DEF After, Before
<1>2. CASE w \notin Placed
  <2>1. PICK r \in Request : Submits(r)
    BY <1>2, SubmissionsAreChecked DEF Placed
  <2>2. QED
    BY <1>2, <2>1, NewOrderLeft DEF Submits, InFlight
<1>3. CASE w \in Placed
  <2>1. /\ IsEntry(w) /\ Working(w) /\ Of(w)' = Of(w) /\ w \in Orders /\ position' = position
    BY <1>1, <1>3, CycleStandsStill, RequestFields
  <2>2. CASE \A l \in Legs : position[Of(w)][l] > 0
    BY <2>1, <2>2
  <2>3. CASE InFlight(w)
    <3>1. ~FailClosed /\ ~Crash
      BY <2>3 DEF FailClosed, Crash, InFlight, InFlightPcs, Calm
    <3>2. \/ run' = run /\ UNCHANGED placed
          \/ ledger'[w].status = "new"
      BY <2>3, <3>1, FlightEnds DEF InFlight
    <3>3. QED
      BY <2>3, <3>2 DEF InFlight, OpenAtBroker
  <2>4. CASE ledger[w].status \in OpenAtBroker /\ ledger'[w].status = ledger[w].status
    BY <2>4
  <2>5. CASE ledger[w].status \in OpenAtBroker /\ ledger'[w].status # ledger[w].status
    <3>1. RowChange(w) /\ ledger[w].status \notin Established \cup {"closed"}
      BY <2>1, <2>5, RowsChange DEF OpenAtBroker, Established
    <3>2. w \notin FilledCloseParents
      BY <3>1 DEF FilledCloseParents, OpenManaged
    <3>3. ~EndedRow(w)
      BY <2>1 DEF EndedRow, PollEntryTerminal, Working, Terminal, OpenAtBroker
    <3>4. ~PollCloseCanceled(w)
      BY <2>1 DEF PollCloseCanceled
    <3>5. ASSUME NEW k \in run.work, SoldRow(k, w) PROVE FALSE
      BY <2>1, <3>1, <3>5 DEF SoldRow, PollCloseFilled, ParentCloses
    <3>6. CancelAccepted => w # run.current
      <4>1. CancelAccepted => broker'[run.current].status = "canceled"
        BY AcceptedSteps DEF Calm
      <4>2. QED
        BY <4>1 DEF Working, OpenAtBroker
    <3>7. w \in run.work => ~StructureFlat(w) /\ ~StructureReduced(w)
      BY <3>1 DEF StructureFlat, StructureReduced, Judging, Judgable, StructurePcs
    <3>8. MarkClosing => w # run.current
      BY <3>1 DEF MarkClosing, Judgable
    <3>9. ledger'[w].status = "new"
      BY <1>1, <3>1, <3>2, <3>3, <3>4, <3>5, <3>6, <3>7, <3>8 DEF RowChange, IngestFills, Reconcile
    <3>10. QED
      BY <3>9 DEF OpenAtBroker
  <2>6. QED
    BY <1>3, <2>1, <2>2, <2>3, <2>4, <2>5 DEF Kept, Watched
<1>4. QED
  BY <1>2, <1>3

\* Both, over every step of a cycle.
LEMMA KeptStep ==
  ASSUME TypeInv, Calm, Recorded, Unfinished, Parented, Sourced, Reviewed, Listed, Followed, Traced,
         Pictured, Settled, Judgable, Marked, Kept, \A c \in Candidates : Market(c), [Next]_vars
  PROVE  Kept'
<1>1. CASE Reconcile
  BY <1>1, KeptAtStart DEF Kept
<1>2. CASE UNCHANGED vars
  BY <1>2 DEF Kept, Anchored, Watched, Whole, First, Filled, Empty, Working, IsEntry, Of, Left,
     InFlight, Placed, vars
<1>3. CASE ~Reconcile /\ ~UNCHANGED vars
  <2>1. run'.pc # "start"
    BY <1>3, ComesFrom
  <2>2. ASSUME run'.pc \in After PROVE run.pc \in After
    <3>1. run'.pc # "idle" /\ run'.pc \notin Before
      BY <2>2 DEF After, Before
    <3>2. ~(\E m \in Modes : BeginCycle(m))
      BY <3>1, BeginLocals DEF Before
    <3>3. ~(\E S \in SUBSET Reads : Read(S))
      BY <3>1, ReadLocals DEF Before
    <3>4. run.pc \notin Before
      BY <1>3, <3>1, <3>2, <3>3, LocalsKept
    <3>5. QED
      BY <3>4 DEF After, TypeInv, TypeOK, Run
  <2>3. QED
    BY <2>1, <2>2, AnchoredLater, WatchedLater DEF Kept
<1>4. QED
  BY <1>1, <1>2, <1>3

(***************************************************************************)
(* The bounds hold at every step.                                          *)
(***************************************************************************)
\* A new order of another candidate.
LEMMA OtherPlaced ==
  ASSUME TypeInv, NEW r \in Request, Accept(r), run'.pc # "replace", NEW c \in Candidates,
         c # r.candidate, Market(c)
  PROVE  Market(c)'
<1>1. \A o \in Buyers(c)' : o \in Buyers(c)
  BY NewOrderLeft DEF Buyers, Buying
<1>2. \A o \in Placed : broker'[o] = broker[o]
  BY NewOrderLeft
<1>3. QED
  BY <1>1, <1>2, MarketKept, NewOrderLeft

\* The broker keeps the bounds when it fills, cancels or assigns.
LEMMA MarketMoves ==
  ASSUME TypeInv, Calm, Sourced, NEW c \in Candidates, Market(c), BrokerNext
  PROVE  Market(c)'
<1>1. /\ run' = run /\ run.pc = "idle" /\ UNCHANGED <<placed, request>> /\ Placed' = Placed
      /\ \A o \in Placed : o \in Orders /\ Of(o) \in Candidates
  BY MarketSteps, RequestFields DEF Calm, Placed
<1>2. \A o \in Placed : (Working(o)' => Working(o)) => (o \in Buyers(c)' => o \in Buyers(c))
  BY <1>1 DEF Buyers, Buying, IsEntry, Of
<1>3. ASSUME NEW o \in Placed, Lapse(o) PROVE Market(c)'
  <2>1. broker' = [broker EXCEPT ![o].status = "canceled"] /\ position' = position
        /\ broker \in [Orders -> BrokerRecord] /\ o \in Orders
    BY <1>1, <1>3 DEF Lapse, TypeInv, TypeOK
  <2>2. \A p \in Placed : broker'[p].filled = broker[p].filled /\ (Working(p)' => Working(p))
    BY <1>1, <2>1 DEF BrokerRecord, Working, OpenAtBroker
  <2>3. Buyers(c)' \subseteq Buyers(c)
    BY <1>1, <1>2, <2>2 DEF Buyers
  <2>4. QED
    BY <1>1, <2>1, <2>2, <2>3, MarketKept
<1>4. ASSUME NEW o \in Placed, NEW k \in 1..MaxQty, Fill(o, k) PROVE Market(c)'
  <2>1. CASE Of(o) = c /\ IsEntry(o)
    <3>1. ASSUME Filled(c) = {}, NEW l \in Legs PROVE position[c][l] = 0
      <4>1. ~(position[c][l] > 0)
        BY <3>1 DEF Sourced, Filled
      <4>2. QED
        BY <4>1, MarketTypes
    <3>2. QED
      BY <1>4, <2>1, <3>1, EntryFills
  <2>2. CASE Of(o) = c /\ ~IsEntry(o)
    BY <1>4, <2>2, CloseFills
  <2>3. CASE Of(o) # c
    <3>1. \A p \in Placed : Of(p) = c => broker'[p] = broker[p]
      BY <1>4, <2>3, FillMoves
    <3>2. Buyers(c)' \subseteq Buyers(c)
      BY <1>1, <3>1 DEF Buyers, Buying, Working, IsEntry, Of
    <3>3. position'[c] = position[c]
      BY <1>1, <1>4, <2>3, FillMoves
    <3>4. QED
      BY <1>1, <3>1, <3>2, <3>3, MarketKept
  <2>4. QED
    BY <2>1, <2>2, <2>3
<1>5. ASSUME NEW d \in Candidates, NEW x \in Legs, Reduce(d, x) PROVE Market(c)'
  <2>1. CASE d = c
    <3>1. "reduction" \in Faults
      BY <1>5 DEF Reduce
    <3>2. \A l, m \in Legs : l = m
      BY <3>1 DEF Calm
    <3>3. QED
      BY <1>5, <2>1, <3>2, ReductionFits
  <2>2. CASE d # c
    <3>1. broker' = broker /\ position'[c] = position[c]
      BY <1>5, <2>2 DEF Reduce, TypeInv, TypeOK
    <3>2. Buyers(c)' \subseteq Buyers(c)
      BY <1>1, <3>1 DEF Buyers, Buying, Working, IsEntry, Of
    <3>3. QED
      BY <1>1, <3>1, <3>2, MarketKept
  <2>3. QED
    BY <2>1, <2>2
<1>6. QED
  BY <1>3, <1>4, <1>5 DEF BrokerNext

\* Submissions of the candidate itself.
LEMMA ReplacementFits ==
  ASSUME TypeInv, Parented, Resting, PlaceReplacement, NEW c, c = Of(run.current), Market(c)
  PROVE  Market(c)'
<1> DEFINE o == run.current
           r == Replacement(o)
<1>1. /\ run.pc = "replace" /\ run'.pc = "persist" /\ o \in Placed
      /\ r \in Request /\ Accept(r) /\ ledger[o].remaining = Left(o) /\ ~Working(o)
  BY ReplaceSteps DEF Resting
<1>2. /\ r.candidate = c /\ r.closing = request[o].closing /\ r.parent = request[o].parent
      /\ r.quantity = Left(o)
  <2>1. request[o] \in Request
    BY <1>1, RequestFields
  <2>2. QED
    BY <1>1, <2>1 DEF Replacement, Request, Of
<1>3. o \in Placed
  BY <1>1
<1> HIDE DEF r
<1>4. CASE IsEntry(o)
  <2>1. o \in Buyers(c) /\ ~r.closing
    BY <1>1, <1>2, <1>4 DEF Buyers, Buying, IsEntry
  <2>2. QED
    BY <1>1, <1>2, <2>1, EntryReplaced
<1>5. CASE ~IsEntry(o)
  <2>1. o \in Closes(c) /\ Filled(c) # {} /\ r.closing
    BY <1>1, <1>2, <1>5 DEF Closes, Market, IsEntry
  <2>2. ASSUME First(c, request[o].parent)
        PROVE  /\ request[o].parent \notin Buyers(c)
               /\ Left(request[o].parent) = 0 => \A l \in Legs : position[c][l] <= r.quantity
    BY <1>2, <2>1, <2>2 DEF Market, SellsOut
  <2>3. QED
    BY <1>1, <1>2, <2>1, <2>2, ClosePlaced
<1>6. QED
  BY <1>4, <1>5

\* A close asks for no more than its structure holds.
LEMMA CloseFits ==
  ASSUME TypeInv, Sourced, Pictured, Judgable, Kept, NEW o \in run.work, PlaceClose(o),
         NEW c, c = Of(o), Market(c)
  PROVE  Market(c)'
<1> DEFINE r == CloseRequest(o)
           held == {run.snap.position[Of(o)][l] : l \in Legs}
<1>1. /\ run.pc = "structures" /\ run'.pc = "persist_close" /\ o \in Placed
      /\ r \in Request /\ Accept(r) /\ c \in Candidates
  BY CloseSteps, RequestFields
<1>2. /\ run.snap.position = position /\ \A l \in Legs : position[c][l] > 0
      /\ \A l \in Legs : position[c][l] \in Nat
  BY <1>1, MarketTypes DEF Pictured, PlaceClose, Judging, Present
<1>3. Filled(c) # {}
  <2>1. PICK l \in Legs : TRUE
    BY ConstantsAssumption
  <2>2. QED
    BY <1>1, <1>2, <2>1 DEF Sourced, Filled
<1>4. r.candidate = c /\ r.closing /\ r.parent = o /\ r.quantity = Smaller(request[o].quantity, Min(held))
  BY DEF CloseRequest
<1>5. \A l \in Legs : Min(held) = position[c][l]
  <2>1. held \in SUBSET Nat /\ held # {}
    BY <1>2, ConstantsAssumption
  <2>2. Min(held) \in held
    BY <2>1, MinIsElement
  <2>3. QED
    BY <1>2, <2>2 DEF Market
<1> HIDE DEF r, held
<1>6. ASSUME First(c, o)
      PROVE  /\ o \notin Buyers(c)
             /\ \A l \in Legs : position[c][l] <= r.quantity
  <2>1. ledger[o].status \in Established /\ run.pc \in After
    BY <1>1 DEF Judgable, StructurePcs, After, Pcs, Before
  <2>2. ~Working(o)
    BY <1>1, <1>6, <2>1 DEF Kept, Anchored
  <2>3. \A l \in Legs : position[c][l] + 0 + 0 <= request[o].quantity
    BY <1>1, <1>6 DEF Market, Fits, ToBuy, Sold
  <2>4. \A l \in Legs : position[c][l] <= request[o].quantity
    BY <1>2, <2>3
  <2>5. QED
    BY <1>1, <1>2, <1>4, <1>5, <2>2, <2>4 DEF Buyers, Buying, Smaller
<1>7. QED
  BY <1>1, <1>3, <1>4, <1>6, ClosePlaced

\* An entry of a candidate comes after everything of it has ended unfilled.
LEMMA EntryFits ==
  ASSUME TypeInv, Calm, Occupied, NEW c \in Candidates, NEW q \in 1..MaxQty, PlaceEntry(c, q), Market(c)
  PROVE  Market(c)'
<1>0. run.mode.window = "ordinary"
  BY DEF TypeInv, TypeOK, Run, Mode, Calm
<1>1. /\ run.pc = "decide" /\ run'.pc = "persist_entry" /\ ~Busy(c)
      /\ EntryRequest(c, q) \in Request /\ Accept(EntryRequest(c, q))
      /\ EntryRequest(c, q).candidate = c /\ ~EntryRequest(c, q).closing
  BY <1>0, EntrySteps DEF PlaceEntry, EntryApproved, Admitted, Busy, EntryRequest
<1>2. \A o \in Placed : IsEntry(o) /\ Of(o) = c => Spent(o)
  BY <1>1 DEF Occupied, Before
<1>3. Filled(c) = {} /\ Buyers(c) = {}
  BY <1>1, <1>2 DEF Filled, Buyers, Buying, Working, Spent, Terminal, OpenAtBroker
<1>4. QED
  BY <1>1, <1>3, EntryPlaced

\* Every step of the broker and the worker keeps the bounds.
LEMMA MarketStep ==
  ASSUME TypeInv, Calm, Sourced, Occupied, Parented, Followed, Resting, Pictured, Judgable, Kept,
         \A c \in Candidates : Market(c), [Next]_vars
  PROVE  \A c \in Candidates : Market(c)'
<1> SUFFICES ASSUME NEW c \in Candidates PROVE Market(c)'
  OBVIOUS
<1>0. Market(c)
  OBVIOUS
<1>1. CASE BrokerNext
  BY <1>1, MarketMoves
<1>2. CASE CancelAccepted
  <2>1. /\ Placed' = Placed /\ request' = request /\ position' = position
        /\ \A o \in Placed : broker'[o].filled = broker[o].filled
        /\ \A o \in Placed : Working(o)' => Working(o)
        /\ run'.pc = "replace" => run'.current = run.current
        /\ Working(run.current)
    <3>1. \A o \in Placed : Working(o)' => Working(o)
      BY BrokerMoved DEF Working
    <3>2. QED
      BY <1>2, <3>1, AcceptedSteps, RequestFields DEF Placed, Followed
  <2>2. \A o \in Buyers(c)' : o \in Buyers(c)
    BY <2>1 DEF Buyers, Buying, IsEntry, Of
  <2>3. QED
    BY <2>1, <2>2, MarketKept
<1>3. CASE PlaceReplacement
  <2>1. CASE c = Of(run.current)
    BY <1>3, <2>1, ReplacementFits
  <2>2. CASE c # Of(run.current)
    <3>1. Replacement(run.current).candidate = Of(run.current)
      <4>1. request[run.current] \in Request
        BY <1>3, ReplaceSteps, RequestFields
      <4>2. QED
        BY <4>1 DEF Replacement, Request, Of
    <3>2. QED
      BY <1>3, <2>2, <3>1, ReplaceSteps, OtherPlaced
  <2>3. QED
    BY <2>1, <2>2
<1>4. ASSUME NEW o \in run.work, PlaceClose(o) PROVE Market(c)'
  <2>1. CASE c = Of(o)
    BY <1>4, <2>1, CloseFits
  <2>2. CASE c # Of(o)
    <3>1. CloseRequest(o).candidate = Of(o)
      BY DEF CloseRequest
    <3>2. QED
      BY <1>4, <2>2, <3>1, CloseSteps, OtherPlaced
  <2>3. QED
    BY <2>1, <2>2
<1>5. ASSUME NEW d \in Candidates, NEW q \in 1..MaxQty, PlaceEntry(d, q) PROVE Market(c)'
  <2>1. CASE c = d
    BY <1>5, <2>1, EntryFits
  <2>2. CASE c # d
    <3>1. EntryRequest(d, q).candidate = d
      BY DEF EntryRequest
    <3>2. QED
      BY <1>5, <2>2, <3>1, EntrySteps, OtherPlaced
  <2>3. QED
    BY <2>1, <2>2
<1>6. CASE Quiet /\ (run'.pc # "replace" \/ UNCHANGED <<run, ledger>>)
  <2>1. Buyers(c)' \subseteq Buyers(c)
    BY <1>6 DEF Quiet, Buyers, Buying, Working, IsEntry, Of, Placed
  <2>2. QED
    BY <1>6, <2>1, MarketKept DEF Quiet, Placed
<1>7. QED
  BY <1>1, <1>2, <1>3, <1>4, <1>5, <1>6, CycleSteps

(***************************************************************************)
(* Between cycles the rows cover what is held.                             *)
(***************************************************************************)
\* Between cycles one row covers what a candidate holds and may still buy, unless
\* that is nothing.
CoveredBy(c, o) == \A l \in Legs, n \in ToBuy(c) : position[c][l] + n <= request[o].quantity
Nothing(c)      == Buyers(c) = {} /\ Empty(c)
Covered ==
  run.pc = "idle" => \A c \in Candidates : Nothing(c) \/ \E o \in Exposed(c) : CoveredBy(c, o)

\* Among the entries that filled there is a first.
LEMMA FirstExists ==
  ASSUME TypeInv, NEW c, Filled(c) # {}
  PROVE  \E a \in Placed : First(c, a)
<1>1. Filled(c) \subseteq Placed /\ Filled(c) \subseteq Nat
  BY MarketTypes DEF Filled
<1>2. QED
  BY <1>1, LeastNatural DEF First

\* The owner of what is held: the first entry that filled.
LEMMA OwnerOf ==
  ASSUME TypeInv, Sourced, Anchored, NEW c \in Candidates, Market(c), ~Empty(c)
  PROVE  \E a \in Placed : /\ IsEntry(a) /\ Of(a) = c /\ ledger[a].status \in Owning
                           /\ CoveredBy(c, a)
<1>1. Filled(c) # {}
  <2>1. PICK l \in Legs : position[c][l] # 0
    BY DEF Empty
  <2>2. position[c][l] > 0
    BY <2>1, MarketTypes
  <2>3. QED
    BY <2>2 DEF Sourced, Filled
<1>2. PICK a \in Placed : First(c, a)
  BY <1>1, FirstExists
<1>3. IsEntry(a) /\ Of(a) = c /\ ledger[a].status \in Owning /\ Fits(c, a)
  BY <1>2 DEF First, Filled, Anchored, Market
<1>4. ASSUME NEW l \in Legs, NEW n \in ToBuy(c) PROVE position[c][l] + n <= request[a].quantity
  <2>1. position[c][l] + n + 0 <= request[a].quantity
    BY <1>3 DEF Fits, Sold
  <2>2. n \in Nat /\ position[c][l] \in Nat
    BY MarketTypes DEF ToBuy, Buyers
  <2>3. QED
    BY <2>1, <2>2
<1>5. QED
  BY <1>3, <1>4 DEF CoveredBy

\* At the end of a cycle the rows cover what is held and still bought.
LEMMA CoveredAtEnd ==
  ASSUME TypeInv, Sourced, Anchored, Watched, \A c \in Candidates : Market(c), run.pc = "idle"
  PROVE  Covered
<1> SUFFICES ASSUME NEW c \in Candidates, ~Nothing(c) PROVE \E o \in Exposed(c) : CoveredBy(c, o)
  BY DEF Covered
<1>1. CASE ~Empty(c)
  <2>1. PICK a \in Placed : IsEntry(a) /\ Of(a) = c /\ ledger[a].status \in Owning /\ CoveredBy(c, a)
    BY <1>1, OwnerOf
  <2>2. QED
    BY <2>1 DEF Exposed, Owning
<1>2. CASE Empty(c)
  <2>1. PICK w : w \in Buyers(c)
    BY <1>2 DEF Nothing
  <2>2. w \in Placed /\ IsEntry(w) /\ Of(w) = c /\ Working(w) /\ ~InFlight(w)
    BY <2>1 DEF Buyers, Buying, InFlight, InFlightPcs
  <2>3. PICK l \in Legs : TRUE
    BY ConstantsAssumption
  <2>4. ledger[w].status \in OpenAtBroker
    BY <1>2, <2>2, <2>3 DEF Watched, Empty
  <2>5. w \in Exposed(c)
    BY <2>2, <2>4 DEF Exposed
  <2>6. ASSUME NEW n \in ToBuy(c) PROVE n <= request[w].quantity
    <3>1. \A v \in Buyers(c) : v = w
      BY <2>1 DEF Market
    <3>2. n = 0 \/ n = Left(w)
      BY <3>1 DEF ToBuy
    <3>3. broker[w].filled \in Nat /\ request[w].quantity \in Nat
      BY <2>2, MarketTypes
    <3>4. QED
      BY <3>2, <3>3 DEF Left
  <2>7. \A n \in ToBuy(c) : n \in Nat
    BY MarketTypes DEF ToBuy, Buyers
  <2>8. request[w].quantity \in Nat
    BY <2>2, MarketTypes
  <2>9. QED
    BY <1>2, <2>5, <2>6, <2>7, <2>8 DEF CoveredBy, Empty
<1>3. QED
  BY <1>1, <1>2

\* The same of the state a step leads to.
LEMMA CoveredAtEndNext ==
  (TypeInv /\ Sourced /\ Anchored /\ Watched /\ (\A c \in Candidates : Market(c)) /\ run.pc = "idle")'
    => Covered'
<1>1. TypeInv /\ Sourced /\ Anchored /\ Watched /\ (\A c \in Candidates : Market(c)) /\ run.pc = "idle"
        => Covered
  BY CoveredAtEnd
<1>2. QED
  BY <1>1, PTL

\* Where less is held and nobody starts to buy, the row still covers it.
LEMMA CoverKept ==
  ASSUME TypeInv, TypeInv', NEW c \in Candidates, UNCHANGED <<placed, request, ledger>>,
         ToBuy(c)' \subseteq ToBuy(c), Buyers(c)' \subseteq Buyers(c),
         \A l \in Legs : position'[c][l] <= position[c][l],
         Nothing(c) \/ \E o \in Exposed(c) : CoveredBy(c, o)
  PROVE  (Nothing(c) \/ \E o \in Exposed(c) : CoveredBy(c, o))'
<1>1. \A l \in Legs : position[c][l] \in Nat /\ position'[c][l] \in Nat
  BY DEF TypeInv, TypeOK
<1>2. Exposed(c)' = Exposed(c)
  BY DEF Exposed, Placed, IsEntry, Of
<1>3. CASE Nothing(c)
  BY <1>1, <1>3 DEF Nothing, Empty
<1>4. ASSUME NEW o \in Exposed(c), CoveredBy(c, o) PROVE CoveredBy(c, o)'
  <2>1. ASSUME NEW l \in Legs, NEW n \in ToBuy(c)' PROVE position'[c][l] + n <= request[o].quantity
    <3>1. position[c][l] + n <= request[o].quantity
      BY <1>4 DEF CoveredBy
    <3>2. n \in Nat /\ request[o].quantity \in Nat
      BY MarketTypes DEF ToBuy, Buyers, Exposed
    <3>3. QED
      BY <1>1, <3>1, <3>2
  <2>2. QED
    BY <2>1 DEF CoveredBy
<1>5. QED
  BY <1>2, <1>3, <1>4

\* The moves of the broker between cycles stay covered.
LEMMA CoverMoves ==
  ASSUME TypeInv, TypeInv', Calm, NEW c \in Candidates, Market(c), BrokerNext,
         Nothing(c) \/ \E o \in Exposed(c) : CoveredBy(c, o)
  PROVE  (Nothing(c) \/ \E o \in Exposed(c) : CoveredBy(c, o))'
<1>1. /\ run' = run /\ run.pc = "idle" /\ UNCHANGED <<placed, request, ledger>> /\ Placed' = Placed
      /\ \A o \in Placed : o \in Orders /\ Of(o) \in Candidates
      /\ \A l \in Legs : position[c][l] \in Nat
  BY MarketSteps, RequestFields, MarketTypes DEF Calm, Placed
<1>2. ASSUME \A o \in Placed : Of(o) = c =>
                /\ (Working(o)' => Working(o))
                /\ (IsEntry(o) => broker'[o].filled = broker[o].filled)
      PROVE  Buyers(c)' \subseteq Buyers(c) /\ ToBuy(c)' \subseteq ToBuy(c)
  <2>1. Buyers(c)' \subseteq Buyers(c)
    BY <1>1, <1>2 DEF Buyers, Buying, IsEntry, Of
  <2>2. \A w \in Buyers(c)' : Left(w)' = Left(w)
    BY <1>1, <1>2 DEF Buyers, IsEntry, Of, Left
  <2>3. QED
    BY <2>1, <2>2 DEF ToBuy
<1>3. ASSUME NEW o \in Placed, Lapse(o) PROVE (Nothing(c) \/ \E p \in Exposed(c) : CoveredBy(c, p))'
  <2>1. broker' = [broker EXCEPT ![o].status = "canceled"] /\ position' = position
        /\ broker \in [Orders -> BrokerRecord] /\ o \in Orders
    BY <1>1, <1>3 DEF Lapse, TypeInv, TypeOK
  <2>2. \A p \in Placed : broker'[p].filled = broker[p].filled /\ (Working(p)' => Working(p))
    BY <1>1, <2>1 DEF BrokerRecord, Working, OpenAtBroker
  <2>3. Buyers(c)' \subseteq Buyers(c) /\ ToBuy(c)' \subseteq ToBuy(c)
    BY <1>2, <2>2
  <2>4. QED
    BY <1>1, <2>1, <2>3, CoverKept
<1>4. ASSUME NEW o \in Placed, NEW k \in 1..MaxQty, Fill(o, k)
      PROVE  (Nothing(c) \/ \E p \in Exposed(c) : CoveredBy(c, p))'
  <2>1. CASE Of(o) = c /\ IsEntry(o)
    <3>1. o \in Buyers(c) /\ \A w \in Buyers(c) : w = o
      BY <1>4, <2>1, FillMoves DEF Buyers, Buying, Market
    <3>2. PICK e \in Exposed(c) : CoveredBy(c, e)
      BY <3>1 DEF Nothing
    <3>3. \A w \in Buyers(c)' : w = o
      <4>1. \A p \in Placed : p # o => broker'[p] = broker[p]
        BY <1>4, FillMoves
      <4>2. QED
        BY <1>1, <3>1, <4>1 DEF Buyers, Buying, Working, IsEntry, Of
    <3>4. ASSUME NEW l \in Legs, NEW n \in ToBuy(c)' PROVE position'[c][l] + n <= request'[e].quantity
      <4>1. position[c][l] + Left(o) <= request[e].quantity
        BY <3>1, <3>2 DEF CoveredBy, ToBuy
      <4>2. n = 0 \/ n = Left(o) - k
        BY <1>4, <3>3, FillMoves DEF ToBuy
      <4>3. position'[c][l] = position[c][l] + k /\ k <= Left(o) /\ k \in Nat /\ Left(o) \in Nat
        BY <1>4, <2>1, FillMoves, MarketTypes
      <4>4. request'[e].quantity = request[e].quantity /\ request[e].quantity \in Nat
        BY <1>1, MarketTypes DEF Exposed
      <4>5. QED
        BY <1>1, <4>1, <4>2, <4>3, <4>4
    <3>5. e \in Exposed(c)'
      BY <1>1, <3>2 DEF Exposed, IsEntry, Of
    <3>6. QED
      BY <3>4, <3>5 DEF CoveredBy
  <2>2. CASE ~(Of(o) = c /\ IsEntry(o))
    <3>1. \A p \in Placed : Of(p) = c =>
                /\ (Working(p)' => Working(p))
                /\ (IsEntry(p) => broker'[p].filled = broker[p].filled)
      BY <1>4, <2>2, FillMoves DEF Working
    <3>2. Buyers(c)' \subseteq Buyers(c) /\ ToBuy(c)' \subseteq ToBuy(c)
      BY <1>2, <3>1
    <3>3. \A l \in Legs : position'[c][l] <= position[c][l]
      BY <1>1, <1>4, <2>2, FillMoves
    <3>4. QED
      BY <1>1, <3>2, <3>3, CoverKept
  <2>3. QED
    BY <2>1, <2>2
<1>5. ASSUME NEW d \in Candidates, NEW x \in Legs, Reduce(d, x)
      PROVE  (Nothing(c) \/ \E p \in Exposed(c) : CoveredBy(c, p))'
  <2>1. broker' = broker /\ \A l \in Legs : position'[c][l] <= position[c][l]
    BY <1>1, <1>5 DEF Reduce, TypeInv, TypeOK
  <2>2. Buyers(c)' \subseteq Buyers(c) /\ ToBuy(c)' \subseteq ToBuy(c)
    BY <1>2, <2>1 DEF Working
  <2>3. QED
    BY <1>1, <2>1, <2>2, CoverKept
<1>6. QED
  BY <1>3, <1>4, <1>5 DEF BrokerNext

\* A cycle ends covered, and its end lasts until the next begins.
LEMMA CoveredStep ==
  ASSUME TypeInv, TypeInv', Calm, Followed, Covered, \A c \in Candidates : Market(c), [Next]_vars,
         run.pc \in After => Anchored' /\ Watched',
         Sourced', \A c \in Candidates : Market(c)'
  PROVE  Covered'
<1> SUFFICES ASSUME run'.pc = "idle" PROVE Covered'
  BY DEF Covered
<1>1. ~FailClosed
  BY DEF FailClosed, Calm, Followed, Working, Terminal, OpenAtBroker
<1>2. CASE PersistEntry \/ Abstain
  <2>1. run.pc \in After
    BY <1>2 DEF PersistEntry, Abstain, After, Pcs, Before
  <2>2. QED
    BY <2>1, CoveredAtEndNext
<1>3. CASE run.pc = "idle" /\ UNCHANGED ledger
  <2>1. ASSUME NEW c \in Candidates PROVE (Nothing(c) \/ \E o \in Exposed(c) : CoveredBy(c, o))'
    <3>1. Nothing(c) \/ \E o \in Exposed(c) : CoveredBy(c, o)
      BY <1>3 DEF Covered
    <3>2. CASE BrokerNext
      BY <3>1, <3>2, CoverMoves
    <3>3. CASE ~BrokerNext
      <4>1. Quiet
        BY <1>3, <3>3, CycleSteps, AcceptedSteps, ReplaceSteps, CloseSteps, EntrySteps
      <4>2. Buyers(c)' = Buyers(c) /\ \A o \in Placed : Left(o)' = Left(o)
        BY <1>3, <4>1 DEF Quiet, Buyers, Buying, Working, IsEntry, Of, Placed, Left
      <4>3. ToBuy(c)' = ToBuy(c)
        BY <4>2 DEF ToBuy, Buyers
      <4>4. \A l \in Legs : position'[c][l] <= position[c][l]
        <5>1. position' = position /\ \A l \in Legs : position[c][l] \in Nat
          BY <4>1, MarketTypes DEF Quiet
        <5>2. QED
          BY <5>1
      <4>5. QED
        BY <1>3, <3>1, <4>1, <4>2, <4>3, <4>4, CoverKept DEF Quiet
    <3>4. QED
      BY <3>2, <3>3
  <2>2. QED
    BY <2>1 DEF Covered
<1>4. QED
  BY <1>1, <1>2, <1>3, ComesFrom

(***************************************************************************)
(* The theorems.                                                           *)
(***************************************************************************)
Traceable == Traced /\ Pictured /\ Resting /\ Rowless /\ Settled /\ Judgable /\ Marked
Covering  == Kept /\ (\A c \in Candidates : Market(c)) /\ Covered
OwnerInv  == Tracked /\ Grounded /\ Explained /\ Traceable /\ Covering

\* Nothing is held at the start.
LEMMA OwnerInit == Init => OwnerInv
<1> SUFFICES ASSUME Init PROVE OwnerInv
  OBVIOUS
<1>1. /\ Placed = {} /\ run.pc = "idle" /\ run.snap.open = {}
      /\ \A o \in Orders : /\ broker[o].status = "new" /\ broker[o].filled = 0
                           /\ fills[o] = {} /\ ledger[o].status = "none"
      /\ \A c \in Candidates, l \in Legs : position[c][l] = 0
  BY DEF Init, Placed, Idle, Blank, NoRow, NoSnap, Flat
<1>2. Tracked /\ Grounded /\ Explained
  BY <1>1 DEF Tracked, Rooted, Listed, Matched, Followed, Grounded, Recorded, Unfinished, Parented,
     Explained, Sourced, Reviewed, Occupied, Before, OrderPcs, StructurePcs, Init, Idle
<1>3. Traceable
  BY <1>1 DEF Traceable, Traced, Pictured, Resting, Rowless, HasRow, Settled, Judgable, Marked,
     StructurePcs, OrderPcs
<1>4. ASSUME NEW c \in Candidates PROVE Market(c) /\ Nothing(c)
  <2>1. Buyers(c) = {} /\ Filled(c) = {} /\ Closes(c) = {}
    BY <1>1 DEF Buyers, Filled, Closes
  <2>2. Empty(c)
    BY <1>1, <1>4 DEF Empty
  <2>3. QED
    BY <1>1, <2>1, <2>2 DEF Market, Nothing, Empty
<1>5. Covering
  BY <1>1, <1>4 DEF Covering, Kept, Covered, After, Before
<1>6. QED
  BY <1>2, <1>3, <1>5 DEF OwnerInv

\* The invariant is inductive.
LEMMA OwnerStep ==
  ASSUME TypeInv, TypeInv', Accounted, Calm, OwnerInv, [Next]_vars
  PROVE  OwnerInv'
<1> USE DEF OwnerInv, Traceable, Covering, Grounded, Explained, Tracked
<1>1. /\ Faults \cap {"midcycle", "async_cancel"} = {} /\ Faults \cap {"crash", "error"} = {}
      /\ "torn_read" \notin Faults
  BY DEF Calm
<1>2. Tracked' /\ Grounded' /\ Explained'
  BY <1>1, TrackedStep, RecordedStep, UnfinishedStep, ParentedStep, SourcedStep, ReviewedStep,
     OccupiedStep
<1>3. Traced' /\ Pictured' /\ Resting' /\ Rowless'
  BY TracedStep, PicturedStep, RestingStep, RowlessStep
<1>4. Settled' /\ Judgable' /\ Marked'
  BY SettledStep, JudgableStep, MarkedStep
<1>5. Kept'
  BY KeptStep
<1>6. (\A c \in Candidates : Market(c))'
  BY MarketStep
<1>7. run.pc \in After => Anchored' /\ Watched'
  BY AnchoredLater, WatchedLater
<1>8. Covered'
  BY <1>2, <1>6, <1>7, CoveredStep
<1>9. QED
  BY <1>2, <1>3, <1>4, <1>5, <1>6, <1>8

\* The row that covers a candidate bounds what is held of it.
LEMMA OwnedBetweenCycles == TypeInv /\ Covered => ExposureIsOwned
<1> SUFFICES ASSUME TypeInv, Covered, run.pc = "idle", NEW c \in Candidates, NEW l \in Legs
             PROVE  position[c][l] <= Quantity(Exposed(c))
  BY DEF ExposureIsOwned
<1>1. Exposed(c) \in SUBSET Placed /\ position[c][l] \in Nat
  BY MarketTypes DEF Exposed
<1>2. Quantity(Exposed(c)) \in Nat /\ \A o \in Exposed(c) : request[o].quantity <= Quantity(Exposed(c))
  BY <1>1, Quantities
<1>3. CASE Nothing(c)
  BY <1>2, <1>3 DEF Nothing, Empty
<1>4. ASSUME NEW o \in Exposed(c), CoveredBy(c, o) PROVE position[c][l] <= Quantity(Exposed(c))
  <2>1. position[c][l] + 0 <= request[o].quantity
    BY <1>4 DEF CoveredBy, ToBuy
  <2>2. request[o].quantity \in Nat
    BY <1>1, MarketTypes
  <2>3. QED
    BY <1>1, <1>2, <2>1, <2>2
<1>5. QED
  BY <1>3, <1>4 DEF Covered

\* At the entry decision the first filled entry still owns what is held.
LEMMA OwnedAtDecision ==
  TypeInv /\ Sourced /\ Pictured /\ Kept /\ (\A c \in Candidates : Market(c))
    => UnexplainedExposureUnclean
<1> SUFFICES ASSUME TypeInv, Sourced, Pictured, Kept, \A c \in Candidates : Market(c),
                    run.pc = "decide", NEW c \in Candidates, NEW l \in Legs
             PROVE  run.snap.position[c][l] <= Quantity(Owned(c))
  BY DEF UnexplainedExposureUnclean
<1>1. Owned(c) \in SUBSET Placed /\ position[c][l] \in Nat /\ run.snap.position = position
  BY MarketTypes DEF Owned, Pictured
<1>2. Quantity(Owned(c)) \in Nat /\ \A o \in Owned(c) : request[o].quantity <= Quantity(Owned(c))
  BY <1>1, Quantities
<1>3. CASE Empty(c)
  BY <1>1, <1>2, <1>3 DEF Empty
<1>4. CASE ~Empty(c)
  <2>1. Anchored
    BY DEF Kept, After, Pcs, Before
  <2>2. PICK a \in Placed : IsEntry(a) /\ Of(a) = c /\ ledger[a].status \in Owning /\ CoveredBy(c, a)
    BY <1>4, <2>1, OwnerOf
  <2>3. a \in Owned(c) /\ position[c][l] + 0 <= request[a].quantity /\ request[a].quantity \in Nat
    BY <2>2, MarketTypes DEF Owned, Owning, CoveredBy, ToBuy
  <2>4. QED
    BY <1>1, <1>2, <2>3
<1>5. QED
  BY <1>3, <1>4

\* So it holds throughout.
LEMMA OwnersHold == ASSUME Calm PROVE Spec => [](TypeInv /\ OwnerInv)
<1>1. TypeInv /\ TypeInv' /\ Accounted /\ OwnerInv /\ [Next]_vars => OwnerInv'
  BY OwnerStep
<1>2. QED
  BY <1>1, OwnerInit, Inductive, PTL DEF Spec, IInv

\* Between cycles every contract held of a candidate belongs to an entry whose row
\* still counts as exposure, for every number of candidates, legs, contracts, orders
\* and cycles, through partial fills, cancels, replacements, closes, repeated
\* activities and reductions: no row is settled away from under a position
\* (persist_fills, reconcile_broker_state, _maintain_order_lifecycle).
THEOREM ExposureOwned ==
  ASSUME Calm
  PROVE  Spec => []ExposureIsOwned
<1>1. TypeInv /\ OwnerInv => ExposureIsOwned
  BY OwnedBetweenCycles DEF OwnerInv, Covering
<1>2. QED
  BY <1>1, OwnersHold, PTL

\* And when a cycle comes to its entry decision, an open or established row explains
\* every contract its positions snapshot shows (SPEC.md: halt new entries on any
\* unexplained mismatch).  A worker that dies before it stores an entry's row breaks
\* this, which the run order_unexplained shows.
THEOREM UnexplainedIsUnclean ==
  ASSUME Calm
  PROVE  Spec => []UnexplainedExposureUnclean
<1>1. TypeInv /\ OwnerInv => UnexplainedExposureUnclean
  BY OwnedAtDecision DEF OwnerInv, Explained, Traceable, Covering
<1>2. QED
  BY <1>1, OwnersHold, PTL
================================================================================
