----------------------------- MODULE LedgerProofs -----------------------------
(***************************************************************************)
(* That the ledger of an order, as Hub runs it, books once and balances,   *)
(* for every order, chart of accounts and set of requests.                 *)
(***************************************************************************)
EXTENDS Hub, SumProofs

-----------------------------------------------------------------------------
(* What legs debit and credit.                                             *)

Names == {"cash", "revenue", "vat", "coupon", "loyalty", "delivery", "clearing", "logistics",
          "commission", "vat input"}
Leg == [account : Names, debit : Nat, credit : Nat]

\* Legs, with what they debit and credit.
Adds(legs, debit, credit) ==
    legs \in Seq(Leg) /\ Le!Debits(legs) = debit /\ Le!Credits(legs) = credit

LEMMA LedgerSums == \A w, S : Le!SumFunctionOnSet(w, S) = SumFunctionOnSet(w, S)
<1> SUFFICES ASSUME NEW w, NEW S PROVE Le!SumFunctionOnSet(w, S) = SumFunctionOnSet(w, S)
  OBVIOUS
<1>1. Le!SumFunctionOnSet(w, S) = Sums(w, S)[S]
  BY DEF Le!SumFunctionOnSet, Le!FoldFunctionOnSet, Le!MapThenFoldSet, Sums, Step, Any
<1>2. QED
  BY <1>1, SumIs

LEMMA SidesAre ==
    ASSUME NEW legs
    PROVE  /\ Le!Debits(legs) = SumFunction([i \in DOMAIN legs |-> legs[i].debit])
           /\ Le!Credits(legs) = SumFunction([i \in DOMAIN legs |-> legs[i].credit])
BY LedgerSums DEF Le!Debits, Le!Credits, Le!SumFunction, SumFunction

LEMMA NoLegs == Adds(<<>>, 0, 0)
<1>1. \A w : DOMAIN w = {} => SumFunction(w) = 0
  BY SumOfNone DEF SumFunction
<1>2. DOMAIN [i \in DOMAIN <<>> |-> <<>>[i].debit] = {}
      /\ DOMAIN [i \in DOMAIN <<>> |-> <<>>[i].credit] = {}
  OBVIOUS
<1>3. <<>> \in Seq(Leg)
  OBVIOUS
<1> QED
  BY <1>1, <1>2, <1>3, SidesAre DEF Adds

LEMMA OneLeg == \A leg \in Leg : Adds(<<leg>>, leg.debit, leg.credit)
<1> SUFFICES ASSUME NEW leg \in Leg PROVE Adds(<<leg>>, leg.debit, leg.credit)
  OBVIOUS
<1>1. /\ [i \in DOMAIN <<leg>> |-> <<leg>>[i].debit] = <<leg.debit>>
      /\ [i \in DOMAIN <<leg>> |-> <<leg>>[i].credit] = <<leg.credit>>
      /\ <<leg>> \in Seq(Leg)
  OBVIOUS
<1>2. leg.debit \in Int /\ leg.credit \in Int
  BY DEF Leg
<1>3. QED
  BY <1>1, <1>2, SidesAre, SumOfOne DEF Adds

\* Legs that follow each other add up.
LEMMA LegsAddUp ==
    ASSUME NEW s, NEW t, NEW a, NEW b, NEW c, NEW d, Adds(s, a, b), Adds(t, c, d)
    PROVE  /\ Adds(s \o t, a + c, b + d)
           /\ a \in Int /\ b \in Int /\ c \in Int /\ d \in Int
<1>1. s \in Seq(Leg) /\ t \in Seq(Leg) /\ s \o t \in Seq(Leg)
  BY DEF Adds
<1> DEFINE Ds(u) == [i \in DOMAIN u |-> u[i].debit]
           Cs(u) == [i \in DOMAIN u |-> u[i].credit]
<1>2. \A u \in Seq(Leg) : Ds(u) \in Seq(Int) /\ Cs(u) \in Seq(Int)
                          /\ Len(Ds(u)) = Len(u) /\ Len(Cs(u)) = Len(u)
  <2> TAKE u \in Seq(Leg)
  <2>1. \A leg \in Leg : leg.debit \in Int /\ leg.credit \in Int
    BY DEF Leg
  <2>2. DOMAIN u = 1..Len(u) /\ Len(u) \in Nat /\ \A i \in 1..Len(u) : u[i] \in Leg
    OBVIOUS
  <2>3. Ds(u) \in [1..Len(u) -> Int] /\ Cs(u) \in [1..Len(u) -> Int]
    BY <2>1, <2>2
  <2> HIDE DEF Ds, Cs
  <2>4. QED
    BY <2>2, <2>3, SMTT(30)
<1>3. Ds(s \o t) = Ds(s) \o Ds(t) /\ Cs(s \o t) = Cs(s) \o Cs(t)
  <2>1. DOMAIN (s \o t) = 1..(Len(s) + Len(t))
        /\ \A i \in 1..(Len(s) + Len(t)) : (s \o t)[i] = IF i <= Len(s) THEN s[i] ELSE t[i - Len(s)]
    BY <1>1
  <2>2. /\ DOMAIN s = 1..Len(s) /\ DOMAIN t = 1..Len(t) /\ Len(s) \in Nat /\ Len(t) \in Nat
    BY <1>1
  <2>3. /\ DOMAIN Ds(s) = 1..Len(s) /\ DOMAIN Ds(t) = 1..Len(t)
        /\ DOMAIN Cs(s) = 1..Len(s) /\ DOMAIN Cs(t) = 1..Len(t)
        /\ Ds(s \o t) = [i \in 1..(Len(s) + Len(t)) |-> (s \o t)[i].debit]
        /\ Cs(s \o t) = [i \in 1..(Len(s) + Len(t)) |-> (s \o t)[i].credit]
    BY <2>1, <2>2
  <2>4. \A i \in 1..Len(s) : Ds(s)[i] = s[i].debit /\ Cs(s)[i] = s[i].credit
    BY <2>2
  <2>5. \A i \in 1..Len(t) : Ds(t)[i] = t[i].debit /\ Cs(t)[i] = t[i].credit
    BY <2>2
  <2>6. /\ Ds(s) \in Seq(Int) /\ Ds(t) \in Seq(Int) /\ Cs(s) \in Seq(Int) /\ Cs(t) \in Seq(Int)
        /\ Len(Ds(s)) = Len(s) /\ Len(Ds(t)) = Len(t)
        /\ Len(Cs(s)) = Len(s) /\ Len(Cs(t)) = Len(t)
    BY <1>1, <1>2
  <2> HIDE DEF Ds, Cs
  <2>p. \A x, y \in Seq(Int) :
           x \o y = [i \in 1..(Len(x) + Len(y)) |-> IF i <= Len(x) THEN x[i] ELSE y[i - Len(x)]]
    BY ConcatIs
  <2>q. /\ Ds(s) \o Ds(t) = [i \in 1..(Len(Ds(s)) + Len(Ds(t))) |->
                 IF i <= Len(Ds(s)) THEN Ds(s)[i] ELSE Ds(t)[i - Len(Ds(s))]]
        /\ Cs(s) \o Cs(t) = [i \in 1..(Len(Cs(s)) + Len(Cs(t))) |->
                 IF i <= Len(Cs(s)) THEN Cs(s)[i] ELSE Cs(t)[i - Len(Cs(s))]]
    BY <2>6, <2>p
  <2>7. /\ Ds(s) \o Ds(t) = [i \in 1..(Len(s) + Len(t)) |->
                                IF i <= Len(s) THEN Ds(s)[i] ELSE Ds(t)[i - Len(s)]]
        /\ Cs(s) \o Cs(t) = [i \in 1..(Len(s) + Len(t)) |->
                                IF i <= Len(s) THEN Cs(s)[i] ELSE Cs(t)[i - Len(s)]]
    BY <2>6, <2>q
  <2>8. \A i \in 1..(Len(s) + Len(t)) :
           /\ (s \o t)[i].debit = IF i <= Len(s) THEN Ds(s)[i] ELSE Ds(t)[i - Len(s)]
           /\ (s \o t)[i].credit = IF i <= Len(s) THEN Cs(s)[i] ELSE Cs(t)[i - Len(s)]
    BY <2>1, <2>2, <2>4, <2>5
  <2>9. QED
    BY <2>3, <2>7, <2>8
<1>4. SumFunction(Ds(s) \o Ds(t)) = SumFunction(Ds(s)) + SumFunction(Ds(t))
      /\ SumFunction(Ds(s)) \in Int /\ SumFunction(Ds(t)) \in Int
  BY <1>1, <1>2, SumOfConcat
<1>5. SumFunction(Cs(s) \o Cs(t)) = SumFunction(Cs(s)) + SumFunction(Cs(t))
      /\ SumFunction(Cs(s)) \in Int /\ SumFunction(Cs(t)) \in Int
  BY <1>1, <1>2, SumOfConcat
<1>6. \A u : Le!Debits(u) = SumFunction(Ds(u)) /\ Le!Credits(u) = SumFunction(Cs(u))
  BY SidesAre
<1> HIDE DEF Ds, Cs
<1>7. QED
  BY <1>1, <1>3, <1>4, <1>5, <1>6 DEF Adds

-----------------------------------------------------------------------------
(* How often a kind is booked.                                             *)

\* One batch more is one booking more of its kind.
LEMMA OneBookingMore ==
    ASSUME NEW S, IsFiniteSet(S), NEW w, NEW v, NEW b, w[b] \in Int, \A x \in S : w[x] \in Int,
           v[b] = IF b \in S THEN w[b] + 1 ELSE 1,
           \A x \in S \ {b} : v[x] = w[x]
    PROVE  SumFunctionOnSet(v, S \cup {b}) = SumFunctionOnSet(w, S) + 1
<1> DEFINE R == S \ {b}
<1>1. IsFiniteSet(R) /\ b \notin R /\ (\A x \in R : w[x] \in Int /\ v[x] \in Int)
      /\ S \cup {b} = R \cup {b}
  BY FS_RemoveElement
<1>2. SumFunctionOnSet(v, R) = SumFunctionOnSet(w, R)
  BY <1>1, SumOfSame
<1>3. SumFunctionOnSet(w, R) \in Int
  BY <1>1, SumType
<1>4. v[b] \in Int
  OBVIOUS
<1> HIDE DEF R
<1>5. SumFunctionOnSet(v, R \cup {b}) = v[b] + SumFunctionOnSet(v, R)
  BY <1>1, <1>4, SumWith
<1>6. CASE b \in S
  <2>1. SumFunctionOnSet(w, R \cup {b}) = w[b] + SumFunctionOnSet(w, R)
    BY <1>1, SumWith
  <2>2. S = R \cup {b}
    BY <1>6, <1>1
  <2>3. SumFunctionOnSet(v, S \cup {b}) = v[b] + SumFunctionOnSet(w, R)
    BY <1>1, <1>2, <1>5
  <2>4. SumFunctionOnSet(w, S) = w[b] + SumFunctionOnSet(w, R)
    BY <2>1, <2>2
  <2>5. v[b] = w[b] + 1
    BY <1>6
  <2>6. QED
    BY <1>3, <2>3, <2>4, <2>5
<1>7. CASE b \notin S
  <2>1. S = R /\ v[b] = 1
    BY <1>7 DEF R
  <2>2. QED
    BY <2>1, <1>1, <1>2, <1>3, <1>5
<1>8. QED
  BY <1>6, <1>7

BagIs == IsFiniteSet(DOMAIN gl) /\ gl \in [DOMAIN gl -> Nat \ {0}]

\* What is posted at once has one batch of each kind.
OneOfEach(P) == IsFiniteSet(P) /\ \A b, c \in P : b.kind = c.kind => b = c

LEMMA TimesIs == \A kind : Le!Times(kind) = SumFunctionOnSet(gl, {b \in DOMAIN gl : b.kind = kind})
BY LedgerSums DEF Le!Times, Le!Posted, Le!BagToSet

With(P) == [b \in DOMAIN gl \cup P |-> (IF b \in DOMAIN gl THEN gl[b] ELSE 0)
                                        + (IF b \in P THEN 1 ELSE 0)]

LEMMA PostIs == \A batches : Le!Post(batches) <=> gl' = With(Le!ToSet(batches))
BY DEF Le!Post, Le!(+), Le!SetToBag, With

LEMMA PostingCounts ==
    ASSUME BagIs, NEW P, OneOfEach(P), gl' = With(P)
    PROVE  /\ BagIs' /\ DOMAIN gl' = DOMAIN gl \cup P
           /\ \A kind : (\A b \in P : b.kind # kind) => Le!Times(kind)' = Le!Times(kind)
           /\ \A b \in P : Le!Times(b.kind)' = Le!Times(b.kind) + 1
<1>1. gl' = [b \in DOMAIN gl \cup P |->
               (IF b \in DOMAIN gl THEN gl[b] ELSE 0) + (IF b \in P THEN 1 ELSE 0)]
  BY DEF With
<1>2. DOMAIN gl' = DOMAIN gl \cup P
  BY <1>1
<1>3. BagIs'
  <2>1. IsFiniteSet(DOMAIN gl \cup P)
    BY FS_Union DEF BagIs, OneOfEach
  <2>2. \A b \in DOMAIN gl \cup P : gl'[b] \in Nat \ {0}
    BY <1>1 DEF BagIs
  <2>3. gl' \in [DOMAIN gl \cup P -> Nat \ {0}]
    BY <1>1, <2>2
  <2>4. QED
    BY <1>2, <2>1, <2>3 DEF BagIs
<1> DEFINE Of(kind) == {b \in DOMAIN gl : b.kind = kind}
           New(kind) == {b \in DOMAIN gl' : b.kind = kind}
<1>4. \A kind : /\ Le!Times(kind) = SumFunctionOnSet(gl, Of(kind))
                /\ Le!Times(kind)' = SumFunctionOnSet(gl', New(kind))
  <2>1. \A kind : Le!Times(kind)' = SumFunctionOnSet(gl', New(kind))
    BY LedgerSums DEF Le!Times, Le!Posted, Le!BagToSet
  <2>2. QED
    BY <2>1, TimesIs
<1>5. \A kind : IsFiniteSet(Of(kind)) /\ \A b \in Of(kind) : gl[b] \in Int
  <2> TAKE kind
  <2>1. Of(kind) \subseteq DOMAIN gl
    OBVIOUS
  <2>2. QED
    BY <2>1, FS_Subset DEF BagIs
<1>6. ASSUME NEW kind, \A b \in P : b.kind # kind
      PROVE  Le!Times(kind)' = Le!Times(kind)
  <2>1. New(kind) = Of(kind) /\ \A b \in Of(kind) : gl'[b] = gl[b]
    <3>1. \A b \in Of(kind) : b \notin P /\ b \in DOMAIN gl /\ gl[b] \in Int
      BY <1>5, <1>6
    <3>2. QED
      BY <3>1, <1>1, <1>2, <1>6
  <2> HIDE DEF Of, New
  <2>2. SumFunctionOnSet(gl, Of(kind)) = SumFunctionOnSet(gl', Of(kind))
    BY <2>1, <1>5, SumOfSame
  <2>3. QED
    BY <2>1, <2>2, <1>4
<1>7. ASSUME NEW b \in P
      PROVE  Le!Times(b.kind)' = Le!Times(b.kind) + 1
  <2> DEFINE S == Of(b.kind)
             w == [x \in S \cup {b} |-> IF x \in S THEN gl[x] ELSE 0]
  <2>1. New(b.kind) = S \cup {b}
    BY <1>2, <1>7 DEF OneOfEach
  <2>2. \A x \in S \ {b} : x \notin P
    BY <1>7 DEF OneOfEach
  <2>3. IsFiniteSet(S) /\ \A x \in S : gl[x] \in Int
    BY <1>5
  <2>4. w[b] \in Int /\ \A x \in S : w[x] \in Int /\ w[x] = gl[x]
    BY <2>3
  <2>5. gl'[b] = IF b \in S THEN w[b] + 1 ELSE 1
    BY <1>1, <1>7, <2>3
  <2>6. \A x \in S \ {b} : gl'[x] = w[x]
    BY <1>1, <2>2, <2>3, <2>4
  <2> HIDE DEF S, w, New, Of
  <2>7. SumFunctionOnSet(gl', S \cup {b}) = SumFunctionOnSet(w, S) + 1
    BY <2>3, <2>4, <2>5, <2>6, OneBookingMore
  <2>8. SumFunctionOnSet(w, S) = SumFunctionOnSet(gl, S)
    BY <2>3, <2>4, SumOfSame
  <2>9. QED
    BY <2>1, <2>7, <2>8, <1>4 DEF S
<1>8. QED
  BY <1>2, <1>3, <1>6, <1>7

-----------------------------------------------------------------------------
(* The entries of each kind.                                               *)

\* The amounts of an order and what is computed from them.
DealIs == deal \in Deals /\ accounts \in Charts

LEMMA Amounts ==
    ASSUME DealIs
    PROVE  /\ deal.net \in Nat /\ deal.tax \in Nat /\ deal.coupon \in Nat /\ deal.loyalty \in Nat
           /\ deal.other \in Nat /\ deal.delivery \in Nat /\ deal.sold \in Nat
           /\ Commission \in Nat /\ deal.sold - Commission \in Nat
           /\ Le!PlatformCoupon \in Nat /\ Le!VendorCoupon \in Nat /\ Le!ClearingAmount \in Nat
           /\ Le!Grand(deal) \in Nat /\ Le!Grand(deal) \div 2 \in Nat
           /\ Le!Vat(deal.delivery) \in Nat /\ deal.delivery - Le!Vat(deal.delivery) \in Nat
           /\ Le!Vat(Commission) \in Nat
<1>1. /\ deal.net \in Nat /\ deal.tax \in Nat /\ deal.coupon \in Nat /\ deal.loyalty \in Nat
      /\ deal.other \in Nat /\ deal.delivery \in Nat /\ deal.sold \in Nat
      /\ Commission \in Nat /\ Commission <= deal.sold
      /\ deal.coupon + deal.loyalty + deal.other <= deal.net + deal.tax
  BY LedgerAssumption DEF DealIs
<1>2. Le!PlatformCoupon \in Nat /\ Le!VendorCoupon \in Nat
  BY <1>1 DEF Le!PlatformCoupon, Le!VendorCoupon
<1>3. Le!ClearingAmount \in Nat
  BY <1>1, <1>2 DEF Le!ClearingAmount
<1>4. Le!Grand(deal) \in Nat /\ Le!Grand(deal) \div 2 \in Nat
  BY <1>1 DEF Le!Grand
<1>5. \A x \in Nat : Le!Vat(x) \in Nat /\ x - Le!Vat(x) \in Nat
  BY DEF Le!Vat
<1>6. deal.sold - Commission \in Nat
  BY <1>1
<1>7. /\ Le!Vat(deal.delivery) \in Nat /\ deal.delivery - Le!Vat(deal.delivery) \in Nat
      /\ Le!Vat(Commission) \in Nat
  BY <1>1, <1>5
<1>8. QED
  BY <1>1, <1>2, <1>3, <1>4, <1>6, <1>7

LEMMA LegsOf ==
    \A a \in Names, x \in Nat :
       /\ Le!Debit(a, x) \in Seq(Leg) /\ Le!Credit(a, x) \in Seq(Leg)
       /\ a \in accounts => /\ Adds(Le!Debit(a, x), x, 0) /\ Adds(Le!Credit(a, x), 0, x)
                            /\ Len(Le!Debit(a, x)) = 1 /\ Le!Debit(a, x)[1].debit = x
<1> SUFFICES ASSUME NEW a \in Names, NEW x \in Nat
    PROVE  /\ Le!Debit(a, x) \in Seq(Leg) /\ Le!Credit(a, x) \in Seq(Leg)
           /\ a \in accounts => /\ Adds(Le!Debit(a, x), x, 0) /\ Adds(Le!Credit(a, x), 0, x)
                                /\ Len(Le!Debit(a, x)) = 1 /\ Le!Debit(a, x)[1].debit = x
  OBVIOUS
<1> DEFINE d == [account |-> a, debit |-> x, credit |-> 0]
           c == [account |-> a, debit |-> 0, credit |-> x]
<1>1. d \in Leg /\ c \in Leg /\ d.debit = x /\ d.credit = 0 /\ c.debit = 0 /\ c.credit = x
  BY DEF Leg
<1>2. Le!Debit(a, x) = (IF a \in accounts THEN <<d>> ELSE <<>>)
      /\ Le!Credit(a, x) = (IF a \in accounts THEN <<c>> ELSE <<>>)
  BY DEF Le!Debit, Le!Credit, Le!If
<1> HIDE DEF d, c
<1>3. Adds(<<d>>, x, 0) /\ Adds(<<c>>, 0, x)
  BY <1>1, OneLeg
<1>4. <<>> \in Seq(Leg) /\ <<d>> \in Seq(Leg) /\ <<c>> \in Seq(Leg)
  BY <1>1
<1>5. QED
  BY <1>1, <1>2, <1>3, <1>4

LEMMA LegsKept ==
    /\ \A condition, legs : legs \in Seq(Leg) => Le!If(condition, legs) \in Seq(Leg)
    /\ \A s, t \in Seq(Leg) : s \o t \in Seq(Leg)
BY DEF Le!If

\* What the entries of a kind say when their accounts exist and all are inserted.
Fair(b) ==
    /\ b.kind \in Le!Kinds /\ b.whole \in BOOLEAN /\ b.legs \in Seq(Leg)
    /\ b.kind \in {"loyalty", "delivery", "refund"} /\ b.whole
          /\ {"vat", "cash", "revenue"} \subseteq accounts
       => Le!Debits(b.legs) = Le!Credits(b.legs)
    /\ b.kind = "payment" /\ b.whole
          /\ {"cash", "revenue", "vat", "coupon", "loyalty", "delivery", "clearing"}
                \subseteq accounts
       => Le!Debits(b.legs) - Le!Credits(b.legs) =
             Le!ClearingAmount - Le!VendorCoupon - deal.other
                - (Le!Grand(deal) - b.legs[1].debit)
                - (IF deal.waived THEN deal.delivery ELSE 0)

LEMMA RefundIsFair ==
    ASSUME NEW x \in Nat PROVE Fair(Le!Batch("refund", Le!RefundLegs(x)))
<1>1. Le!RefundLegs(x) \in Seq(Leg)
  BY LegsOf, LegsKept DEF Names, Le!RefundLegs
<1>2. ASSUME {"cash", "revenue"} \subseteq accounts
      PROVE  Adds(Le!RefundLegs(x), x, x)
  <2>1. Adds(Le!Credit("cash", x), 0, x) /\ Adds(Le!Debit("revenue", x), x, 0)
    BY <1>2, LegsOf DEF Names
  <2>2. Adds(Le!Credit("cash", x) \o Le!Debit("revenue", x), 0 + x, x + 0)
    BY <2>1, LegsAddUp
  <2>3. QED
    BY <2>2 DEF Le!RefundLegs
<1>3. QED
  BY <1>1, <1>2 DEF Fair, Le!Batch, Le!Kinds, Adds

LEMMA LoyaltyIsFair ==
    ASSUME DealIs PROVE Fair(Le!Batch("loyalty", Le!LoyaltyLegs))
<1> DEFINE x == deal.loyalty
           legs == Le!Debit("loyalty", x) \o Le!Credit("clearing", x)
           c == {"loyalty", "clearing"} \subseteq accounts /\ x > 0
<1>0. x \in Nat
  BY Amounts
<1>1. legs \in Seq(Leg) /\ Le!LoyaltyLegs = Le!If(c, legs) /\ c \in BOOLEAN
  BY <1>0, LegsOf, LegsKept DEF Names, Le!LoyaltyLegs
<1>2. Le!LoyaltyLegs \in Seq(Leg)
  BY <1>1, LegsKept
<1>3. c => Adds(legs, x + 0, 0 + x)
  <2> HAVE c
  <2>1. Adds(Le!Debit("loyalty", x), x, 0) /\ Adds(Le!Credit("clearing", x), 0, x)
    BY <1>0, LegsOf DEF Names
  <2>2. QED
    BY <2>1, LegsAddUp
<1>4. Le!Debits(Le!LoyaltyLegs) = Le!Credits(Le!LoyaltyLegs)
  <2>1. CASE c
    <3>1. Le!LoyaltyLegs = legs
      BY <1>1, <2>1 DEF Le!If
    <3>2. x + 0 = 0 + x
      BY <1>0
    <3> HIDE DEF legs, x
    <3>3. QED
      BY <3>1, <3>2, <2>1, <1>3 DEF Adds
  <2>2. CASE ~c
    BY <1>1, <2>2, NoLegs DEF Le!If, Adds
  <2>3. QED
    BY <2>1, <2>2
<1>5. QED
  BY <1>2, <1>4 DEF Fair, Le!Batch, Le!Kinds

LEMMA DeliveryIsFair ==
    ASSUME DealIs PROVE Fair(Le!Batch("delivery", Le!DeliveryLegs))
<1> DEFINE x == deal.delivery
           v == Le!Vat(deal.delivery)
           legs == Le!Debit("logistics", x) \o Le!Credit("delivery", x - v) \o Le!Credit("vat", v)
           c == {"logistics", "delivery"} \subseteq accounts /\ x > 0
<1>0. x \in Nat /\ v \in Nat /\ x - v \in Nat
  BY Amounts
<1>1. Le!DeliveryLegs = Le!If(c, legs) /\ c \in BOOLEAN
  BY DEF Le!DeliveryLegs
<1>2. Le!DeliveryLegs \in Seq(Leg)
  <2>1. /\ Le!Debit("logistics", x) \in Seq(Leg) /\ Le!Credit("delivery", x - v) \in Seq(Leg)
        /\ Le!Credit("vat", v) \in Seq(Leg)
    BY <1>0, LegsOf DEF Names
  <2>2. legs \in Seq(Leg)
    BY <2>1, LegsKept
  <2>3. QED
    BY <1>1, <2>2, LegsKept
<1>3. ASSUME c, "vat" \in accounts PROVE Adds(legs, x, x)
  <2>1. /\ Adds(Le!Debit("logistics", x), x, 0) /\ Adds(Le!Credit("delivery", x - v), 0, x - v)
        /\ Adds(Le!Credit("vat", v), 0, v)
    BY <1>0, <1>3, LegsOf DEF Names
  <2>2. Adds(Le!Debit("logistics", x) \o Le!Credit("delivery", x - v), x + 0, 0 + (x - v))
    BY <2>1, LegsAddUp
  <2>3. Adds(legs, (x + 0) + 0, (0 + (x - v)) + v)
    BY <2>1, <2>2, LegsAddUp
  <2>4. (x + 0) + 0 = x /\ (0 + (x - v)) + v = x
    BY <1>0
  <2>5. QED
    BY <2>3, <2>4
<1>4. "vat" \in accounts => Le!Debits(Le!DeliveryLegs) = Le!Credits(Le!DeliveryLegs)
  <2>1. CASE c
    <3>1. Le!DeliveryLegs = legs
      BY <1>1, <2>1 DEF Le!If
    <3>2. QED
      BY <3>1, <2>1, <1>3 DEF Adds
  <2>2. CASE ~c
    BY <1>1, <2>2, NoLegs DEF Le!If, Adds
  <2>3. QED
    BY <2>1, <2>2
<1>5. QED
  BY <1>2, <1>4 DEF Fair, Le!Batch, Le!Kinds

LEMMA SettlementIsFair ==
    ASSUME DealIs PROVE Fair(Le!Batch("settlement", Le!SettlementLegs))
<1>1. /\ Le!Debit("cash", deal.sold - Commission) \in Seq(Leg)
      /\ Le!Debit("commission", Commission) \in Seq(Leg)
      /\ Le!Debit("vat input", Le!Vat(Commission)) \in Seq(Leg)
      /\ Le!Credit("clearing", deal.sold + Le!Vat(Commission)) \in Seq(Leg)
      /\ Le!Debit("coupon", Le!PlatformCoupon) \in Seq(Leg)
      /\ Le!Debit("loyalty", deal.loyalty) \in Seq(Leg)
  <2>1. deal.sold + Le!Vat(Commission) \in Nat
    BY Amounts
  <2>2. QED
    BY <2>1, Amounts, LegsOf DEF Names
<1>2. /\ Le!If(Commission > 0, Le!Debit("commission", Commission)) \in Seq(Leg)
      /\ Le!If(Commission > 0, Le!Debit("vat input", Le!Vat(Commission))) \in Seq(Leg)
      /\ Le!If(Le!PlatformCoupon > 0, Le!Debit("coupon", Le!PlatformCoupon)) \in Seq(Leg)
      /\ Le!If(deal.loyalty > 0, Le!Debit("loyalty", deal.loyalty)) \in Seq(Leg)
  BY <1>1, LegsKept
<1>3. Le!SettlementLegs \in Seq(Leg)
  BY <1>1, <1>2, LegsKept DEF Le!SettlementLegs
<1>4. QED
  BY <1>3 DEF Fair, Le!Batch, Le!Kinds

LEMMA PaymentIsFair ==
    ASSUME DealIs, NEW x \in Nat PROVE Fair(Le!Batch("payment", Le!PaymentLegs(x)))
<1> DEFINE net == deal.net
           tax == deal.tax
           pc == Le!PlatformCoupon
           lo == deal.loyalty
           de == deal.delivery
           cl == Le!ClearingAmount
           l1 == Le!Debit("cash", x)
           l2 == Le!Credit("revenue", net)
           l3 == Le!If(tax > 0, Le!Credit("vat", tax))
           l4 == Le!If(pc > 0, Le!Debit("coupon", pc))
           l5 == Le!If(lo > 0, Le!Debit("loyalty", lo))
           l6 == Le!If(de > 0, Le!Credit("delivery", de))
           l7 == Le!If(cl > 0, Le!Debit("clearing", cl))
<1>0. /\ net \in Nat /\ tax \in Nat /\ pc \in Nat /\ lo \in Nat /\ de \in Nat /\ cl \in Nat
      /\ Le!VendorCoupon \in Nat /\ deal.other \in Nat /\ deal.coupon \in Nat
      /\ deal.coupon = pc + Le!VendorCoupon /\ Le!Grand(deal) \in Nat
  BY Amounts DEF Le!VendorCoupon
<1>1. Le!PaymentLegs(x) = l1 \o l2 \o l3 \o l4 \o l5 \o l6 \o l7
  BY DEF Le!PaymentLegs
<1>2. /\ l1 \in Seq(Leg) /\ l2 \in Seq(Leg) /\ l3 \in Seq(Leg) /\ l4 \in Seq(Leg)
      /\ l5 \in Seq(Leg) /\ l6 \in Seq(Leg) /\ l7 \in Seq(Leg)
  <2>1. /\ l1 \in Seq(Leg) /\ l2 \in Seq(Leg)
        /\ Le!Credit("vat", tax) \in Seq(Leg) /\ Le!Debit("coupon", pc) \in Seq(Leg)
        /\ Le!Debit("loyalty", lo) \in Seq(Leg) /\ Le!Credit("delivery", de) \in Seq(Leg)
        /\ Le!Debit("clearing", cl) \in Seq(Leg)
    BY <1>0, LegsOf DEF Names
  <2>2. QED
    BY <2>1, LegsKept
<1>3. Le!PaymentLegs(x) \in Seq(Leg)
  <2> HIDE DEF l1, l2, l3, l4, l5, l6, l7
  <2>1. QED
    BY <1>1, <1>2, LegsKept
<1>4. ASSUME {"cash", "revenue", "vat", "coupon", "loyalty", "delivery", "clearing"}
                \subseteq accounts
      PROVE  /\ Adds(Le!PaymentLegs(x), x + pc + lo + cl, net + tax + de)
             /\ Le!PaymentLegs(x)[1].debit = x
  <2>1. /\ Adds(l1, x, 0) /\ Len(l1) = 1 /\ l1[1].debit = x /\ Adds(l2, 0, net)
        /\ Adds(Le!Credit("vat", tax), 0, tax) /\ Adds(Le!Debit("coupon", pc), pc, 0)
        /\ Adds(Le!Debit("loyalty", lo), lo, 0) /\ Adds(Le!Credit("delivery", de), 0, de)
        /\ Adds(Le!Debit("clearing", cl), cl, 0)
    BY <1>0, <1>4, LegsOf DEF Names
  <2>2. /\ Adds(l3, 0, tax) /\ Adds(l4, pc, 0) /\ Adds(l5, lo, 0) /\ Adds(l6, 0, de)
        /\ Adds(l7, cl, 0)
    <3>1. \A n \in Nat : (IF n > 0 THEN n ELSE 0) = n
      OBVIOUS
    <3>2. \A n \in Nat : \A legs :
             /\ Adds(legs, n, 0) => Adds(Le!If(n > 0, legs), n, 0)
             /\ Adds(legs, 0, n) => Adds(Le!If(n > 0, legs), 0, n)
      BY NoLegs DEF Le!If
    <3>3. QED
      BY <2>1, <1>0, <3>2
  <2> HIDE DEF l1, l2, l3, l4, l5, l6, l7
  <2>3. Adds(l1 \o l2, x + 0, 0 + net)
    BY <2>1, LegsAddUp
  <2>4. Adds(l1 \o l2 \o l3, (x + 0) + 0, (0 + net) + tax)
    BY <2>2, <2>3, LegsAddUp
  <2>5. Adds(l1 \o l2 \o l3 \o l4, ((x + 0) + 0) + pc, ((0 + net) + tax) + 0)
    BY <2>2, <2>4, LegsAddUp
  <2>6. Adds(l1 \o l2 \o l3 \o l4 \o l5, (((x + 0) + 0) + pc) + lo, (((0 + net) + tax) + 0) + 0)
    BY <2>2, <2>5, LegsAddUp
  <2>7. Adds(l1 \o l2 \o l3 \o l4 \o l5 \o l6,
             ((((x + 0) + 0) + pc) + lo) + 0, ((((0 + net) + tax) + 0) + 0) + de)
    BY <2>2, <2>6, LegsAddUp
  <2>8. Adds(l1 \o l2 \o l3 \o l4 \o l5 \o l6 \o l7,
             (((((x + 0) + 0) + pc) + lo) + 0) + cl, (((((0 + net) + tax) + 0) + 0) + de) + 0)
    BY <2>2, <2>7, LegsAddUp
  <2>9. /\ (((((x + 0) + 0) + pc) + lo) + 0) + cl = x + pc + lo + cl
        /\ (((((0 + net) + tax) + 0) + 0) + de) + 0 = net + tax + de
    BY <1>0
  <2>10. Le!PaymentLegs(x)[1] = l1[1]
    <3>1. \A s, t \in Seq(Leg) : Len(s) > 0 => (s \o t)[1] = s[1] /\ Len(s \o t) > 0
      OBVIOUS
    <3>2. Len(l1) > 0
      BY <2>1
    <3> DEFINE s2 == l1 \o l2
               s3 == s2 \o l3
               s4 == s3 \o l4
               s5 == s4 \o l5
               s6 == s5 \o l6
    <3>3. s2 \in Seq(Leg) /\ s2[1] = l1[1] /\ Len(s2) > 0
      BY <3>1, <3>2, <1>2, LegsKept
    <3>4. s3 \in Seq(Leg) /\ s3[1] = s2[1] /\ Len(s3) > 0
      BY <3>1, <3>3, <1>2, LegsKept
    <3>5. s4 \in Seq(Leg) /\ s4[1] = s3[1] /\ Len(s4) > 0
      BY <3>1, <3>4, <1>2, LegsKept
    <3>6. s5 \in Seq(Leg) /\ s5[1] = s4[1] /\ Len(s5) > 0
      BY <3>1, <3>5, <1>2, LegsKept
    <3>7. s6 \in Seq(Leg) /\ s6[1] = s5[1] /\ Len(s6) > 0
      BY <3>1, <3>6, <1>2, LegsKept
    <3>8. (s6 \o l7)[1] = s6[1]
      BY <3>1, <3>7, <1>2
    <3>9. QED
      BY <3>3, <3>4, <3>5, <3>6, <3>7, <3>8, <1>1
  <2>11. QED
    BY <1>1, <2>1, <2>8, <2>9, <2>10
<1> HIDE DEF l1, l2, l3, l4, l5, l6, l7
<1>5. (x + pc + lo + cl) - (net + tax + de) =
         cl - Le!VendorCoupon - deal.other - (Le!Grand(deal) - x)
            - (IF deal.waived THEN de ELSE 0)
  BY <1>0 DEF Le!Grand
<1>6. QED
  BY <1>3, <1>4, <1>5 DEF Fair, Le!Batch, Le!Kinds, Adds

-----------------------------------------------------------------------------
(* The invariant, and what requests post.                                  *)

Asking == [op : {"none", "gateway", "admin", "refund"}, amount : Nat, seen : SUBSET Le!Kinds,
           paid : BOOLEAN, moved : BOOLEAN]
Entries == [kind : Le!Kinds, legs : Seq(Leg), whole : BOOLEAN]
BookedOnce == {"payment", "delivery", "refund"}

\* The requests that would book a kind although it may be booked meanwhile.
Unaware(kind) == {r \in Requests : posting[r].op # "none" /\ kind \notin posting[r].seen}

UnawareCount(kind) == Cardinality(Unaware(kind))

OncePerOverlap(kind) ==
    IF kind \in Le!Recorded THEN Le!Times(kind) + UnawareCount(kind) <= Cardinality(Requests)
                            ELSE Le!Times(kind) = 0

LedgerInv ==
    /\ DealIs
    /\ payment \in {"Unpaid", "Partially Paid", "Paid", "Refunded"}
    /\ posting \in [Requests -> Asking]
    /\ BagIs
    /\ \A b \in DOMAIN gl : Fair(b)
    /\ \A kind \in BookedOnce : OncePerOverlap(kind)

\* A batch that a request may post.
Ready(r, b) ==
    b \in Entries /\ b.legs # <<>> /\ Fair(b) /\ (b.kind \in BookedOnce => b.kind \notin posting[r].seen)

AllReady(r, batches) ==
    /\ batches \in Seq(Entries)
    /\ \A i \in 1..Len(batches) : Ready(r, batches[i])
    /\ \A i, j \in 1..Len(batches) : batches[i].kind = batches[j].kind => i = j

LEMMA ReadyAreOfEach ==
    ASSUME NEW r, NEW batches, AllReady(r, batches)
    PROVE  OneOfEach(Le!ToSet(batches)) /\ \A b \in Le!ToSet(batches) : Ready(r, b)
<1> DEFINE N == 1..Len(batches)
           P == {batches[i] : i \in N}
<1>1. DOMAIN batches = N /\ IsFiniteSet(N)
  BY FS_Interval DEF AllReady
<1>2. Le!ToSet(batches) = P
  BY <1>1 DEF Le!ToSet
<1>3. IsFiniteSet(P)
  <2> HIDE DEF N
  <2>1. QED
    BY <1>1, ImageOfFinite
<1>4. \A b, c \in P : b.kind = c.kind => b = c
  BY DEF AllReady
<1>5. \A b \in P : Ready(r, b)
  BY DEF AllReady
<1>6. QED
  BY <1>2, <1>3, <1>4, <1>5 DEF OneOfEach

LEMMA BatchIsReady ==
    ASSUME NEW r, NEW kind \in Le!Kinds, NEW legs \in Seq(Leg), Fair(Le!Batch(kind, legs)),
           Le!NotYet(r, kind)
    PROVE  AllReady(r, Le!Batches(kind, legs))
           /\ \A i \in 1..Len(Le!Batches(kind, legs)) : Le!Batches(kind, legs)[i].kind = kind
<1> DEFINE b == Le!Batch(kind, legs)
<1>1. b \in Entries /\ b.kind = kind /\ b.legs = legs
  BY DEF Le!Batch, Entries
<1>2. kind \in BookedOnce => kind \notin posting[r].seen
  BY DEF Le!NotYet, BookedOnce
<1>3. CASE legs = <<>>
  BY <1>3 DEF Le!Batches, Le!If, AllReady
<1>4. CASE legs # <<>>
  <2>1. Ready(r, b)
    BY <1>1, <1>2, <1>4 DEF Ready
  <2>2. Le!Batches(kind, legs) = <<b>>
    BY <1>4 DEF Le!Batches, Le!If
  <2> HIDE DEF b
  <2>3. <<b>> \in Seq(Entries) /\ Len(<<b>>) = 1 /\ <<b>>[1] = b
    BY <1>1
  <2>4. QED
    BY <2>1, <2>2, <2>3, <1>1 DEF AllReady
<1>5. QED
  BY <1>3, <1>4

LEMMA ReadyInTurn ==
    ASSUME NEW r, NEW s, NEW t, AllReady(r, s), AllReady(r, t),
           \A i \in 1..Len(s), j \in 1..Len(t) : s[i].kind # t[j].kind
    PROVE  /\ AllReady(r, s \o t)
           /\ \A k : (\A i \in 1..Len(s) : s[i].kind # k) /\ (\A i \in 1..Len(t) : t[i].kind # k)
                        => \A i \in 1..Len(s \o t) : (s \o t)[i].kind # k
<1> DEFINE u == s \o t
           m == Len(s)
           n == Len(t)
<1>1. s \in Seq(Entries) /\ t \in Seq(Entries) /\ m \in Nat /\ n \in Nat
  BY DEF AllReady
<1>2. /\ u \in Seq(Entries) /\ Len(u) = m + n
      /\ \A i \in 1..(m + n) : u[i] = IF i <= m THEN s[i] ELSE t[i - m]
  BY <1>1, ConcatProperties
<1>3. \A i \in 1..(m + n) : (i <= m /\ i \in 1..m) \/ (~(i <= m) /\ i - m \in 1..n)
  BY <1>1
<1> HIDE DEF u, m, n
<1>4. \A i \in 1..(m + n) : Ready(r, u[i])
  BY <1>1, <1>2, <1>3 DEF AllReady, m, n
<1>5. \A i, j \in 1..(m + n) : u[i].kind = u[j].kind => i = j
  <2> SUFFICES ASSUME NEW i \in 1..(m + n), NEW j \in 1..(m + n), u[i].kind = u[j].kind
               PROVE  i = j
    OBVIOUS
  <2>1. CASE i <= m /\ j <= m
    BY <2>1, <1>1, <1>2, <1>3 DEF AllReady, m, n
  <2>2. CASE ~(i <= m) /\ ~(j <= m)
    <3>1. i - m \in 1..n /\ j - m \in 1..n /\ u[i] = t[i - m] /\ u[j] = t[j - m]
      BY <2>2, <1>2, <1>3
    <3>2. i - m = j - m
      BY <3>1 DEF AllReady, m, n
    <3>3. QED
      BY <3>2, <1>1
  <2>3. CASE i <= m /\ ~(j <= m)
    BY <2>3, <1>2, <1>3 DEF m, n
  <2>4. CASE ~(i <= m) /\ j <= m
    BY <2>4, <1>2, <1>3 DEF m, n
  <2>5. QED
    BY <2>1, <2>2, <2>3, <2>4
<1>6. ASSUME NEW k, \A i \in 1..m : s[i].kind # k, \A i \in 1..n : t[i].kind # k
      PROVE  \A i \in 1..(m + n) : u[i].kind # k
  BY <1>6, <1>2, <1>3
<1>7. QED
  BY <1>2, <1>4, <1>5, <1>6 DEF AllReady, u, m, n

LEMMA HookIsReady ==
    ASSUME LedgerInv, NEW r \in Requests PROVE AllReady(r, Le!Hooked(r))
<1> DEFINE x == posting[r].amount
           h1 == Le!If(Le!NotYet(r, "payment"), Le!Batches("payment", Le!PaymentLegs(x)))
           h2 == Le!If(Le!NotYet(r, "loyalty"), Le!Batches("loyalty", Le!LoyaltyLegs))
           h3 == Le!If(Le!NotYet(r, "delivery"), Le!Batches("delivery", Le!DeliveryLegs))
           Only(s, kind) == AllReady(r, s) /\ \A i \in 1..Len(s) : s[i].kind = kind
<1>1. DealIs /\ x \in Nat
  BY DEF LedgerInv, Asking
<1>2. /\ Fair(Le!Batch("payment", Le!PaymentLegs(x))) /\ Le!PaymentLegs(x) \in Seq(Leg)
      /\ Fair(Le!Batch("loyalty", Le!LoyaltyLegs)) /\ Le!LoyaltyLegs \in Seq(Leg)
      /\ Fair(Le!Batch("delivery", Le!DeliveryLegs)) /\ Le!DeliveryLegs \in Seq(Leg)
  <2>1. /\ Fair(Le!Batch("payment", Le!PaymentLegs(x))) /\ Fair(Le!Batch("loyalty", Le!LoyaltyLegs))
        /\ Fair(Le!Batch("delivery", Le!DeliveryLegs))
    BY <1>1, PaymentIsFair, LoyaltyIsFair, DeliveryIsFair
  <2>2. \A kind, legs : Fair(Le!Batch(kind, legs)) => legs \in Seq(Leg)
    BY DEF Fair, Le!Batch
  <2>3. QED
    BY <2>1, <2>2
<1>3. Only(<<>>, "payment") /\ Only(<<>>, "loyalty") /\ Only(<<>>, "delivery")
  BY DEF AllReady
<1>4. Only(h1, "payment")
  <2>1. CASE Le!NotYet(r, "payment")
    BY <2>1, <1>2, BatchIsReady DEF Le!If, Le!Kinds
  <2>2. CASE ~Le!NotYet(r, "payment")
    BY <2>2, <1>3 DEF Le!If
  <2>3. QED
    BY <2>1, <2>2
<1>5. Only(h2, "loyalty")
  <2>1. CASE Le!NotYet(r, "loyalty")
    BY <2>1, <1>2, BatchIsReady DEF Le!If, Le!Kinds
  <2>2. CASE ~Le!NotYet(r, "loyalty")
    BY <2>2, <1>3 DEF Le!If
  <2>3. QED
    BY <2>1, <2>2
<1>6. Only(h3, "delivery")
  <2>1. CASE Le!NotYet(r, "delivery")
    BY <2>1, <1>2, BatchIsReady DEF Le!If, Le!Kinds
  <2>2. CASE ~Le!NotYet(r, "delivery")
    BY <2>2, <1>3 DEF Le!If
  <2>3. QED
    BY <2>1, <2>2
<1>7. Le!Hooked(r) = (h1 \o h2) \o h3
  BY DEF Le!Hooked
<1> HIDE DEF h1, h2, h3
<1>8. /\ AllReady(r, h1 \o h2)
      /\ \A i \in 1..Len(h1 \o h2) : (h1 \o h2)[i].kind # "delivery"
  BY <1>4, <1>5, ReadyInTurn
<1>9. AllReady(r, (h1 \o h2) \o h3)
  BY <1>6, <1>8, ReadyInTurn
<1>10. QED
  BY <1>7, <1>9

LEMMA CutIsReady ==
    ASSUME NEW r, NEW batches, AllReady(r, batches), NEW n \in DOMAIN batches
    PROVE  AllReady(r, Le!CutAt(batches, n))
<1> DEFINE b == batches[n]
           cut == [kind |-> b.kind, legs |-> SubSeq(b.legs, 1, 1), whole |-> FALSE]
           s == SubSeq(batches, 1, n - 1)
<1>1. batches \in Seq(Entries) /\ n \in 1..Len(batches) /\ Ready(r, b) /\ Len(batches) \in Nat
  BY DEF AllReady
<1>2. s \in Seq(Entries) /\ Len(s) = n - 1 /\ \A i \in 1..(n - 1) : s[i] = batches[i]
  BY <1>1
<1>3. cut = [kind |-> b.kind, legs |-> SubSeq(b.legs, 1, 1), whole |-> FALSE]
  OBVIOUS
<1>4. SubSeq(b.legs, 1, 1) \in Seq(Leg) /\ SubSeq(b.legs, 1, 1) # <<>>
  <2>1. b.legs \in Seq(Leg) /\ b.legs # <<>>
    BY <1>1 DEF Ready, Entries
  <2>2. Len(b.legs) >= 1 /\ b.legs[1] \in Leg
    BY <2>1
  <2> DEFINE l == b.legs
  <2>3. l \in Seq(Leg) /\ 1 <= Len(l) /\ Len(l) \in Nat
    BY <2>1, <2>2
  <2> HIDE DEF l
  <2>4. SubSeq(l, 1, 1) \in Seq(Leg) /\ Len(SubSeq(l, 1, 1)) = 1
    BY <2>3
  <2>5. SubSeq(l, 1, 1) # <<>>
    <3> DEFINE k == SubSeq(l, 1, 1)
    <3>1. Len(k) = 1
      BY <2>4
    <3> HIDE DEF k
    <3>2. k # <<>>
      BY <3>1
    <3>3. QED
      BY <3>2 DEF k
  <2>6. QED
    BY <2>4, <2>5 DEF l
<1>5. Ready(r, cut) /\ cut.kind = b.kind
  BY <1>1, <1>3, <1>4 DEF Ready, Fair, Entries
<1>p. \A i \in 1..Len(batches) : Ready(r, batches[i])
  BY DEF AllReady
<1>q. \A i, j \in 1..Len(batches) : batches[i].kind = batches[j].kind => i = j
  BY DEF AllReady
<1> HIDE DEF s, cut
<1>6. AllReady(r, s)
  <2>1. 1..Len(s) = 1..(n - 1) /\ 1..(n - 1) \subseteq 1..Len(batches)
    BY <1>1, <1>2
  <2>2. \A i \in 1..(n - 1) : Ready(r, s[i])
    BY <2>1, <1>2, <1>p
  <2>3. \A i, j \in 1..(n - 1) : s[i].kind = s[j].kind => i = j
    BY <2>1, <1>2, <1>q
  <2>4. QED
    BY <1>2, <2>1, <2>2, <2>3 DEF AllReady
<1>7. AllReady(r, <<cut>>)
  BY <1>5 DEF AllReady, Ready
<1>8. \A i \in 1..Len(s), j \in 1..Len(<<cut>>) : s[i].kind # <<cut>>[j].kind
  <2>1. \A i \in 1..Len(s) : s[i].kind # b.kind
    BY <1>1, <1>2 DEF AllReady
  <2>2. QED
    BY <2>1, <1>5
<1>9. AllReady(r, s \o <<cut>>)
  BY <1>6, <1>7, <1>8, ReadyInTurn
<1>10. QED
  BY <1>9 DEF Le!CutAt, s, cut

\* A request posts what is ready, or nothing, and ends.
Ends(r) ==
    /\ posting \in [Requests -> Asking] /\ posting' \in [Requests -> Asking]
    /\ posting'[r].op = "none"
    /\ \A q \in Requests \ {r} : posting'[q].op = posting[q].op /\ posting'[q].seen = posting[q].seen

LEMMA FinishEnds ==
    ASSUME posting \in [Requests -> Asking], NEW r \in Requests, NEW wrote \in BOOLEAN,
           Le!Finish(r, wrote)
    PROVE  Ends(r)
<1>1. posting' = [q \in Requests |-> IF q = r THEN Le!Ended
                   ELSE [posting[q] EXCEPT !.moved = @ \/ (wrote /\ posting[q].op # "none")]]
  BY DEF Le!Finish
<1>2. Le!Ended \in Asking /\ Le!Ended.op = "none"
  BY DEF Le!Ended, Asking
<1>3. \A q \in Requests :
         LET new == [posting[q] EXCEPT !.moved = @ \/ (wrote /\ posting[q].op # "none")]
         IN new \in Asking /\ new.op = posting[q].op /\ new.seen = posting[q].seen
  BY DEF Asking
<1>4. QED
  BY <1>1, <1>2, <1>3 DEF Ends

LEMMA TimesAreNumbers == BagIs => \A kind : Le!Times(kind) \in Int
<1> SUFFICES ASSUME BagIs, NEW kind PROVE Le!Times(kind) \in Int
  OBVIOUS
<1> DEFINE S == {b \in DOMAIN gl : b.kind = kind}
<1>1. IsFiniteSet(S) /\ \A b \in S : gl[b] \in Int
  BY FS_Subset DEF BagIs
<1>2. Le!Times(kind) = SumFunctionOnSet(gl, S)
  BY TimesIs
<1> HIDE DEF S
<1>3. QED
  BY <1>1, <1>2, SumType

\* A request that ends is one less at most.
LEMMA OneLess ==
    ASSUME NEW U, NEW V, NEW R, NEW r, NEW a, NEW c, a = Cardinality(U), c = Cardinality(V),
           Cardinality(U) \in Nat, Cardinality(V) \in Nat, Cardinality(U) <= Cardinality(R),
           Cardinality(V) = IF r \in U THEN Cardinality(U) - 1 ELSE Cardinality(U)
    PROVE  a \in Nat /\ c \in Nat /\ c <= a /\ a <= Cardinality(R) /\ (r \in U => c = a - 1)
OBVIOUS

\* What is booked, by whom it may be booked again, and who may no more.
LEMMA NoneBooks ==
    \A n, u, v \in Nat, t \in Int : t + u <= n /\ v <= u => t + v <= n
OBVIOUS

LEMMA OneBooks ==
    \A n, u, v \in Nat, t \in Int :
       (t + u <= n \/ t = 0) /\ u <= n /\ v = u - 1 => (t + 1) + v <= n
OBVIOUS

\* Posting what a request had ready when it ends leaves the books as they should be.
LEMMA BookedThenEnded ==
    ASSUME LedgerInv, NEW r \in Requests, posting[r].op # "none", NEW batches, AllReady(r, batches),
           Le!Post(batches), Ends(r), deal' = deal, accounts' = accounts,
           payment' \in {"Unpaid", "Partially Paid", "Paid", "Refunded"}
    PROVE  LedgerInv'
<1> DEFINE P == Le!ToSet(batches)
<1>1. OneOfEach(P) /\ (\A b \in P : Ready(r, b)) /\ gl' = With(P)
  BY ReadyAreOfEach, PostIs
<1>2. /\ BagIs' /\ DOMAIN gl' = DOMAIN gl \cup P
      /\ \A kind : (\A b \in P : b.kind # kind) => Le!Times(kind)' = Le!Times(kind)
      /\ \A b \in P : Le!Times(b.kind)' = Le!Times(b.kind) + 1
  <2> HIDE DEF P
  <2>1. QED
    BY <1>1, PostingCounts DEF LedgerInv
<1> HIDE DEF P
<1>3. \A b \in DOMAIN gl' : Fair(b)'
  <2>1. \A b \in DOMAIN gl' : Fair(b)
    BY <1>1, <1>2 DEF LedgerInv, Ready
  <2>2. QED
    BY <2>1 DEF Fair, Le!ClearingAmount, Le!VendorCoupon, Le!PlatformCoupon, Le!Grand
<1>4. Le!Recorded' = Le!Recorded \cup {b.kind : b \in P}
  BY <1>2 DEF Le!Recorded, Le!BagToSet
<1>5. \A kind : /\ UnawareCount(kind) \in Nat /\ UnawareCount(kind)' \in Nat
                /\ UnawareCount(kind)' <= UnawareCount(kind) /\ UnawareCount(kind) <= Cardinality(Requests)
                /\ r \in Unaware(kind) => UnawareCount(kind)' = UnawareCount(kind) - 1
  <2> SUFFICES ASSUME NEW kind
               PROVE  /\ UnawareCount(kind) \in Nat /\ UnawareCount(kind)' \in Nat
                      /\ UnawareCount(kind)' <= UnawareCount(kind) /\ UnawareCount(kind) <= Cardinality(Requests)
                      /\ r \in Unaware(kind) => UnawareCount(kind)' = UnawareCount(kind) - 1
    OBVIOUS
  <2> DEFINE U == Unaware(kind)
             V == U \ {r}
  <2>1. U \subseteq Requests
    BY DEF Unaware
  <2>2. Unaware(kind)' = V
    BY DEF Unaware, Ends
  <2>3. UnawareCount(kind) = Cardinality(U) /\ UnawareCount(kind)' = Cardinality(V)
    BY <2>2 DEF UnawareCount
  <2> HIDE DEF U
  <2>4. IsFiniteSet(U) /\ Cardinality(U) \in Nat /\ Cardinality(U) <= Cardinality(Requests)
    BY <2>1, RequestsAssumption, FS_Subset, FS_CardinalityType
  <2>5. /\ IsFiniteSet(V)
        /\ Cardinality(V) = IF r \in U THEN Cardinality(U) - 1 ELSE Cardinality(U)
    BY <2>4, FS_RemoveElement
  <2>6. Cardinality(V) \in Nat
    BY <2>5, FS_CardinalityType
  <2> DEFINE a == UnawareCount(kind)
             c == UnawareCount(kind)'
  <2>7. a = Cardinality(U) /\ c = Cardinality(V)
    BY <2>3 DEF U
  <2> HIDE DEF a, c, V
  <2>8. a \in Nat /\ c \in Nat /\ c <= a /\ a <= Cardinality(Requests) /\ (r \in U => c = a - 1)
    BY <2>4, <2>5, <2>6, <2>7, OneLess
  <2>9. QED
    BY <2>8 DEF a, c, U
<1>6. Cardinality(Requests) \in Nat
  BY RequestsAssumption, FS_CardinalityType
<1>7. ASSUME NEW kind \in BookedOnce PROVE OncePerOverlap(kind)'
  <2> DEFINE u == UnawareCount(kind)
             v == UnawareCount(kind)'
             t == Le!Times(kind)
  <2>1. /\ kind \in Le!Recorded => t + u <= Cardinality(Requests)
        /\ kind \notin Le!Recorded => t = 0
    BY DEF LedgerInv, OncePerOverlap
  <2>2. /\ u \in Nat /\ v \in Nat /\ v <= u /\ u <= Cardinality(Requests)
        /\ r \in Unaware(kind) => v = u - 1
    BY <1>5
  <2>3. t \in Int
    BY TimesAreNumbers DEF LedgerInv
  <2>4. CASE \A b \in P : b.kind # kind
    <3>1. Le!Times(kind)' = t
      BY <1>2, <2>4
    <3>2. kind \in Le!Recorded' <=> kind \in Le!Recorded
      BY <1>4, <2>4
    <3>3. kind \in Le!Recorded => t + v <= Cardinality(Requests)
      <4> HIDE DEF t, u, v
      <4>1. QED
        BY <2>1, <2>2, <2>3, <1>6, NoneBooks
    <3>4. QED
      BY <3>1, <3>2, <3>3, <2>1 DEF OncePerOverlap
  <2>5. CASE \E b \in P : b.kind = kind
    <3>1. PICK b \in P : b.kind = kind
      BY <2>5
    <3>2. Le!Times(kind)' = t + 1 /\ kind \in Le!Recorded' /\ r \in Unaware(kind)
      BY <3>1, <1>1, <1>2, <1>4, <1>7 DEF Ready, Unaware
    <3>3. (t + 1) + v <= Cardinality(Requests)
      <4> HIDE DEF t, u, v
      <4>1. QED
        BY <3>2, <2>1, <2>2, <2>3, <1>6, OneBooks
    <3>4. QED
      BY <3>2, <3>3 DEF OncePerOverlap
  <2>6. QED
    BY <2>4, <2>5
<1>8. QED
  BY <1>2, <1>3, <1>7 DEF LedgerInv, Ends, DealIs

-----------------------------------------------------------------------------
(* Every step keeps it.                                                    *)

LEMMA LedgerMoves == [Next]_vars => [Le!Next]_<<deal, accounts, payment, gl, posting>>
BY DEF Next, vars, Money, Outward, Inward, StillMoney, StillLedger

LEMMA LedgerStart == Init => LedgerInv
<1> SUFFICES ASSUME Init PROVE LedgerInv
  OBVIOUS
<1>1. /\ deal \in Deals /\ accounts \in Charts /\ payment = "Unpaid" /\ gl = Le!EmptyBag
      /\ posting = [r \in Requests |-> Le!Ended]
  BY DEF Init, Le!Init
<1>2. Le!Ended \in Asking
  BY DEF Le!Ended, Asking
<1>3. DOMAIN gl = {}
  BY <1>1 DEF Le!EmptyBag, Le!SetToBag
<1>4. BagIs
  BY <1>3, FS_EmptySet DEF BagIs
<1>5. ASSUME NEW kind PROVE OncePerOverlap(kind)
  <2>1. Le!Recorded = {}
    BY <1>3 DEF Le!Recorded, Le!BagToSet
  <2>2. Le!Times(kind) = SumFunctionOnSet(gl, {b \in DOMAIN gl : b.kind = kind})
    BY TimesIs
  <2>3. {b \in DOMAIN gl : b.kind = kind} = {}
    BY <1>3
  <2>4. Le!Times(kind) = 0
    BY <2>2, <2>3, SumOfNone
  <2>5. QED
    BY <2>1, <2>4 DEF OncePerOverlap
<1>6. QED
  BY <1>1, <1>2, <1>3, <1>4, <1>5 DEF LedgerInv, DealIs

\* A request that starts knows what is booked.
LEMMA ReadKnows ==
    ASSUME LedgerInv, NEW r \in Requests, NEW op \in {"gateway", "admin", "refund"}, NEW amount \in Nat,
           Le!Read(r, op, amount)
    PROVE  LedgerInv'
<1> DEFINE new == [op |-> op, amount |-> amount, seen |-> Le!Recorded, paid |-> payment = "Paid",
                   moved |-> FALSE]
<1>1. posting' = [posting EXCEPT ![r] = new] /\ UNCHANGED <<deal, accounts, payment, gl>>
      /\ posting[r].op = "none"
  BY DEF Le!Read
<1>2. new \in Asking
  <2>1. Le!Recorded \subseteq Le!Kinds
    BY DEF LedgerInv, Fair, Le!Recorded, Le!BagToSet
  <2>2. (payment = "Paid") \in BOOLEAN
    OBVIOUS
  <2>3. QED
    BY <2>1, <2>2 DEF Asking
<1>3. posting \in [Requests -> Asking] /\ posting' \in [Requests -> Asking]
  BY <1>1, <1>2 DEF LedgerInv
<1>4. ASSUME NEW kind \in BookedOnce PROVE OncePerOverlap(kind)'
  <2>1. Le!Recorded' = Le!Recorded /\ Le!Times(kind)' = Le!Times(kind)
    BY <1>1 DEF Le!Recorded, Le!BagToSet, Le!Times, Le!Posted
  <2>2. CASE kind \in Le!Recorded
    <3>1. new.seen = Le!Recorded
      OBVIOUS
    <3> HIDE DEF new
    <3>2. posting'[r].seen = Le!Recorded /\ \A q \in Requests \ {r} : posting'[q] = posting[q]
      BY <1>1, <1>3, <3>1
    <3>3. Unaware(kind)' = Unaware(kind)
      BY <1>1, <2>2, <3>2 DEF Unaware
    <3>4. UnawareCount(kind)' = UnawareCount(kind)
      BY <3>3 DEF UnawareCount
    <3>5. QED
      BY <2>1, <2>2, <3>4 DEF LedgerInv, OncePerOverlap
  <2>3. CASE kind \notin Le!Recorded
    BY <2>1, <2>3 DEF LedgerInv, OncePerOverlap
  <2>4. QED
    BY <2>2, <2>3
<1>5. BagIs' /\ DealIs' /\ payment' \in {"Unpaid", "Partially Paid", "Paid", "Refunded"}
  BY <1>1 DEF LedgerInv, BagIs, DealIs
<1>6. \A b \in DOMAIN gl' : Fair(b)'
  BY <1>1 DEF LedgerInv, Fair, Le!ClearingAmount, Le!VendorCoupon, Le!PlatformCoupon, Le!Grand,
              Le!Debits, Le!Credits
<1>7. QED
  BY <1>3, <1>4, <1>5, <1>6 DEF LedgerInv

\* The hook books what is ready, all of it or the part before a failure.
LEMMA HookBooks ==
    ASSUME LedgerInv, NEW r \in Requests, posting[r].op # "none", Le!PostHook(r),
           Le!Finish(r, TRUE), UNCHANGED <<deal, accounts>>,
           payment' \in {"Unpaid", "Partially Paid", "Paid", "Refunded"}
    PROVE  LedgerInv'
<1>1. AllReady(r, Le!Hooked(r))
  BY HookIsReady
<1>2. Ends(r)
  BY FinishEnds DEF LedgerInv
<1>3. CASE Le!Post(Le!Hooked(r))
  BY <1>1, <1>2, <1>3, BookedThenEnded
<1>4. ASSUME NEW n \in DOMAIN Le!Hooked(r), Le!Post(Le!CutAt(Le!Hooked(r), n)) PROVE LedgerInv'
  <2>1. AllReady(r, Le!CutAt(Le!Hooked(r), n))
    BY <1>1, CutIsReady
  <2>2. QED
    BY <2>1, <1>2, <1>4, BookedThenEnded
<1>5. QED
  BY <1>3, <1>4 DEF Le!PostHook

\* A request that ends and books nothing.
LEMMA NothingBooked ==
    ASSUME LedgerInv, NEW r \in Requests, posting[r].op # "none", Le!Finish(r, FALSE),
           UNCHANGED <<deal, accounts, payment, gl>>
    PROVE  LedgerInv'
<1>1. AllReady(r, <<>>)
  BY DEF AllReady
<1>2. Le!Post(<<>>)
  <2>1. DOMAIN <<>> = {}
    OBVIOUS
  <2>2. Le!ToSet(<<>>) = {}
    BY <2>1 DEF Le!ToSet
  <2>3. gl = With({})
    <3>1. gl = [b \in DOMAIN gl |-> gl[b]] /\ \A b \in DOMAIN gl : gl[b] \in Nat
      BY DEF LedgerInv, BagIs
    <3>2. \A b \in DOMAIN gl : gl[b] = With({})[b]
      BY <3>1 DEF With
    <3>3. With({}) = [b \in DOMAIN gl |-> With({})[b]]
      BY DEF With
    <3>4. QED
      BY <3>1, <3>2, <3>3
  <2>4. gl' = With(Le!ToSet(<<>>))
    BY <2>2, <2>3
  <2>5. QED
    BY <2>4, PostIs
<1>3. Ends(r)
  BY FinishEnds DEF LedgerInv
<1>4. payment' \in {"Unpaid", "Partially Paid", "Paid", "Refunded"}
  BY DEF LedgerInv
<1>5. QED
  BY <1>1, <1>2, <1>3, <1>4, BookedThenEnded

LEMMA RefundBooks ==
    ASSUME LedgerInv, NEW r \in Requests, Le!RefundOrder(r)
    PROVE  LedgerInv'
<1> DEFINE x == posting[r].amount
           wrote == ~posting[r].moved
           entries == Le!Batches("refund", Le!RefundLegs(x))
           batches == Le!If(posting[r].paid /\ Le!NotYet(r, "refund"), entries)
<1>1. /\ posting[r].op = "refund" /\ Le!Post(batches) /\ UNCHANGED <<deal, accounts>>
      /\ payment' = (IF posting[r].moved THEN payment ELSE "Refunded") /\ Le!Finish(r, wrote)
  BY DEF Le!RefundOrder
<1>2. posting[r] \in Asking /\ x \in Nat /\ wrote \in BOOLEAN /\ posting[r].op # "none"
  BY <1>1 DEF LedgerInv, Asking
<1>3. Fair(Le!Batch("refund", Le!RefundLegs(x))) /\ Le!RefundLegs(x) \in Seq(Leg)
  <2>1. Fair(Le!Batch("refund", Le!RefundLegs(x)))
    BY <1>2, RefundIsFair
  <2>2. QED
    BY <2>1 DEF Fair, Le!Batch
<1>4. Le!NotYet(r, "refund") => AllReady(r, entries)
  BY <1>3, BatchIsReady DEF Le!Kinds
<1>5. AllReady(r, batches)
  <2>1. AllReady(r, <<>>)
    BY DEF AllReady
  <2>2. QED
    BY <1>4, <2>1 DEF Le!If
<1>6. payment' \in {"Unpaid", "Partially Paid", "Paid", "Refunded"}
  BY <1>1 DEF LedgerInv
<1> HIDE DEF wrote, batches
<1>7. Ends(r)
  BY <1>1, <1>2, FinishEnds DEF LedgerInv
<1>8. QED
  BY <1>1, <1>2, <1>5, <1>6, <1>7, BookedThenEnded

\* A settlement is not booked per request.
LEMMA SettleBooks == ASSUME LedgerInv, Le!Settle PROVE LedgerInv'
<1> DEFINE new == Le!Batch("settlement", Le!SettlementLegs)
           P == Le!ToSet(Le!Batches("settlement", Le!SettlementLegs))
<1>1. gl' = With(P) /\ UNCHANGED <<deal, accounts, payment, posting>>
  BY PostIs DEF Le!Settle
<1>2. Fair(new) /\ new.kind = "settlement"
  BY SettlementIsFair DEF LedgerInv, Le!Batch
<1>3. P \subseteq {new}
  <2>1. CASE Le!SettlementLegs = <<>>
    <3>1. Le!Batches("settlement", Le!SettlementLegs) = <<>> /\ DOMAIN <<>> = {}
      BY <2>1 DEF Le!Batches, Le!If
    <3>2. QED
      BY <3>1 DEF Le!ToSet
  <2>2. CASE Le!SettlementLegs # <<>>
    <3>1. Le!Batches("settlement", Le!SettlementLegs) = <<new>>
      BY <2>2 DEF Le!Batches, Le!If
    <3> HIDE DEF new
    <3>2. Le!ToSet(<<new>>) \subseteq {new}
      <4>1. DOMAIN <<new>> = {1} /\ <<new>>[1] = new
        OBVIOUS
      <4>2. QED
        BY <4>1 DEF Le!ToSet
    <3>3. QED
      BY <3>1, <3>2
  <2>3. QED
    BY <2>1, <2>2
<1> HIDE DEF new, P
<1>4. OneOfEach(P)
  <2>1. IsFiniteSet({new})
    BY FS_Singleton
  <2>2. QED
    BY <1>3, <2>1, FS_Subset DEF OneOfEach
<1>5. /\ BagIs' /\ DOMAIN gl' = DOMAIN gl \cup P
      /\ \A kind : (\A b \in P : b.kind # kind) => Le!Times(kind)' = Le!Times(kind)
  BY <1>1, <1>4, PostingCounts DEF LedgerInv
<1>6. \A b \in DOMAIN gl' : Fair(b)'
  <2>1. \A b \in DOMAIN gl' : Fair(b)
    BY <1>2, <1>3, <1>5 DEF LedgerInv
  <2>2. QED
    BY <1>1, <2>1 DEF Fair, Le!ClearingAmount, Le!VendorCoupon, Le!PlatformCoupon, Le!Grand
<1>7. ASSUME NEW kind \in BookedOnce PROVE OncePerOverlap(kind)'
  <2>1. \A b \in P : b.kind # kind
    BY <1>2, <1>3 DEF BookedOnce
  <2>2. Le!Times(kind)' = Le!Times(kind)
    BY <1>5, <2>1
  <2>3. kind \in Le!Recorded' <=> kind \in Le!Recorded
    BY <1>5, <2>1 DEF Le!Recorded, Le!BagToSet
  <2>4. UnawareCount(kind)' = UnawareCount(kind)
    BY <1>1 DEF UnawareCount, Unaware
  <2>5. OncePerOverlap(kind)
    BY DEF LedgerInv
  <2>6. QED
    BY <2>2, <2>3, <2>4, <2>5 DEF OncePerOverlap
<1>8. DealIs' /\ payment' \in {"Unpaid", "Partially Paid", "Paid", "Refunded"}
      /\ posting' \in [Requests -> Asking]
  BY <1>1 DEF LedgerInv, DealIs
<1>9. QED
  BY <1>5, <1>6, <1>7, <1>8 DEF LedgerInv

LEMMA LedgerStep == LedgerInv /\ [Next]_vars => LedgerInv'
<1> SUFFICES ASSUME LedgerInv, [Le!Next]_<<deal, accounts, payment, gl, posting>> PROVE LedgerInv'
  BY LedgerMoves
<1>1. ASSUME NEW r \in Requests, NEW op \in {"gateway", "admin", "refund"},
             NEW amount \in {Le!Grand(deal), Le!Grand(deal) \div 2}, Le!Read(r, op, amount)
      PROVE  LedgerInv'
  <2>1. amount \in Nat
    BY Amounts DEF LedgerInv
  <2>2. QED
    BY <1>1, <2>1, ReadKnows
<1>2. ASSUME NEW r \in Requests, Le!MarkOrderPaid(r) PROVE LedgerInv'
  <2>1. posting[r].op # "none" /\ Le!PostHook(r) /\ Le!Finish(r, TRUE) /\ UNCHANGED <<deal, accounts>>
        /\ payment' \in {"Unpaid", "Partially Paid", "Paid", "Refunded"}
    BY <1>2 DEF Le!MarkOrderPaid
  <2>2. QED
    BY <2>1, HookBooks
<1>3. ASSUME NEW r \in Requests, Le!ApplyPartialPayment(r) PROVE LedgerInv'
  <2>1. posting[r].op # "none" /\ UNCHANGED <<deal, accounts>>
    BY <1>3 DEF Le!ApplyPartialPayment
  <2>2. CASE posting[r].moved
    <3>1. UNCHANGED <<payment, gl>> /\ Le!Finish(r, FALSE)
      BY <1>3, <2>2 DEF Le!ApplyPartialPayment
    <3>2. QED
      BY <2>1, <3>1, NothingBooked
  <2>3. CASE ~posting[r].moved
    <3>1. Le!PostHook(r) /\ Le!Finish(r, TRUE)
          /\ payment' \in {"Unpaid", "Partially Paid", "Paid", "Refunded"}
      BY <1>3, <2>3 DEF Le!ApplyPartialPayment
    <3>2. QED
      BY <2>1, <3>1, HookBooks
  <2>4. QED
    BY <2>2, <2>3
<1>4. ASSUME NEW r \in Requests, Le!RefundOrder(r) PROVE LedgerInv'
  BY <1>4, RefundBooks
<1>5. CASE Le!Settle
  BY <1>5, SettleBooks
<1>6. CASE UNCHANGED <<deal, accounts, payment, gl, posting>>
  <2>1. DealIs' /\ BagIs' /\ posting' = posting /\ payment' = payment /\ gl' = gl
    BY <1>6 DEF LedgerInv, DealIs, BagIs
  <2>2. \A b \in DOMAIN gl' : Fair(b)'
    BY <1>6 DEF LedgerInv, Fair, Le!ClearingAmount, Le!VendorCoupon, Le!PlatformCoupon, Le!Grand
  <2>3. \A kind \in BookedOnce : OncePerOverlap(kind)'
    BY <1>6 DEF LedgerInv, OncePerOverlap, Le!Recorded, Le!BagToSet, Le!Times, Le!Posted,
                UnawareCount, Unaware
  <2>4. QED
    BY <2>1, <2>2, <2>3 DEF LedgerInv
<1>7. QED
  BY <1>1, <1>2, <1>3, <1>4, <1>5, <1>6 DEF Le!Next

\* A payment, a delivery and a refund are booked at most once per request that
\* was under way at the first booking; loyalty, delivery and refund journals
\* balance; what a payment in full does not balance by is what vendors are owed.
THEOREM BooksAlwaysAgree == Spec => []BooksAgree
<1>1. Init => LedgerInv
  BY LedgerStart
<1>2. LedgerInv /\ [Next]_vars => LedgerInv'
  BY LedgerStep
<1>3. LedgerInv => BooksAgree
  <2> SUFFICES ASSUME LedgerInv PROVE Le!BooksAgree
    BY DEF BooksAgree
  <2>1. Cardinality(Requests) \in Nat /\ \A kind : UnawareCount(kind) \in Nat
    <3>1. \A kind : Unaware(kind) \subseteq Requests
      BY DEF Unaware
    <3>2. QED
      BY <3>1, RequestsAssumption, FS_Subset, FS_CardinalityType DEF UnawareCount
  <2>2. Le!BookedPerOverlap
    <3>1. ASSUME NEW kind \in BookedOnce PROVE Le!Times(kind) <= Cardinality(Requests)
      <4> DEFINE t == Le!Times(kind)
                 u == UnawareCount(kind)
                 n == Cardinality(Requests)
      <4>1. t \in Int /\ u \in Nat /\ n \in Nat
        BY <2>1, TimesAreNumbers DEF LedgerInv
      <4>2. t + u <= n \/ t = 0
        BY <3>1 DEF LedgerInv, OncePerOverlap
      <4> HIDE DEF t, u, n
      <4>3. t <= n
        BY <4>1, <4>2
      <4>4. QED
        BY <4>3 DEF t, n
    <3>2. Le!Cardinality(Requests) = Cardinality(Requests)
      BY DEF Le!Cardinality, Cardinality
    <3>3. QED
      BY <3>1, <3>2, Zenon DEF Le!BookedPerOverlap, BookedOnce
  <2>3. \A b \in DOMAIN gl : Fair(b)
    BY DEF LedgerInv
  <2>4. Le!JournalsBalance
    BY <2>3 DEF Le!JournalsBalance, Fair, Le!Posted, Le!BagToSet
  <2>5. Le!PaymentExcessIsClearing
    BY <2>3 DEF Le!PaymentExcessIsClearing, Fair, Le!Posted, Le!BagToSet
  <2>6. QED
    BY <2>2, <2>4, <2>5 DEF Le!BooksAgree
<1>4. QED
  BY <1>1, <1>2, <1>3, PTL DEF Spec
=============================================================================
