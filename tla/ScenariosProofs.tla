---------------------------- MODULE ScenariosProofs ----------------------------
(***************************************************************************)
(* Theorems about the scenarios, for any set of roles, any number of runs   *)
(* and of failures, and any amounts.                                        *)
(***************************************************************************)
EXTENDS Scenarios, SandboxDexProofs

(* The calls the scenarios make, and the transactions that carry them. *)
Call ==
    {<<>>}
        \cup ({"mint", "approve", "transfer"} \X Token \X Account \X Uint)
        \cup ({"seed"} \X Pool \X Uint)
        \cup ({"swapAForB"} \X Pool \X Uint \X Int)
        \cup ({"backrun"} \X Pool \X Pool \X Uint \X Int \X Int \X Int)

(* A transaction, what becomes of it in a block, and the node that holds    *)
(* them.                                                                    *)
Tx == [from : User, nonce : Nat, call : Call]

Outcome == {"included", "reverted"}

Node ==
    [up : BOOLEAN, automine : BOOLEAN, storage : Storage, head : Nat, nonce : [User -> Nat],
     pool : Seq(Tx), receipts : Seq(Outcome)]

(* What the accounts hold of a token is what was minted. *)
Balanced(s) == \A t \in Token : Held(s, t) = s.supply[t]

(* A node whose chain is as the contracts leave it: no call is half done,   *)
(* the pools are solvent, the tokens balanced.                              *)
Sound(a) ==
    /\ a \in Node
    /\ a.storage.ok /\ Solvent(a.storage) /\ Balanced(a.storage)

(* What is kept of a balanced storage is balanced. *)
LEMMA KeptIsBalanced ==
  ASSUME NEW s \in Storage, NEW r \in Storage, Balanced(s), Kept(r, s)
  PROVE  Balanced(r)
<1> SUFFICES ASSUME NEW t \in Token
             PROVE  Held(r, t) = r.supply[t]
  BY DEF Balanced
<1>1. Held(r, t) \in Int /\ Held(s, t) \in Int
  BY HeldFacts, StorageIsLoose
<1>2. r.supply[t] \in Int /\ s.supply[t] \in Int
  BY DEF Storage, Uint
<1>3. Held(r, t) - r.supply[t] = Held(s, t) - s.supply[t] /\ Held(s, t) = s.supply[t]
  BY DEF Kept, Conserved, Balanced
<1>4. QED BY <1>1, <1>2, <1>3

(* A call that goes through leaves a sound storage; it is one of the calls of *)
(* the contracts, made by a user.                                           *)
LEMMA ApplyKeeps ==
  ASSUME NEW s \in Storage, s.ok, Solvent(s), Balanced(s), NEW from \in User, NEW call \in Call,
         Apply(s, from, call).ok
  PROVE  /\ Apply(s, from, call) \in Storage
         /\ Solvent(Apply(s, from, call)) /\ Balanced(Apply(s, from, call))
<1> DEFINE r == Apply(s, from, call)
<1>1. from \in Account \ Pool
  BY ContractsAssumption DEF Account
<1>2. ASSUME Kept(r, s)
      PROVE  r \in Storage /\ Solvent(r) /\ Balanced(r)
  <2>1. r \in Storage /\ Solvent(r)
    BY <1>2 DEF Kept
  <2>2. QED BY <1>2, <2>1, KeptIsBalanced
<1>3. CASE call = <<>>
  BY <1>3 DEF Apply
<1>4. ASSUME NEW t \in Token, NEW to \in Account, NEW x \in Uint, call = <<"mint", t, to, x>>
      PROVE  Kept(r, s)
  <2>1. r = MintTo(s, t, to, x)
    BY <1>4 DEF Apply
  <2>2. QED BY <2>1, MintKeeps
<1>5. ASSUME NEW t \in Token, NEW spender \in Account, NEW x \in Uint,
             call = <<"approve", t, spender, x>>
      PROVE  Kept(r, s)
  <2>1. r = Approve(s, t, from, spender, x)
    BY <1>5 DEF Apply
  <2>2. QED BY <1>1, <2>1, ApproveKeeps
<1>6. ASSUME NEW t \in Token, NEW to \in Account, NEW x \in Uint, call = <<"transfer", t, to, x>>
      PROVE  Kept(r, s)
  <2>1. r = Transfer(s, t, from, to, x)
    BY <1>6 DEF Apply
  <2>2. QED BY <1>1, <2>1, TransferKeeps
<1>7. ASSUME NEW p \in Pool, NEW x \in Uint, call = <<"seed", p, x>>
      PROVE  Kept(r, s)
  <2>1. r = SeedLiquidity(s, from, p, x, x)
    BY <1>7 DEF Apply
  <2>2. QED BY <1>1, <2>1, SeedKeeps
<1>8. ASSUME NEW p \in Pool, NEW x \in Uint, NEW min \in Int, call = <<"swapAForB", p, x, min>>
      PROVE  Kept(r, s)
  <2>1. r = Swap(s, from, p, TokenA, TokenB, x, min)
    BY <1>8 DEF Apply
  <2>2. TokenA \in Token /\ TokenB \in Token /\ TokenA # TokenB
    BY ContractsAssumption DEF Token
  <2>3. QED BY <1>1, <2>1, <2>2, SwapKeeps
<1>9. ASSUME NEW buy \in Pool, NEW sell \in Pool, NEW x \in Uint, NEW minA \in Int,
             NEW minB \in Int, NEW minProfit \in Int,
             call = <<"backrun", buy, sell, x, minA, minB, minProfit>>
      PROVE  Kept(r, s)
  <2>1. r = ExecuteBackrun(s, buy, sell, x, minA, minB, minProfit)
    BY <1>9 DEF Apply
  <2>2. Backran(r, s, buy, sell)
    BY <2>1, BackrunKeeps
  <2>3. QED BY <2>2 DEF Backran
<1>10. CASE call \in {"mint", "approve", "transfer"} \X Token \X Account \X Uint
  <2>1. PICK n \in {"mint", "approve", "transfer"}, t \in Token, to \in Account, x \in Uint :
               call = <<n, t, to, x>>
    BY <1>10
  <2>2. QED BY <1>2, <1>4, <1>5, <1>6, <2>1
<1>11. CASE call \in {"seed"} \X Pool \X Uint
  BY <1>2, <1>7, <1>11
<1>12. CASE call \in {"swapAForB"} \X Pool \X Uint \X Int
  BY <1>2, <1>8, <1>12
<1>13. CASE call \in {"backrun"} \X Pool \X Pool \X Uint \X Int \X Int \X Int
  BY <1>2, <1>9, <1>13
<1>14. QED BY <1>3, <1>10, <1>11, <1>12, <1>13 DEF Call

(* What a transaction of a block leaves of the node. *)
Executed(r, a) ==
    /\ Sound(r)
    /\ r.up = a.up /\ r.automine = a.automine /\ r.pool = a.pool
    /\ Len(r.receipts) = Len(a.receipts) + 1

(* A transaction is committed when its call goes through, and has a receipt *)
(* in any case.                                                             *)
LEMMA ExecuteFacts ==
  ASSUME NEW a, Sound(a), NEW tx \in Tx
  PROVE  Executed(Execute(a, tx), a)
<1> DEFINE after    == Apply(a.storage, tx.from, tx.call)
           storage  == IF after.ok THEN after ELSE a.storage
           nonce    == [a.nonce EXCEPT ![tx.from] = @ + 1]
           outcome  == IF after.ok THEN "included" ELSE "reverted"
           receipts == Append(a.receipts, outcome)
<1>1. /\ a \in Node /\ a.storage \in Storage /\ a.nonce \in [User -> Nat]
      /\ a.receipts \in Seq(Outcome)
      /\ tx.from \in User /\ tx.call \in Call
  BY DEF Sound, Node, Tx
<1>2. storage \in Storage /\ storage.ok /\ Solvent(storage) /\ Balanced(storage)
  BY <1>1, ApplyKeeps DEF Sound
<1>3. nonce \in [User -> Nat]
  BY <1>1
<1>4. receipts \in Seq(Outcome) /\ Len(receipts) = Len(a.receipts) + 1
  BY <1>1 DEF Outcome
<1>5. Execute(a, tx) = [a EXCEPT !.storage = storage, !.nonce = nonce, !.receipts = receipts]
  BY <1>1 DEF Execute, Node
<1> HIDE DEF after, storage, nonce, outcome, receipts
<1>6. QED BY <1>1, <1>2, <1>3, <1>4, <1>5 DEF Executed, Sound, Node

(* A set of numbers that is not empty has a least element. *)
LEMMA Least ==
  ASSUME NEW i \in Nat, NEW n \in Nat, NEW s \in SUBSET (i..n), s # {}
  PROVE  \E x \in s : \A y \in s : x <= y
<1> DEFINE HasMin(t) == t # {} => \E x \in t : \A y \in t : x <= y
           Bounded == {m \in Nat : \A t \in SUBSET (i..m) : HasMin(t)}
<1>1. 0 \in Bounded
  <2>1. ASSUME NEW t \in SUBSET (i..0)
        PROVE  HasMin(t)
    <3>1. i..0 \subseteq {0}
      OBVIOUS
    <3>2. t = {} \/ t = {0}
      BY <3>1
    <3>3. HasMin({0})
      OBVIOUS
    <3>4. HasMin({})
      OBVIOUS
    <3> HIDE DEF HasMin
    <3>5. QED BY <3>2, <3>3, <3>4
  <2> HIDE DEF HasMin
  <2>2. QED BY <2>1
<1>2. ASSUME NEW m \in Nat, m \in Bounded
      PROVE  m + 1 \in Bounded
  <2>1. ASSUME NEW t \in SUBSET (i..m + 1)
        PROVE  HasMin(t)
    <3> DEFINE u == t \ {m + 1}
    <3>1. u \in SUBSET (i..m)
      OBVIOUS
    <3>2. HasMin(u)
      BY <1>2, <3>1
    <3>3. CASE u = {}
      <4>1. t = {} \/ t = {m + 1}
        BY <3>3
      <4>2. HasMin({m + 1})
        OBVIOUS
      <4>3. HasMin({})
        OBVIOUS
      <4> HIDE DEF HasMin
      <4>4. QED BY <4>1, <4>2, <4>3
    <3>4. CASE u # {}
      <4>1. PICK x \in u : \A y \in u : x <= y
        BY <3>2, <3>4
      <4>2. x <= m + 1 /\ x \in t
        BY <3>1, <4>1
      <4>3. \A y \in t : x <= y
        BY <4>1, <4>2
      <4>4. QED BY <4>2, <4>3
    <3>5. QED BY <3>3, <3>4
  <2> HIDE DEF HasMin
  <2>2. QED BY <2>1
<1>3. \A m \in Nat : m \in Bounded
  <2> HIDE DEF Bounded
  <2>1. QED BY <1>1, <1>2, SetInduction
<1>4. QED BY <1>3

(* The largest of finitely many numbers is one of them. *)
LEMMA MaxFacts ==
  ASSUME NEW n \in Nat, NEW s \in SUBSET (0..n), s # {}
  PROVE  Max(s) \in s /\ \A x \in s : x <= Max(s)
<1> DEFINE t == {m \in 0..n : n - m \in s}
<1>1. t \in SUBSET (0..n) /\ t # {}
  <2>1. PICK x \in s : TRUE
    OBVIOUS
  <2>2. n - x \in 0..n /\ n - (n - x) = x
    BY <2>1
  <2>3. n - x \in t
    BY <2>2
  <2>4. QED BY <2>3
<1>2. \E m \in t : \A y \in t : m <= y
  BY <1>1, Least
<1>3. PICK m \in t : \A y \in t : m <= y
  BY <1>2
<1>4. \A y \in s : n - m >= y
  <2>1. ASSUME NEW y \in s
        PROVE  n - m >= y
    <3>1. n - y \in 0..n /\ n - (n - y) = y
      OBVIOUS
    <3>2. n - y \in t
      BY <3>1
    <3>3. m <= n - y
      BY <1>3, <3>2
    <3>4. QED BY <1>3, <3>3
  <2>2. QED BY <2>1
<1>5. n - m \in s
  BY <1>3
<1>6. \E x \in s : \A y \in s : x >= y
  BY <1>4, <1>5
<1> HIDE DEF t
<1>7. QED BY <1>6, Zenon DEF Max

(* The rounds of the fold that mines a block. *)
Turn(g, a, s) ==
    IF s = {} THEN [a EXCEPT !.pool = <<>>, !.head = @ + 1]
    ELSE Execute(g[s \ {Max(s)}], a.pool[Max(s)])
Turns(g, a, S) == g = [s \in S |-> Turn(g, a, s)]

(* Mining takes the transactions of the pool one after the other: there is  *)
(* a function that does, built from the small sets of positions to the      *)
(* large ones.                                                              *)
LEMMA MinedIsDefined ==
  ASSUME NEW a, NEW n \in Nat, DOMAIN a.pool = 1..n
  PROVE  \E g : Turns(g, a, SUBSET (1..n)) /\ Mined(a) = g[1..n]
<1> DEFINE A == 1..n
           Small(m) == {s \in SUBSET A : Cardinality(s) <= m}
           Q == {m \in Nat : \E g : Turns(g, a, Small(m))}
<1>1. IsFiniteSet(A) /\ \A s \in SUBSET A : IsFiniteSet(s) /\ Cardinality(s) \in Nat
  <2>1. IsFiniteSet(A)
    BY FS_Interval
  <2>2. QED BY <2>1, FS_Subset, FS_CardinalityType
<1>2. \A s \in SUBSET A : s # {} => Max(s) \in s
  <2>1. SUBSET A \subseteq SUBSET (0..n)
    OBVIOUS
  <2>2. QED BY <2>1, MaxFacts
<1> HIDE DEF A
<1>3. ASSUME NEW m \in Nat, NEW s \in Small(m + 1), s # {}
      PROVE  s \ {Max(s)} \in Small(m)
  <2>1. Max(s) \in s
    BY <1>3, <1>2
  <2>2. Cardinality(s \ {Max(s)}) = Cardinality(s) - 1
    BY <1>1, <2>1, FS_RemoveElement
  <2>3. QED BY <1>1, <2>2
<1>4. 0 \in Q
  <2>1. ASSUME NEW s \in Small(0)
        PROVE  s = {}
    BY <1>1, FS_EmptySet
  <2> DEFINE first == [s \in Small(0) |-> [a EXCEPT !.pool = <<>>, !.head = @ + 1]]
  <2>2. \A s \in Small(0) : first[s] = Turn(first, a, s)
    BY <2>1 DEF Turn
  <2>3. Turns(first, a, Small(0))
    BY <2>2 DEF Turns
  <2>4. QED BY <2>3
<1>5. ASSUME NEW m \in Nat, m \in Q
      PROVE  m + 1 \in Q
  <2>1. PICK g : Turns(g, a, Small(m))
    BY <1>5
  <2> DEFINE h == [s \in Small(m + 1) |-> Turn(g, a, s)]
  <2>2. Small(m) \subseteq Small(m + 1)
    BY <1>1
  <2>3. \A s \in Small(m) : h[s] = g[s]
    BY <2>1, <2>2 DEF Turns
  <2>4. \A s \in Small(m + 1) : Turn(g, a, s) = Turn(h, a, s)
    BY <1>3, <2>3 DEF Turn
  <2>5. Turns(h, a, Small(m + 1))
    BY <2>4 DEF Turns
  <2> HIDE DEF h, Small
  <2>6. QED BY <2>5
<1>6. \A m \in Nat : m \in Q
  <2> HIDE DEF Q
  <2>1. QED BY <1>4, <1>5, SetInduction
<1>7. Cardinality(A) \in Nat
  BY <1>1
<1>8. Small(Cardinality(A)) = SUBSET A
  BY <1>1, FS_Subset
<1>9. \E g : Turns(g, a, SUBSET A)
  BY <1>6, <1>7, <1>8
<1> DEFINE G == CHOOSE g : Turns(g, a, SUBSET A)
<1>10. Turns(G, a, SUBSET A)
  BY <1>9
<1>11. Mined(a) = G[A]
  BY DEF Mined, FoldLeft, MapThenFoldSet, Turns, Turn, A
<1>12. QED BY <1>10, <1>11 DEF A

(* What the first m transactions of a block leave of the node. *)
Passed(r, a, m) ==
    /\ Sound(r)
    /\ r.up = a.up /\ r.automine = a.automine /\ r.pool = <<>>
    /\ Len(r.receipts) = Len(a.receipts) + m

(* The node after each of them. *)
Rounds(h, a) ==
    /\ h[0].storage = a.storage /\ h[0].receipts = a.receipts
    /\ \A m \in 0..Len(a.pool) : Passed(h[m], a, m)
    /\ \A m \in 0..Len(a.pool) - 1 : h[m + 1] = Execute(h[m], a.pool[m + 1])

(* A block takes the transactions of the pool one after the other. *)
LEMMA MinedInRounds ==
  ASSUME NEW a, Sound(a)
  PROVE  \E h : Rounds(h, a) /\ Mined(a) = h[Len(a.pool)]
<1>1. a.pool \in Seq(Tx) /\ a.receipts \in Seq(Outcome) /\ a.head \in Nat /\ a \in Node
  BY DEF Sound, Node
<1> DEFINE n == Len(a.pool)
<1>2. n \in Nat /\ DOMAIN a.pool = 1..n /\ Len(a.receipts) \in Nat
  BY <1>1
<1>3. PICK g : Turns(g, a, SUBSET (1..n)) /\ Mined(a) = g[1..n]
  BY <1>2, MinedIsDefined
<1> DEFINE P == {m \in Nat : m <= n => Passed(g[1..m], a, m)}
           first == [a EXCEPT !.pool = <<>>, !.head = @ + 1]
<1>4. g[1..0] = first
  <2>1. 1..0 = {} /\ {} \in SUBSET (1..n)
    OBVIOUS
  <2>2. QED BY <1>3, <2>1 DEF Turns, Turn
<1>5. first \in Node /\ first.storage = a.storage /\ first.up = a.up
      /\ first.automine = a.automine /\ first.pool = <<>> /\ first.receipts = a.receipts
  <2>1. <<>> \in Seq(Tx) /\ a.head + 1 \in Nat
    BY <1>1
  <2>2. first = [a EXCEPT !.pool = <<>>, !.head = a.head + 1]
    BY <1>1 DEF Node
  <2> HIDE DEF first
  <2>3. QED BY <1>1, <2>1, <2>2 DEF Node
<1> HIDE DEF first
<1>6. 0 \in P
  <2>1. Passed(first, a, 0)
    BY <1>2, <1>5 DEF Passed, Sound
  <2>2. QED BY <1>4, <2>1
<1>7. ASSUME NEW m \in Nat, m + 1 <= n
      PROVE  g[1..m + 1] = Execute(g[1..m], a.pool[m + 1])
  <2> HIDE DEF n, P
  <2>1. 1..m + 1 \in SUBSET (1..n) /\ 1..m + 1 # {} /\ m + 1 \in 1..n
    <3>1. m + 1 \in 1..n /\ m + 1 \in 1..m + 1
      BY <1>2, <1>7
    <3>2. 1..m + 1 \subseteq 1..n
      BY <1>2, <1>7
    <3>3. QED BY <3>1, <3>2
  <2>2. Max(1..m + 1) = m + 1
    <3>1. Max(1..m + 1) \in 1..m + 1 /\ \A x \in 1..m + 1 : x <= Max(1..m + 1)
      <4>1. 1..m + 1 \in SUBSET (0..m + 1) /\ m + 1 \in Nat
        BY <1>2
      <4>2. QED BY <2>1, <4>1, MaxFacts
    <3>2. m + 1 <= Max(1..m + 1)
      BY <3>1
    <3>3. QED BY <3>1, <3>2
  <2>3. (1..m + 1) \ {m + 1} = 1..m
    OBVIOUS
  <2>4. QED BY <1>3, <2>1, <2>2, <2>3 DEF Turns, Turn
<1>8. ASSUME NEW m \in Nat, m \in P
      PROVE  m + 1 \in P
  <2> SUFFICES ASSUME m + 1 <= n
               PROVE  Passed(g[1..m + 1], a, m + 1)
    OBVIOUS
  <2> HIDE DEF n, P
  <2>1. g[1..m + 1] = Execute(g[1..m], a.pool[m + 1])
    BY <1>7
  <2>2. a.pool[m + 1] \in Tx
    <3>1. m + 1 \in 1..n
      BY <1>2
    <3>2. QED BY <1>1, <3>1 DEF n
  <2>3. Passed(g[1..m], a, m)
    BY <1>2, <1>8 DEF P
  <2> DEFINE r == g[1..m]
             e == Execute(r, a.pool[m + 1])
  <2>4. Executed(e, r)
    BY <2>2, <2>3, ExecuteFacts DEF Passed
  <2> HIDE DEF r, e
  <2>5. Passed(e, a, m + 1)
    <3>1. Len(r.receipts) = Len(a.receipts) + m
      BY <2>3 DEF r, Passed
    <3>2. Len(r.receipts) + 1 = Len(a.receipts) + (m + 1)
      BY <1>2, <3>1
    <3>3. QED BY <2>3, <2>4, <3>2 DEF Executed, Passed, r
  <2>6. QED BY <2>1, <2>5 DEF e, r
<1>9. \A m \in Nat : m \in P
  <2> HIDE DEF P
  <2>1. QED BY <1>6, <1>8, SetInduction
<1>10. /\ \A m \in 0..n : Passed(g[1..m], a, m)
       /\ \A m \in 0..n - 1 : g[1..m + 1] = Execute(g[1..m], a.pool[m + 1])
  <2> HIDE DEF n
  <2>1. /\ \A m \in 0..n : m \in Nat /\ m <= n
        /\ \A m \in 0..n - 1 : m \in Nat /\ m + 1 <= n
    BY <1>2
  <2>2. QED BY <1>7, <1>9, <2>1
<1> DEFINE h == [m \in 0..n |-> g[1..m]]
<1>11. /\ \A m \in 0..n : h[m] = g[1..m]
       /\ \A m \in 0..n - 1 : h[m + 1] = g[1..m + 1] /\ h[m] = g[1..m]
       /\ 0 \in 0..n /\ n \in 0..n
  <2> HIDE DEF n
  <2>1. \A m \in 0..n - 1 : m \in 0..n /\ m + 1 \in 0..n
    BY <1>2
  <2>2. 0 \in 0..n /\ n \in 0..n
    BY <1>2
  <2>3. QED BY <2>1, <2>2
<1> HIDE DEF h
<1>12. Rounds(h, a)
  BY <1>4, <1>5, <1>10, <1>11 DEF Rounds
<1>13. QED BY <1>3, <1>11, <1>12

(* What a block leaves of the node. *)
Blocked(r, a) ==
    /\ Sound(r)
    /\ r.up = a.up /\ r.automine = a.automine /\ r.pool = <<>>
    /\ Len(r.receipts) = Len(a.receipts) + Len(a.pool)

(* A block takes the whole pool, and leaves one receipt for each of its     *)
(* transactions.                                                            *)
LEMMA MinedFacts ==
  ASSUME NEW a, Sound(a)
  PROVE  Blocked(Mined(a), a)
<1>1. Len(a.pool) \in 0..Len(a.pool)
  BY DEF Sound, Node
<1>2. PICK h : Rounds(h, a) /\ Mined(a) = h[Len(a.pool)]
  BY MinedInRounds
<1>3. Passed(Mined(a), a, Len(a.pool))
  BY <1>1, <1>2 DEF Rounds
<1>4. QED BY <1>3 DEF Passed, Blocked
-----------------------------------------------------------------------------
(***************************************************************************)
(* The shape of a program: what each statement is to automine, and to the   *)
(* reserves that decide which statements there are.  It is a sequence of    *)
(* tags, and a constant.                                                    *)
(***************************************************************************)
Tag == {"open", "send", "close", "bundle", "calm", "one", "two", "both"}

(* A block of managed automine with n calls of cast send in it. *)
Span(n) == [k \in 1..n + 2 |-> IF k = 1 THEN "open" ELSE IF k = n + 2 THEN "close" ELSE "send"]

(* ensure_pool_liquidity and ensure_exact_pool_liquidity: one reading,      *)
(* which decides whether liquidity is added.                                *)
EnsureShape(enough) == <<"one">> \o IF enough THEN <<>> ELSE Span(5)
ExactShape(tag, empty) == <<tag>> \o IF empty THEN Span(5) \o <<"calm", "calm">> ELSE <<"calm">>

(* The shape of a scenario, given what it finds in the two pools. *)
ShapeOf(name, one, two) ==
    CASE name = "seed-pools" ->
            <<"calm", "both">> \o Span(10) \o <<"calm", "calm">>
      [] name = "token-transfer" ->
            <<"calm", "calm">> \o Span(1) \o <<"calm", "calm", "bundle", "calm", "calm", "calm">>
      [] name = "bundle-simulation" ->
            <<"calm", "calm">> \o Span(1)
                \o <<"calm", "bundle", "calm", "calm", "calm", "bundle", "calm", "calm">>
      [] name \in {"victim-swap", "victim-swap-revert"} ->
            <<"calm", "calm">> \o EnsureShape(one) \o Span(2)
                \o <<"calm", "calm", "bundle", "calm", "calm", "calm">>
      [] name = "backrun" ->
            <<"calm", "calm">> \o ExactShape("one", one) \o ExactShape("two", two)
                \o <<"calm", "calm">> \o Span(2) \o Span(1)
                \o <<"calm", "calm", "calm", "calm", "calm", "bundle", "calm", "calm", "calm">>
      [] name = "mempool-sequence" ->
            <<"calm", "calm", "calm">> \o <<"calm", "calm", "calm", "calm">>
                \o <<"calm", "calm", "calm", "calm">>

(* What is under a try, or is its finally clause. *)
Inside == {"send", "close"}

(* A block is entered where it begins and left where it ends. *)
Disciplined(t) ==
    /\ t \in Seq(Tag)
    /\ \A k \in 1..Len(t) :
          /\ t[k] \in {"open", "send"} => k < Len(t) /\ t[k + 1] \in Inside
          /\ t[k] \in Inside => k > 1 /\ t[k - 1] \in {"open", "send"}
          /\ t[k] = "send" => \E j \in k + 1..Len(t) : t[j] = "close"

(* Automine is switched off somewhere in t; a tag of tags is nowhere in it. *)
Closing(t) == \E k \in 1..Len(t) : t[k] = "close"
Lacks(t, tags) == \A k \in 1..Len(t) : t[k] \notin tags

(* Bundles come after automine was switched off once. *)
Guarded(t) == \A k \in 1..Len(t) : t[k] = "bundle" => \E j \in 1..k - 1 : t[j] = "close"

(* The tags of two shapes put together are those of the one, then those of  *)
(* the other.                                                               *)
LEMMA TagsJoin ==
  ASSUME NEW t \in Seq(Tag), NEW u \in Seq(Tag)
  PROVE  /\ t \o u \in Seq(Tag)
         /\ Len(t) \in Nat /\ Len(u) \in Nat /\ Len(t \o u) = Len(t) + Len(u)
         /\ \A k \in 1..Len(t) : (t \o u)[k] = t[k]
         /\ \A k \in Len(t) + 1..Len(t) + Len(u) : (t \o u)[k] = u[k - Len(t)]
  OBVIOUS

(* Shapes whose blocks are entered and left as they should be can be put    *)
(* together.                                                                *)
LEMMA DisciplineJoins ==
  ASSUME NEW t, NEW u, Disciplined(t), Disciplined(u)
  PROVE  Disciplined(t \o u)
<1> DEFINE v == t \o u
<1>1. t \in Seq(Tag) /\ u \in Seq(Tag)
  BY DEF Disciplined
<1>2. /\ v \in Seq(Tag)
      /\ Len(t) \in Nat /\ Len(u) \in Nat /\ Len(v) = Len(t) + Len(u)
      /\ \A k \in 1..Len(t) : v[k] = t[k]
      /\ \A k \in Len(t) + 1..Len(t) + Len(u) : v[k] = u[k - Len(t)]
  BY <1>1, TagsJoin
<1> HIDE DEF v
<1>3. SUFFICES ASSUME NEW k \in 1..Len(v)
               PROVE  /\ v[k] \in {"open", "send"} => k < Len(v) /\ v[k + 1] \in Inside
                      /\ v[k] \in Inside => k > 1 /\ v[k - 1] \in {"open", "send"}
                      /\ v[k] = "send" => \E j \in k + 1..Len(v) : v[j] = "close"
  BY <1>2 DEF Disciplined, v
<1>4. CASE k \in 1..Len(t)
  <2>1. v[k] = t[k]
    BY <1>2, <1>4
  <2>2. v[k] \in {"open", "send"} => k < Len(v) /\ v[k + 1] \in Inside
    <3> SUFFICES ASSUME v[k] \in {"open", "send"}
                 PROVE  k < Len(v) /\ v[k + 1] \in Inside
      OBVIOUS
    <3>1. k < Len(t) /\ t[k + 1] \in Inside
      BY <1>4, <2>1 DEF Disciplined
    <3>2. QED BY <1>2, <3>1
  <2>3. v[k] \in Inside => k > 1 /\ v[k - 1] \in {"open", "send"}
    <3> SUFFICES ASSUME v[k] \in Inside
                 PROVE  k > 1 /\ v[k - 1] \in {"open", "send"}
      OBVIOUS
    <3>1. k > 1 /\ t[k - 1] \in {"open", "send"}
      BY <1>4, <2>1 DEF Disciplined
    <3>2. QED BY <1>2, <1>4, <3>1
  <2>4. v[k] = "send" => \E j \in k + 1..Len(v) : v[j] = "close"
    <3> SUFFICES ASSUME v[k] = "send"
                 PROVE  \E j \in k + 1..Len(v) : v[j] = "close"
      OBVIOUS
    <3>1. PICK j \in k + 1..Len(t) : t[j] = "close"
      BY <1>4, <2>1 DEF Disciplined
    <3>2. QED BY <1>2, <3>1
  <2>5. QED BY <2>2, <2>3, <2>4
<1>5. CASE k \notin 1..Len(t)
  <2> DEFINE i == k - Len(t)
  <2>1. /\ i \in 1..Len(u) /\ k = Len(t) + i /\ k \in Len(t) + 1..Len(t) + Len(u)
        /\ v[k] = u[i]
    BY <1>2, <1>5
  <2> HIDE DEF i
  <2>2. v[k] \in {"open", "send"} => k < Len(v) /\ v[k + 1] \in Inside
    <3> SUFFICES ASSUME v[k] \in {"open", "send"}
                 PROVE  k < Len(v) /\ v[k + 1] \in Inside
      OBVIOUS
    <3>1. i < Len(u) /\ u[i + 1] \in Inside
      BY <2>1 DEF Disciplined
    <3>2. v[k + 1] = u[i + 1]
      <4>1. k + 1 \in Len(t) + 1..Len(t) + Len(u) /\ k + 1 - Len(t) = i + 1
        BY <1>2, <2>1, <3>1
      <4>2. QED BY <1>2, <4>1
    <3>3. QED BY <1>2, <2>1, <3>1, <3>2
  <2>3. v[k] \in Inside => k > 1 /\ v[k - 1] \in {"open", "send"}
    <3> SUFFICES ASSUME v[k] \in Inside
                 PROVE  k > 1 /\ v[k - 1] \in {"open", "send"}
      OBVIOUS
    <3>1. i > 1 /\ u[i - 1] \in {"open", "send"}
      BY <2>1 DEF Disciplined
    <3>2. v[k - 1] = u[i - 1]
      <4>1. k - 1 \in Len(t) + 1..Len(t) + Len(u) /\ k - 1 - Len(t) = i - 1
        BY <1>2, <2>1, <3>1
      <4>2. QED BY <1>2, <4>1
    <3>3. QED BY <1>2, <2>1, <3>1, <3>2
  <2>4. v[k] = "send" => \E j \in k + 1..Len(v) : v[j] = "close"
    <3> SUFFICES ASSUME v[k] = "send"
                 PROVE  \E j \in k + 1..Len(v) : v[j] = "close"
      OBVIOUS
    <3>1. PICK j \in i + 1..Len(u) : u[j] = "close"
      BY <2>1 DEF Disciplined
    <3>2. v[Len(t) + j] = u[j] /\ Len(t) + j \in k + 1..Len(v)
      <4>1. Len(t) + j \in Len(t) + 1..Len(t) + Len(u) /\ Len(t) + j - Len(t) = j
        BY <1>2, <2>1, <3>1
      <4>2. v[Len(t) + j] = u[j]
        <5>1. \A l \in Len(t) + 1..Len(t) + Len(u) : v[l] = u[l - Len(t)]
          BY <1>2
        <5>2. QED BY ONLY <4>1, <5>1
      <4>3. Len(t) + j \in k + 1..Len(v)
        BY <1>2, <2>1, <3>1
      <4>4. QED BY <4>2, <4>3
    <3>3. QED BY <3>1, <3>2
  <2>5. QED BY <2>2, <2>3, <2>4
<1>6. QED BY <1>4, <1>5

(* What is in neither of two shapes is not in the two put together. *)
LEMMA LacksJoins ==
  ASSUME NEW t \in Seq(Tag), NEW u \in Seq(Tag), NEW tags, Lacks(t, tags), Lacks(u, tags)
  PROVE  Lacks(t \o u, tags)
  BY TagsJoin DEF Lacks

(* The two facts above in one. *)
LEMMA JoinFacts ==
  ASSUME NEW t \in Seq(Tag), NEW u \in Seq(Tag), Disciplined(t), Disciplined(u),
         NEW tags, Lacks(t, tags), Lacks(u, tags)
  PROVE  t \o u \in Seq(Tag) /\ Disciplined(t \o u) /\ Lacks(t \o u, tags)
  BY TagsJoin, DisciplineJoins, LacksJoins

(* Automine is switched off in what is put together if it is in one of the  *)
(* parts.                                                                   *)
LEMMA ClosingJoins ==
  ASSUME NEW t \in Seq(Tag), NEW u \in Seq(Tag), Closing(t) \/ Closing(u)
  PROVE  Closing(t \o u)
<1>1. CASE Closing(t)
  BY <1>1, TagsJoin DEF Closing
<1>2. CASE Closing(u)
  <2>1. PICK k \in 1..Len(u) : u[k] = "close"
    BY <1>2 DEF Closing
  <2>2. Len(t) + k \in Len(t) + 1..Len(t) + Len(u) /\ Len(t) + k - Len(t) = k
    BY <2>1
  <2>3. (t \o u)[Len(t) + k] = u[k] /\ Len(t) + k \in 1..Len(t \o u)
    BY <2>1, <2>2, TagsJoin
  <2>4. QED BY <2>1, <2>3 DEF Closing
<1>3. QED BY <1>1, <1>2

(* What has switched automine off can be followed by bundles. *)
LEMMA GuardedAfter ==
  ASSUME NEW t \in Seq(Tag), NEW u \in Seq(Tag), Lacks(t, {"bundle"}), Closing(t)
  PROVE  Guarded(t \o u)
<1>1. PICK c \in 1..Len(t) : t[c] = "close"
  BY DEF Closing
<1>2. SUFFICES ASSUME NEW k \in 1..Len(t \o u), (t \o u)[k] = "bundle"
               PROVE  \E j \in 1..k - 1 : (t \o u)[j] = "close"
  BY DEF Guarded
<1>3. k \notin 1..Len(t)
  BY <1>2, TagsJoin DEF Lacks
<1>4. c \in 1..k - 1 /\ (t \o u)[c] = "close"
  BY <1>1, <1>3, TagsJoin
<1>5. QED BY <1>4

(* A sequence of some tags lacks the others. *)
LEMMA SeqLacks ==
  ASSUME NEW S \in SUBSET Tag, NEW t \in Seq(S), NEW tags, S \cap tags = {}
  PROVE  t \in Seq(Tag) /\ Lacks(t, tags)
<1>1. \A k \in 1..Len(t) : t[k] \in S
  OBVIOUS
<1>2. QED BY <1>1 DEF Lacks

(* A shape without a block is disciplined. *)
LEMMA CalmIsDisciplined ==
  ASSUME NEW t \in Seq(Tag), Lacks(t, {"open", "send", "close"})
  PROVE  Disciplined(t)
  BY DEF Disciplined, Lacks, Inside

(* A block is disciplined, switches automine off in the end and has only    *)
(* calls of cast send in it.                                                *)
LEMMA SpanFacts ==
  ASSUME NEW n \in Nat, n > 0
  PROVE  /\ Span(n) \in Seq(Tag) /\ Len(Span(n)) = n + 2
         /\ Disciplined(Span(n)) /\ Closing(Span(n))
         /\ Lacks(Span(n), {"bundle", "calm", "one", "two", "both"})
<1> DEFINE t == Span(n)
<1>1. t \in Seq(Tag) /\ Len(t) = n + 2
      /\ \A k \in 1..n + 2 : t[k] = IF k = 1 THEN "open" ELSE IF k = n + 2 THEN "close" ELSE "send"
  BY DEF Span, Tag
<1> HIDE DEF t
<1>2. n + 2 \in 1..n + 2 /\ t[n + 2] = "close"
  BY <1>1
<1>3. Closing(t)
  BY <1>1, <1>2 DEF Closing
<1>4. Lacks(t, {"bundle", "calm", "one", "two", "both"})
  BY <1>1 DEF Lacks
<1>5. ASSUME NEW k \in 1..Len(t)
      PROVE  /\ t[k] \in {"open", "send"} => k < Len(t) /\ t[k + 1] \in Inside
             /\ t[k] \in Inside => k > 1 /\ t[k - 1] \in {"open", "send"}
             /\ t[k] = "send" => \E j \in k + 1..Len(t) : t[j] = "close"
  <2>1. t[k] \in {"open", "send"} => k < n + 2
    BY <1>1
  <2>2. k < n + 2 => k + 1 \in 2..n + 2 /\ t[k + 1] \in Inside
    BY <1>1 DEF Inside
  <2>3. t[k] \in Inside => k > 1 /\ t[k - 1] \in {"open", "send"}
    BY <1>1 DEF Inside
  <2>4. k < n + 2 => n + 2 \in k + 1..Len(t)
    BY <1>1
  <2>5. QED BY <1>1, <1>2, <2>1, <2>2, <2>3, <2>4
<1>6. Disciplined(t)
  BY <1>1, <1>5 DEF Disciplined
<1>7. QED BY <1>1, <1>3, <1>4, <1>6 DEF t

(* ensure_pool_liquidity is disciplined, whatever it decides. *)
LEMMA EnsureFacts ==
  ASSUME NEW enough
  PROVE  /\ EnsureShape(enough) \in Seq(Tag)
         /\ Disciplined(EnsureShape(enough)) /\ Lacks(EnsureShape(enough), {"bundle", "two", "both"})
<1> DEFINE rest == IF enough THEN <<>> ELSE Span(5)
<1>1. rest \in Seq(Tag) /\ Disciplined(rest) /\ Lacks(rest, {"bundle", "two", "both"})
  <2>1. Span(5) \in Seq(Tag) /\ Disciplined(Span(5)) /\ Lacks(Span(5), {"bundle", "two", "both"})
    BY SpanFacts DEF Lacks
  <2>2. << >> \in Seq(Tag) /\ Disciplined(<< >>) /\ Lacks(<< >>, {"bundle", "two", "both"})
    BY DEF Disciplined, Lacks
  <2>3. QED BY <2>1, <2>2
<1>2. <<"one">> \in Seq({"one"})
  OBVIOUS
<1>3. /\ <<"one">> \in Seq(Tag)
      /\ Lacks(<<"one">>, {"bundle", "two", "both"}) /\ Lacks(<<"one">>, {"open", "send", "close"})
  <2>1. /\ {"one"} \in SUBSET Tag /\ {"one"} \cap {"bundle", "two", "both"} = {}
        /\ {"one"} \cap {"open", "send", "close"} = {}
    BY DEF Tag
  <2>2. QED BY <1>2, <2>1, SeqLacks
<1>4. Disciplined(<<"one">>)
  BY <1>3, CalmIsDisciplined
<1>5. EnsureShape(enough) = <<"one">> \o rest
  BY DEF EnsureShape
<1> HIDE DEF rest
<1>6. QED BY <1>1, <1>3, <1>4, <1>5, JoinFacts

(* So is ensure_exact_pool_liquidity. *)
LEMMA ExactFacts ==
  ASSUME NEW tag \in {"one", "two"}, NEW empty
  PROVE  /\ ExactShape(tag, empty) \in Seq(Tag)
         /\ Disciplined(ExactShape(tag, empty))
         /\ Lacks(ExactShape(tag, empty), {"bundle", "both"} \cup ({"one", "two"} \ {tag}))
<1> DEFINE others == {"bundle", "both"} \cup ({"one", "two"} \ {tag})
           rest == IF empty THEN Span(5) \o <<"calm", "calm">> ELSE <<"calm">>
<1>1. <<tag>> \in Seq({tag}) /\ <<"calm">> \in Seq({"calm"}) /\ <<"calm", "calm">> \in Seq({"calm"})
  OBVIOUS
<1>2. {tag} \in SUBSET Tag /\ {tag} \cap others = {} /\ {tag} \cap {"open", "send", "close"} = {}
      /\ {"calm"} \in SUBSET Tag /\ {"calm"} \cap others = {}
      /\ {"calm"} \cap {"open", "send", "close"} = {}
  BY DEF Tag
<1>3. Span(5) \in Seq(Tag) /\ Disciplined(Span(5)) /\ Lacks(Span(5), others)
  BY SpanFacts DEF Lacks
<1> HIDE DEF others
<1>4. /\ <<tag>> \in Seq(Tag) /\ Lacks(<<tag>>, others) /\ Disciplined(<<tag>>)
      /\ <<"calm">> \in Seq(Tag) /\ Lacks(<<"calm">>, others) /\ Disciplined(<<"calm">>)
      /\ <<"calm", "calm">> \in Seq(Tag) /\ Lacks(<<"calm", "calm">>, others)
      /\ Disciplined(<<"calm", "calm">>)
  <2>1. \A t \in {<<tag>>, <<"calm">>, <<"calm", "calm">>} :
           t \in Seq(Tag) /\ Lacks(t, others) /\ Lacks(t, {"open", "send", "close"})
    BY <1>1, <1>2, SeqLacks
  <2>2. QED BY <2>1, CalmIsDisciplined
<1>5. rest \in Seq(Tag) /\ Disciplined(rest) /\ Lacks(rest, others)
  BY <1>3, <1>4, JoinFacts
<1>6. ExactShape(tag, empty) = <<tag>> \o rest
  BY DEF ExactShape
<1> HIDE DEF rest
<1>7. QED BY <1>4, <1>5, <1>6, JoinFacts DEF others

(* The names of the scenarios, and the rows of statements that they are     *)
(* made of besides blocks.                                                  *)
Names == {"seed-pools", "token-transfer", "bundle-simulation", "victim-swap",
          "victim-swap-revert", "backrun", "mempool-sequence"}

Two   == <<"calm", "calm">>
Three == <<"calm", "calm", "calm">>
Four  == <<"calm", "calm", "calm", "calm">>
Seeding == <<"calm", "both">>
Six   == <<"calm", "calm", "bundle", "calm", "calm", "calm">>
Eight == <<"calm", "bundle", "calm", "calm", "calm", "bundle", "calm", "calm">>
Nine  == <<"calm", "calm", "calm", "calm", "calm", "bundle", "calm", "calm", "calm">>

(* The rows are disciplined, having no blocks. *)
LEMMA LiteralFacts ==
  /\ Two \in Seq(Tag) /\ Disciplined(Two) /\ Lacks(Two, {"bundle", "one", "two", "both"}) /\ Len(Two) = 2
  /\ Three \in Seq(Tag) /\ Disciplined(Three) /\ Lacks(Three, {"bundle", "one", "two", "both"})
  /\ Len(Three) = 3
  /\ Four \in Seq(Tag) /\ Disciplined(Four) /\ Lacks(Four, {"bundle", "one", "two", "both"})
  /\ Len(Four) = 4
  /\ Seeding \in Seq(Tag) /\ Disciplined(Seeding) /\ Lacks(Seeding, {"bundle", "one", "two"})
  /\ Six \in Seq(Tag) /\ Disciplined(Six) /\ Lacks(Six, {"one", "two", "both"}) /\ Len(Six) = 6
  /\ Eight \in Seq(Tag) /\ Disciplined(Eight) /\ Lacks(Eight, {"one", "two", "both"}) /\ Len(Eight) = 8
  /\ Nine \in Seq(Tag) /\ Disciplined(Nine) /\ Lacks(Nine, {"one", "two", "both"}) /\ Len(Nine) = 9
<1>1. Two \in Seq({"calm"}) /\ Three \in Seq({"calm"}) /\ Four \in Seq({"calm"})
  BY DEF Two, Three, Four
<1>2. /\ Six \in Seq({"calm", "bundle"}) /\ Eight \in Seq({"calm", "bundle"})
      /\ Nine \in Seq({"calm", "bundle"})
  BY DEF Six, Eight, Nine
<1>3. Seeding \in Seq({"calm", "both"})
  BY DEF Seeding
<1>4. /\ {"calm"} \in SUBSET Tag /\ {"calm"} \cap {"bundle", "one", "two", "both"} = {}
      /\ {"calm"} \cap {"open", "send", "close"} = {}
      /\ {"calm", "bundle"} \in SUBSET Tag /\ {"calm", "bundle"} \cap {"one", "two", "both"} = {}
      /\ {"calm", "bundle"} \cap {"open", "send", "close"} = {}
      /\ {"calm", "both"} \in SUBSET Tag /\ {"calm", "both"} \cap {"bundle", "one", "two"} = {}
      /\ {"calm", "both"} \cap {"open", "send", "close"} = {}
  BY DEF Tag
<1>5. \A t \in {Two, Three, Four} : t \in Seq(Tag) /\ Disciplined(t)
                                       /\ Lacks(t, {"bundle", "one", "two", "both"})
  BY <1>1, <1>4, SeqLacks, CalmIsDisciplined
<1>6. \A t \in {Six, Eight, Nine} : t \in Seq(Tag) /\ Disciplined(t) /\ Lacks(t, {"one", "two", "both"})
  BY <1>2, <1>4, SeqLacks, CalmIsDisciplined
<1>7. Seeding \in Seq(Tag) /\ Disciplined(Seeding) /\ Lacks(Seeding, {"bundle", "one", "two"})
  BY <1>3, <1>4, SeqLacks, CalmIsDisciplined
<1>8. Len(Two) = 2 /\ Len(Three) = 3 /\ Len(Four) = 4 /\ Len(Six) = 6 /\ Len(Eight) = 8 /\ Len(Nine) = 9
  BY DEF Two, Three, Four, Six, Eight, Nine
<1>9. QED BY <1>5, <1>6, <1>7, <1>8

(* What lacks some tags lacks some of them. *)
LEMMA LacksLess ==
  ASSUME NEW t, NEW tags, NEW less \in SUBSET tags, Lacks(t, tags)
  PROVE  Lacks(t, less)
  BY DEF Lacks

(* A shape without bundles is guarded. *)
LEMMA LacksBundle ==
  ASSUME NEW t, Lacks(t, {"bundle"})
  PROVE  Guarded(t)
  BY DEF Lacks, Guarded

(* Shapes without bundles put together. *)
LEMMA SilentJoin ==
  ASSUME NEW t \in Seq(Tag), NEW u \in Seq(Tag), Disciplined(t), Disciplined(u),
         Lacks(t, {"bundle"}), Lacks(u, {"bundle"})
  PROVE  /\ t \o u \in Seq(Tag) /\ Disciplined(t \o u) /\ Lacks(t \o u, {"bundle"})
         /\ Closing(t) \/ Closing(u) => Closing(t \o u)
  BY JoinFacts, ClosingJoins

(* A shape without bundles that switches automine off, followed by any      *)
(* other.                                                                   *)
LEMMA ClosedJoin ==
  ASSUME NEW t \in Seq(Tag), NEW u \in Seq(Tag), Disciplined(t), Disciplined(u),
         Lacks(t, {"bundle"}), Closing(t)
  PROVE  t \o u \in Seq(Tag) /\ Disciplined(t \o u) /\ Guarded(t \o u)
  BY TagsJoin, DisciplineJoins, GuardedAfter

(* Every scenario enters and leaves its blocks, and mines its bundles after *)
(* one of them.                                                             *)
LEMMA ShapeFacts ==
  ASSUME NEW name \in Names, NEW one, NEW two
  PROVE  /\ ShapeOf(name, one, two) \in Seq(Tag)
         /\ Disciplined(ShapeOf(name, one, two)) /\ Guarded(ShapeOf(name, one, two))
<1> DEFINE Silent(t) == t \in Seq(Tag) /\ Disciplined(t) /\ Lacks(t, {"bundle"})
           Good(t)   == t \in Seq(Tag) /\ Disciplined(t) /\ Guarded(t)
<1>1. Silent(Two) /\ Silent(Three) /\ Silent(Four) /\ Silent(Seeding)
  BY LiteralFacts, LacksLess
<1>2. \A n \in {1, 2, 10} : Silent(Span(n)) /\ Closing(Span(n))
  BY SpanFacts, LacksLess
<1>3. Silent(EnsureShape(one)) /\ Silent(ExactShape("one", one)) /\ Silent(ExactShape("two", two))
  BY EnsureFacts, ExactFacts, LacksLess
<1>4. \A t, u : Silent(t) /\ Silent(u) => Silent(t \o u) /\ (Closing(t) \/ Closing(u) => Closing(t \o u))
  BY SilentJoin
<1>5. \A t, u : Silent(t) /\ Closing(t) /\ u \in {Six, Eight, Nine} => Good(t \o u)
  BY LiteralFacts, ClosedJoin
<1>6. \A t : Silent(t) => Good(t)
  BY LacksBundle
<1> HIDE DEF Silent, Good
<1>7. CASE name = "seed-pools"
  <2>1. ShapeOf(name, one, two) = Seeding \o Span(10) \o Two
    BY <1>7 DEF ShapeOf, Seeding, Two
  <2>2. QED BY <1>1, <1>2, <1>4, <1>6, <2>1 DEF Good
<1>8. CASE name = "token-transfer"
  <2>1. ShapeOf(name, one, two) = Two \o Span(1) \o Six
    BY <1>8 DEF ShapeOf, Two, Six
  <2>2. QED BY <1>1, <1>2, <1>4, <1>5, <2>1 DEF Good
<1>9. CASE name = "bundle-simulation"
  <2>1. ShapeOf(name, one, two) = Two \o Span(1) \o Eight
    BY <1>9 DEF ShapeOf, Two, Eight
  <2>2. QED BY <1>1, <1>2, <1>4, <1>5, <2>1 DEF Good
<1>10. CASE name \in {"victim-swap", "victim-swap-revert"}
  <2>1. ShapeOf(name, one, two) = Two \o EnsureShape(one) \o Span(2) \o Six
    BY <1>10 DEF ShapeOf, Two, Six
  <2>2. QED BY <1>1, <1>2, <1>3, <1>4, <1>5, <2>1 DEF Good
<1>11. CASE name = "backrun"
  <2>1. ShapeOf(name, one, two) = Two \o ExactShape("one", one) \o ExactShape("two", two)
                                     \o Two \o Span(2) \o Span(1) \o Nine
    BY <1>11 DEF ShapeOf, Two, Nine
  <2>2. QED BY <1>1, <1>2, <1>3, <1>4, <1>5, <2>1 DEF Good
<1>12. CASE name = "mempool-sequence"
  <2>1. ShapeOf(name, one, two) = Three \o Four \o Four
    BY <1>12 DEF ShapeOf, Three, Four
  <2>2. QED BY <1>1, <1>4, <1>6, <2>1 DEF Good
<1>13. QED BY <1>7, <1>8, <1>9, <1>10, <1>11, <1>12 DEF Names

(* Two shapes that begin with the same k tags. *)
Starts(t, u, k) ==
    /\ t \in Seq(Tag) /\ u \in Seq(Tag)
    /\ k \in 1..Len(t) /\ k \in 1..Len(u)
    /\ \A j \in 1..k : u[j] = t[j]

(* Shapes with a common beginning have it, whatever follows them. *)
LEMMA StartsGoOn ==
  ASSUME NEW t, NEW u, NEW k, Starts(t, u, k), NEW v \in Seq(Tag), NEW w \in Seq(Tag)
  PROVE  /\ Starts(t \o v, u \o w, k)
         /\ Len(w) > 0 => k < Len(u \o w)
<1>1. t \in Seq(Tag) /\ u \in Seq(Tag) /\ k \in 1..Len(t) /\ k \in 1..Len(u)
  BY DEF Starts
<1>2. /\ t \o v \in Seq(Tag) /\ Len(t \o v) = Len(t) + Len(v)
      /\ u \o w \in Seq(Tag) /\ Len(u \o w) = Len(u) + Len(w)
      /\ Len(t) \in Nat /\ Len(v) \in Nat /\ Len(u) \in Nat /\ Len(w) \in Nat
  BY <1>1, TagsJoin
<1>3. \A j \in 1..k : (t \o v)[j] = t[j] /\ (u \o w)[j] = u[j]
  BY <1>1, <1>2, TagsJoin
<1>4. QED BY <1>1, <1>2, <1>3 DEF Starts

(* So they have after the same head, counted from its end. *)
LEMMA StartsAfter ==
  ASSUME NEW t, NEW u, NEW k, Starts(t, u, k), NEW h \in Seq(Tag)
  PROVE  Starts(h \o t, h \o u, Len(h) + k)
<1>1. t \in Seq(Tag) /\ u \in Seq(Tag) /\ k \in 1..Len(t) /\ k \in 1..Len(u)
  BY DEF Starts
<1>2. /\ h \o t \in Seq(Tag) /\ Len(h \o t) = Len(h) + Len(t)
      /\ h \o u \in Seq(Tag) /\ Len(h \o u) = Len(h) + Len(u)
      /\ Len(h) \in Nat /\ Len(t) \in Nat /\ Len(u) \in Nat
  BY <1>1, TagsJoin
<1>3. ASSUME NEW j \in 1..Len(h) + k
      PROVE  (h \o u)[j] = (h \o t)[j]
  <2>1. CASE j \in 1..Len(h)
    BY <1>1, <2>1, TagsJoin
  <2>2. CASE j \notin 1..Len(h)
    <3>1. j - Len(h) \in 1..k /\ j \in Len(h) + 1..Len(h) + Len(t) /\ j \in Len(h) + 1..Len(h) + Len(u)
      BY <1>1, <1>2, <2>2
    <3>2. (h \o u)[j] = u[j - Len(h)] /\ (h \o t)[j] = t[j - Len(h)]
      BY <1>1, <3>1, TagsJoin
    <3>3. QED BY <3>1, <3>2 DEF Starts
  <2>3. QED BY <2>1, <2>2
<1>4. Len(h) + k \in 1..Len(h \o t) /\ Len(h) + k \in 1..Len(h \o u)
  BY <1>1, <1>2
<1>5. QED BY <1>2, <1>3, <1>4 DEF Starts

(* Where a tag is in a shape that was put together. *)
LEMMA Found ==
  ASSUME NEW t \in Seq(Tag), NEW u \in Seq(Tag), NEW k \in 1..Len(t \o u), NEW tag,
         (t \o u)[k] = tag
  PROVE  /\ Lacks(u, {tag}) => k \in 1..Len(t) /\ t[k] = tag
         /\ Lacks(t, {tag}) => k - Len(t) \in 1..Len(u) /\ u[k - Len(t)] = tag
<1>1. /\ Len(t) \in Nat /\ Len(u) \in Nat /\ Len(t \o u) = Len(t) + Len(u)
      /\ \A j \in 1..Len(t) : (t \o u)[j] = t[j]
      /\ \A j \in Len(t) + 1..Len(t) + Len(u) : (t \o u)[j] = u[j - Len(t)]
  BY TagsJoin
<1>2. CASE k \in 1..Len(t)
  BY <1>1, <1>2 DEF Lacks
<1>3. CASE k \notin 1..Len(t)
  <2>1. k - Len(t) \in 1..Len(u) /\ k \in Len(t) + 1..Len(t) + Len(u)
    BY <1>1, <1>3
  <2>2. u[k - Len(t)] = tag
    BY <1>1, <2>1
  <2>3. QED BY <1>3, <2>1, <2>2 DEF Lacks
<1>4. QED BY <1>2, <1>3

(* The shape that a program goes on with after a reading of reserves: what  *)
(* it has run is the same, and there is more of it to run.                  *)
Continues(t, u, k) ==
    Starts(t, u, k) /\ k < Len(u)

(* A shape that goes on goes on with more behind it. *)
LEMMA ContinuesGoOn ==
  ASSUME NEW t, NEW u, NEW k, Continues(t, u, k), NEW v \in Seq(Tag), NEW w \in Seq(Tag)
  PROVE  Continues(t \o v, u \o w, k)
<1>1. u \in Seq(Tag) /\ k < Len(u) /\ k \in Nat
  BY DEF Continues, Starts
<1>2. k < Len(u \o w)
  BY <1>1, TagsJoin
<1>3. QED BY <1>2, StartsGoOn DEF Continues

(* A shape that may become another one where it has the tag, what it has    *)
(* gone through being the same; with more to go through in the second case. *)
Switches(t, u, tag) ==
    /\ t \in Seq(Tag) /\ u \in Seq(Tag)
    /\ \A k \in 1..Len(t) : t[k] = tag => Starts(t, u, k)
SwitchesInside(t, u, tag) ==
    /\ t \in Seq(Tag) /\ u \in Seq(Tag)
    /\ \A k \in 1..Len(t) : t[k] = tag => Continues(t, u, k)

(* The tag is not in what follows. *)
LEMMA SwitchesBefore ==
  ASSUME NEW t, NEW u, NEW tag, Switches(t, u, tag), NEW v \in Seq(Tag), Lacks(v, {tag})
  PROVE  /\ Switches(t \o v, u \o v, tag)
         /\ Len(v) > 0 => SwitchesInside(t \o v, u \o v, tag)
<1>1. t \in Seq(Tag) /\ u \in Seq(Tag)
  BY DEF Switches
<1>2. t \o v \in Seq(Tag) /\ u \o v \in Seq(Tag)
  BY <1>1, TagsJoin
<1>3. ASSUME NEW k \in 1..Len(t \o v), (t \o v)[k] = tag
      PROVE  Starts(t, u, k)
  <2>1. k \in 1..Len(t)
    BY <1>1, <1>3, Found
  <2>2. t[k] = tag
    BY <1>1, <1>3, <2>1, TagsJoin
  <2>3. QED BY <2>1, <2>2 DEF Switches
<1>4. ASSUME NEW k \in 1..Len(t \o v), (t \o v)[k] = tag
      PROVE  Starts(t \o v, u \o v, k) /\ (Len(v) > 0 => k < Len(u \o v))
  BY <1>3, <1>4, StartsGoOn
<1>5. QED BY <1>2, <1>4 DEF Switches, SwitchesInside, Continues

(* The same, for a shape that has more to go through already. *)
LEMMA SwitchesBeforeMore ==
  ASSUME NEW t, NEW u, NEW tag, SwitchesInside(t, u, tag), NEW v \in Seq(Tag), Lacks(v, {tag})
  PROVE  SwitchesInside(t \o v, u \o v, tag)
<1>1. t \in Seq(Tag) /\ u \in Seq(Tag)
  BY DEF SwitchesInside
<1>2. t \o v \in Seq(Tag) /\ u \o v \in Seq(Tag)
  BY <1>1, TagsJoin
<1>3. ASSUME NEW k \in 1..Len(t \o v), (t \o v)[k] = tag
      PROVE  Continues(t, u, k)
  <2>1. k \in 1..Len(t)
    BY <1>1, <1>3, Found
  <2>2. t[k] = tag
    BY <1>1, <1>3, <2>1, TagsJoin
  <2>3. QED BY <2>1, <2>2 DEF SwitchesInside
<1>4. ASSUME NEW k \in 1..Len(t \o v), (t \o v)[k] = tag
      PROVE  Continues(t \o v, u \o v, k)
  BY <1>3, <1>4, ContinuesGoOn
<1>5. QED BY <1>2, <1>4 DEF SwitchesInside

(* The tag is not in what goes before. *)
LEMMA SwitchesAfter ==
  ASSUME NEW t, NEW u, NEW tag, NEW h \in Seq(Tag), Lacks(h, {tag})
  PROVE  /\ Switches(t, u, tag) => Switches(h \o t, h \o u, tag)
         /\ SwitchesInside(t, u, tag) => SwitchesInside(h \o t, h \o u, tag)
<1>1. ASSUME t \in Seq(Tag), u \in Seq(Tag)
      PROVE  /\ h \o t \in Seq(Tag) /\ h \o u \in Seq(Tag) /\ Len(h \o u) = Len(h) + Len(u)
             /\ Len(h) \in Nat /\ Len(u) \in Nat
  BY <1>1, TagsJoin
<1>2. ASSUME t \in Seq(Tag), NEW k \in 1..Len(h \o t), (h \o t)[k] = tag
      PROVE  k - Len(h) \in 1..Len(t) /\ t[k - Len(h)] = tag /\ Len(h) + (k - Len(h)) = k
  <2>1. k - Len(h) \in 1..Len(t) /\ t[k - Len(h)] = tag
    BY <1>2, Found
  <2>2. QED BY <2>1
<1>3. ASSUME Switches(t, u, tag), NEW k \in 1..Len(h \o t), (h \o t)[k] = tag
      PROVE  Starts(h \o t, h \o u, k)
  <2>1. Starts(t, u, k - Len(h))
    BY <1>2, <1>3 DEF Switches
  <2>2. Starts(h \o t, h \o u, Len(h) + (k - Len(h)))
    BY <2>1, StartsAfter
  <2>3. QED BY <1>2, <1>3, <2>2 DEF Switches
<1>4. ASSUME SwitchesInside(t, u, tag), NEW k \in 1..Len(h \o t), (h \o t)[k] = tag
      PROVE  Continues(h \o t, h \o u, k)
  <2>1. Starts(t, u, k - Len(h)) /\ k - Len(h) < Len(u)
    BY <1>2, <1>4 DEF SwitchesInside, Continues
  <2>2. Starts(h \o t, h \o u, Len(h) + (k - Len(h)))
    BY <2>1, StartsAfter
  <2>3. k < Len(h \o u)
    BY <1>1, <1>2, <1>4, <2>1 DEF SwitchesInside
  <2>4. QED BY <1>2, <1>4, <2>2, <2>3 DEF SwitchesInside, Continues
<1>5. QED BY <1>1, <1>3, <1>4 DEF Switches, SwitchesInside

(* A shape that has the tag first and nowhere else. *)
LEMMA SwitchesAtOnce ==
  ASSUME NEW tag \in Tag, NEW r \in Seq(Tag), NEW s \in Seq(Tag), Lacks(r, {tag})
  PROVE  /\ Switches(<<tag>> \o r, <<tag>> \o s, tag)
         /\ Len(s) > 0 => SwitchesInside(<<tag>> \o r, <<tag>> \o s, tag)
<1>1. <<tag>> \in Seq(Tag) /\ Len(<<tag>>) = 1
  OBVIOUS
<1>2. <<tag>> \o r \in Seq(Tag) /\ <<tag>> \o s \in Seq(Tag)
  BY <1>1, TagsJoin
<1>3. Starts(<<tag>>, <<tag>>, 1)
  BY <1>1 DEF Starts
<1>4. Starts(<<tag>> \o r, <<tag>> \o s, 1) /\ (Len(s) > 0 => 1 < Len(<<tag>> \o s))
  BY <1>3, StartsGoOn
<1>5. ASSUME NEW k \in 1..Len(<<tag>> \o r), (<<tag>> \o r)[k] = tag
      PROVE  k = 1
  <2>1. k \in 1..Len(<<tag>>)
    BY <1>1, <1>5, Found
  <2>2. QED BY <1>1, <2>1
<1>6. QED BY <1>2, <1>4, <1>5 DEF Switches, SwitchesInside, Continues

(* The block that reads the reserves of a pool decides there how it goes on. *)
LEMMA EnsureSwitches ==
  ASSUME NEW d, NEW e
  PROVE  Switches(EnsureShape(d), EnsureShape(e), "one")
<1>1. Span(5) \in Seq(Tag) /\ Lacks(Span(5), {"bundle", "calm", "one", "two", "both"})
  BY SpanFacts
<1>2. Lacks(Span(5), {"one"})
  BY <1>1, LacksLess
<1>3. <<>> \in Seq(Tag) /\ Lacks(<<>>, {"one"})
  BY DEF Lacks
<1> DEFINE r == IF d THEN <<>> ELSE Span(5)
           s == IF e THEN <<>> ELSE Span(5)
<1>4. r \in Seq(Tag) /\ Lacks(r, {"one"})
  BY <1>1, <1>2, <1>3
<1>5. s \in Seq(Tag)
  BY <1>1, <1>3
<1>6. EnsureShape(d) = <<"one">> \o r /\ EnsureShape(e) = <<"one">> \o s
  BY DEF EnsureShape
<1>7. "one" \in Tag
  BY DEF Tag
<1> HIDE DEF r, s
<1>8. QED BY <1>4, <1>5, <1>6, <1>7, SwitchesAtOnce

(* The same of ensure_exact_pool_liquidity, where something follows either  *)
(* way.                                                                     *)
LEMMA ExactSwitches ==
  ASSUME NEW tag \in {"one", "two"}, NEW d, NEW e
  PROVE  SwitchesInside(ExactShape(tag, d), ExactShape(tag, e), tag)
<1>1. Span(5) \in Seq(Tag) /\ Lacks(Span(5), {"bundle", "calm", "one", "two", "both"})
  BY SpanFacts
<1>2. Two \in Seq(Tag) /\ Lacks(Two, {"bundle", "one", "two", "both"}) /\ Len(Two) = 2
  BY LiteralFacts
<1>3. Lacks(Span(5), {tag}) /\ Lacks(Two, {tag})
  BY <1>1, <1>2, LacksLess
<1>4. /\ Span(5) \o Two \in Seq(Tag) /\ Lacks(Span(5) \o Two, {tag})
      /\ Len(Span(5) \o Two) > 0
  <2>1. Len(Span(5) \o Two) = Len(Span(5)) + Len(Two) /\ Len(Span(5)) \in Nat
    BY <1>1, <1>2, TagsJoin
  <2>2. QED BY <1>1, <1>2, <1>3, <2>1, TagsJoin, LacksJoins
<1>5. <<"calm">> \in Seq(Tag) /\ Lacks(<<"calm">>, {tag}) /\ Len(<<"calm">>) > 0
  BY DEF Tag, Lacks
<1> DEFINE Decided == <<"calm">>
           Seeded == Span(5) \o Two
           r == IF d THEN Seeded ELSE Decided
           s == IF e THEN Seeded ELSE Decided
<1>6. ExactShape(tag, d) = <<tag>> \o r /\ ExactShape(tag, e) = <<tag>> \o s
  BY DEF ExactShape, Two
<1>7. /\ Seeded \in Seq(Tag) /\ Lacks(Seeded, {tag}) /\ Len(Seeded) > 0
      /\ Decided \in Seq(Tag) /\ Lacks(Decided, {tag}) /\ Len(Decided) > 0
  BY <1>4, <1>5
<1> HIDE DEF Decided, Seeded
<1>8. r \in Seq(Tag) /\ Lacks(r, {tag})
  BY <1>7
<1>9. s \in Seq(Tag) /\ Len(s) > 0
  BY <1>7
<1>10. tag \in Tag
  BY DEF Tag
<1> HIDE DEF r, s
<1>11. QED BY <1>6, <1>8, <1>9, <1>10, SwitchesAtOnce

(* The shapes of the scenarios that decide. *)
SwapShape(one)         == Two \o EnsureShape(one) \o Span(2) \o Six
BackrunShape(one, two) == Two \o ExactShape("one", one) \o ExactShape("two", two)
                              \o Two \o Span(2) \o Span(1) \o Nine

(* victim-swap decides once, at its reading of the first pool. *)
LEMMA SwapSwitches ==
  ASSUME NEW d, NEW e
  PROVE  /\ SwitchesInside(SwapShape(d), SwapShape(e), "one")
         /\ Lacks(SwapShape(d), {"two", "both"})
<1>1. /\ Two \in Seq(Tag) /\ Lacks(Two, {"bundle", "one", "two", "both"})
      /\ Six \in Seq(Tag) /\ Lacks(Six, {"one", "two", "both"}) /\ Len(Six) = 6
  BY LiteralFacts
<1>2. Span(2) \in Seq(Tag) /\ Lacks(Span(2), {"bundle", "calm", "one", "two", "both"})
  BY SpanFacts
<1>3. /\ Lacks(Two, {"one"}) /\ Lacks(Span(2), {"one"}) /\ Lacks(Six, {"one"})
      /\ Lacks(Two, {"two", "both"}) /\ Lacks(Span(2), {"two", "both"}) /\ Lacks(Six, {"two", "both"})
  BY <1>1, <1>2, LacksLess
<1>4. EnsureShape(d) \in Seq(Tag) /\ Lacks(EnsureShape(d), {"two", "both"})
  BY EnsureFacts, LacksLess
<1>5. Switches(Two \o EnsureShape(d), Two \o EnsureShape(e), "one")
  BY <1>1, <1>3, EnsureSwitches, SwitchesAfter
<1>6. Switches(Two \o EnsureShape(d) \o Span(2), Two \o EnsureShape(e) \o Span(2), "one")
  BY <1>2, <1>3, <1>5, SwitchesBefore
<1>7. SwitchesInside(SwapShape(d), SwapShape(e), "one")
  <2>1. Len(Six) > 0
    BY <1>1
  <2>2. QED BY <1>1, <1>3, <1>6, <2>1, SwitchesBefore DEF SwapShape
<1>8. Two \o EnsureShape(d) \in Seq(Tag) /\ Lacks(Two \o EnsureShape(d), {"two", "both"})
  BY <1>1, <1>3, <1>4, TagsJoin, LacksJoins
<1>9. /\ Two \o EnsureShape(d) \o Span(2) \in Seq(Tag)
      /\ Lacks(Two \o EnsureShape(d) \o Span(2), {"two", "both"})
  BY <1>2, <1>3, <1>8, TagsJoin, LacksJoins
<1>10. Lacks(SwapShape(d), {"two", "both"})
  BY <1>1, <1>3, <1>9, LacksJoins DEF SwapShape
<1>11. QED BY <1>7, <1>10

(* backrun decides twice, once for each pool. *)
LEMMA BackrunSwitches ==
  ASSUME NEW one, NEW two, NEW d
  PROVE  /\ SwitchesInside(BackrunShape(one, two), BackrunShape(d, two), "one")
         /\ SwitchesInside(BackrunShape(one, two), BackrunShape(one, d), "two")
         /\ Lacks(BackrunShape(one, two), {"both"})
<1> DEFINE S == ExactShape("one", one)
           T == ExactShape("two", two)
           S2 == ExactShape("one", d)
           T2 == ExactShape("two", d)
           Free(t) == /\ t \in Seq(Tag) /\ Lacks(t, {"one"}) /\ Lacks(t, {"two"})
                      /\ Lacks(t, {"both"})
<1>1. Free(Two) /\ Free(Nine) /\ Free(Span(1)) /\ Free(Span(2))
  <2>1. /\ Two \in Seq(Tag) /\ Lacks(Two, {"bundle", "one", "two", "both"})
        /\ Nine \in Seq(Tag) /\ Lacks(Nine, {"one", "two", "both"})
    BY LiteralFacts
  <2>2. /\ Span(2) \in Seq(Tag) /\ Lacks(Span(2), {"bundle", "calm", "one", "two", "both"})
        /\ Span(1) \in Seq(Tag) /\ Lacks(Span(1), {"bundle", "calm", "one", "two", "both"})
    BY SpanFacts
  <2>3. QED BY <2>1, <2>2, LacksLess
<1>2. /\ S \in Seq(Tag) /\ Lacks(S, {"two"}) /\ Lacks(S, {"both"})
      /\ T \in Seq(Tag) /\ Lacks(T, {"one"}) /\ Lacks(T, {"both"})
  <2>1. /\ S \in Seq(Tag) /\ Lacks(S, {"bundle", "both"} \cup ({"one", "two"} \ {"one"}))
        /\ T \in Seq(Tag) /\ Lacks(T, {"bundle", "both"} \cup ({"one", "two"} \ {"two"}))
    BY ExactFacts
  <2>2. QED BY <2>1, LacksLess
<1>3. SwitchesInside(S, S2, "one") /\ SwitchesInside(T, T2, "two")
  BY ExactSwitches
<1> HIDE DEF S, T, S2, T2
<1>4. /\ SwitchesInside(Two \o S, Two \o S2, "one")
      /\ Two \o S \in Seq(Tag) /\ Lacks(Two \o S, {"two"}) /\ Lacks(Two \o S, {"both"})
  BY <1>1, <1>2, <1>3, SwitchesAfter, TagsJoin, LacksJoins
<1>5. /\ SwitchesInside(Two \o S \o T, Two \o S2 \o T, "one")
      /\ SwitchesInside(Two \o S \o T, Two \o S \o T2, "two")
      /\ Two \o S \o T \in Seq(Tag) /\ Lacks(Two \o S \o T, {"both"})
  <2>1. SwitchesInside(Two \o S \o T, Two \o S2 \o T, "one")
    BY <1>2, <1>4, SwitchesBeforeMore
  <2>2. SwitchesInside(Two \o S \o T, Two \o S \o T2, "two")
    BY <1>3, <1>4, SwitchesAfter
  <2>3. QED BY <1>2, <1>4, <2>1, <2>2, TagsJoin, LacksJoins
<1>6. ASSUME NEW t, NEW u, NEW w, NEW v, Free(v),
             SwitchesInside(t, u, "one"), SwitchesInside(t, w, "two"), Lacks(t, {"both"}), t \in Seq(Tag)
      PROVE  /\ SwitchesInside(t \o v, u \o v, "one") /\ SwitchesInside(t \o v, w \o v, "two")
             /\ t \o v \in Seq(Tag) /\ Lacks(t \o v, {"both"})
  BY <1>6, SwitchesBeforeMore, TagsJoin, LacksJoins
<1> HIDE DEF Free
<1> DEFINE Both(t, u, w) == /\ SwitchesInside(t, u, "one") /\ SwitchesInside(t, w, "two")
                            /\ Lacks(t, {"both"}) /\ t \in Seq(Tag)
<1>7. \A t, u, w, v : Free(v) /\ Both(t, u, w) => Both(t \o v, u \o v, w \o v)
  BY <1>6
<1>8. Both(Two \o S \o T, Two \o S2 \o T, Two \o S \o T2)
  BY <1>5
<1> HIDE DEF Both
<1>9. Both(Two \o S \o T \o Two, Two \o S2 \o T \o Two, Two \o S \o T2 \o Two)
  BY <1>1, <1>7, <1>8
<1>10. Both(Two \o S \o T \o Two \o Span(2), Two \o S2 \o T \o Two \o Span(2),
            Two \o S \o T2 \o Two \o Span(2))
  BY <1>1, <1>7, <1>9
<1>11. Both(Two \o S \o T \o Two \o Span(2) \o Span(1), Two \o S2 \o T \o Two \o Span(2) \o Span(1),
            Two \o S \o T2 \o Two \o Span(2) \o Span(1))
  BY <1>1, <1>7, <1>10
<1>12. Both(Two \o S \o T \o Two \o Span(2) \o Span(1) \o Nine,
            Two \o S2 \o T \o Two \o Span(2) \o Span(1) \o Nine,
            Two \o S \o T2 \o Two \o Span(2) \o Span(1) \o Nine)
  BY <1>1, <1>7, <1>11
<1>13. Both(BackrunShape(one, two), BackrunShape(d, two), BackrunShape(one, d))
  BY <1>12 DEF S, T, S2, T2, BackrunShape
<1>14. QED BY <1>13 DEF Both

(* A reading changes what is decided only where the program decides, and    *)
(* what it has run up to there stays the same.                              *)
LEMMA ShapeContinues ==
  ASSUME NEW name \in Names, NEW one, NEW two, NEW one2, NEW two2,
         NEW k \in 1..Len(ShapeOf(name, one, two)),
         ShapeOf(name, one, two)[k] \notin {"one", "both"} => one2 = one,
         ShapeOf(name, one, two)[k] \notin {"two", "both"} => two2 = two
  PROVE  /\ Starts(ShapeOf(name, one, two), ShapeOf(name, one2, two2), k)
         /\ k < Len(ShapeOf(name, one, two)) => k < Len(ShapeOf(name, one2, two2))
<1> DEFINE t == ShapeOf(name, one, two)
           u == ShapeOf(name, one2, two2)
<1>1. t \in Seq(Tag) /\ u \in Seq(Tag)
  BY ShapeFacts
<1>2. CASE t = u
  <2> HIDE DEF t, u
  <2>1. k \in 1..Len(t)
    BY DEF t
  <2>2. Starts(t, u, k) /\ (k < Len(t) => k < Len(u))
    BY <1>1, <1>2, <2>1 DEF Starts
  <2>3. QED BY <2>2 DEF t, u
<1>3. CASE name \in {"victim-swap", "victim-swap-revert"}
  <2>1. t = SwapShape(one) /\ u = SwapShape(one2)
    BY <1>3 DEF ShapeOf, SwapShape, Two, Six
  <2>2. SwitchesInside(t, u, "one") /\ Lacks(t, {"two", "both"})
    BY <2>1, SwapSwitches
  <2>3. one2 = one => t = u
    BY <2>1
  <2>4. one2 # one => t[k] = "one"
    BY <2>2 DEF Lacks
  <2>5. QED BY <1>2, <2>2, <2>3, <2>4 DEF SwitchesInside, Continues
<1>4. CASE name = "backrun"
  <2>1. t = BackrunShape(one, two) /\ u = BackrunShape(one2, two2)
    BY <1>4 DEF ShapeOf, BackrunShape, Two, Nine
  <2>2. Lacks(t, {"both"})
    BY <2>1, BackrunSwitches
  <2>3. one2 = one /\ two2 = two => t = u
    BY <2>1
  <2>4. CASE one2 # one
    <3>1. t[k] = "one" /\ two2 = two
      BY <2>2, <2>4 DEF Lacks
    <3>2. SwitchesInside(t, u, "one")
      BY <2>1, <3>1, BackrunSwitches
    <3>3. QED BY <3>1, <3>2 DEF SwitchesInside, Continues
  <2>5. CASE two2 # two
    <3>1. t[k] = "two" /\ one2 = one
      BY <2>2, <2>5 DEF Lacks
    <3>2. SwitchesInside(t, u, "two")
      BY <2>1, <3>1, BackrunSwitches
    <3>3. QED BY <3>1, <3>2 DEF SwitchesInside, Continues
  <2>6. QED BY <1>2, <2>3, <2>4, <2>5
<1>5. CASE name \in {"seed-pools", "token-transfer", "bundle-simulation", "mempool-sequence"}
  <2>1. t = u
    BY <1>5 DEF ShapeOf
  <2>2. QED BY <1>2, <2>1
<1>6. QED BY <1>3, <1>4, <1>5 DEF Names
-----------------------------------------------------------------------------
(***************************************************************************)
(* The statements a program has, given its shape.                           *)
(***************************************************************************)
Reserves == [Pool -> Int \X Int]
Item     == [id : Nat, tx : Tx]

(* What a run remembers, as far as its statements depend on it. *)
WellSeen(s) ==
    /\ DOMAIN s = DOMAIN NothingSeen
    /\ s.reserves \in Reserves /\ s.seeded \in Reserves
    /\ s.nonce \in [User -> Nat] /\ s.quote \in Int /\ s.id \in Nat

(* What a reading adds to it. *)
Reading(r) ==
    /\ "reserves" \in DOMAIN r => r.reserves \in Reserves
    /\ "seeded" \in DOMAIN r => r.seeded \in Reserves
    /\ "nonce" \in DOMAIN r => r.nonce \in [User -> Nat]
    /\ "quote" \in DOMAIN r => r.quote \in Int
    /\ "id" \in DOMAIN r => r.id \in Nat

(* The statements there are. *)
Operation == {"ensure deployment", "start builder", "restart builder", "set automine", "cast send",
              "read", "submit", "bundle", "simulate", "check"}

(* A statement has an argument of its kind. *)
Typed(x) ==
    /\ x.op \in Operation
    /\ x.op = "submit" => x.arg \in Tx
    /\ x.op = "read" => Reading(x.arg)
    /\ x.op \in {"bundle", "simulate"} => x.arg \in Seq(Item)

(* A statement that reads reserves on which the program decides. *)
Decides(x) == x.op = "read" /\ "reserves" \in DOMAIN x.arg

(* The statement that a tag stands for. *)
HasTag(x, tag) ==
    CASE tag = "open"   -> x.op = "set automine" /\ x.arg = TRUE /\ x.try = FALSE
      [] tag = "send"   -> x.op = "cast send" /\ x.arg \in Tx /\ x.try = TRUE
      [] tag = "close"  -> x.op = "set automine" /\ x.arg = FALSE /\ x.needs = {"chain"}
                           /\ x.try = FALSE
      [] tag = "bundle" -> x.op \in {"bundle", "simulate"} /\ x.try = FALSE
      [] tag = "calm"   -> /\ x.op \in Operation \ {"set automine", "cast send", "bundle", "simulate"}
                           /\ ~Decides(x) /\ x.try = FALSE
      [] tag = "one"    -> Decides(x) /\ x.arg.reserves[Pool2] = seen.reserves[Pool2] /\ x.try = FALSE
      [] tag = "two"    -> Decides(x) /\ x.arg.reserves[Pool1] = seen.reserves[Pool1] /\ x.try = FALSE
      [] tag = "both"   -> Decides(x) /\ x.try = FALSE

Fits(x, tag) == Typed(x) /\ HasTag(x, tag)

(* A program has a shape if its statements have its tags, one by one. *)
Shaped(m, t) ==
    /\ \E S : m \in Seq(S)
    /\ t \in Seq(Tag) /\ Len(m) = Len(t)
    /\ \A k \in 1..Len(t) : Fits(m[k], t[k])

(* Programs put together have their shapes put together. *)
LEMMA ShapedJoins ==
  ASSUME NEW m, NEW n, NEW t, NEW u, Shaped(m, t), Shaped(n, u)
  PROVE  Shaped(m \o n, t \o u)
<1>1. PICK S : m \in Seq(S)
  BY DEF Shaped
<1>2. PICK T : n \in Seq(T)
  BY DEF Shaped
<1>3. m \in Seq(S \cup T) /\ n \in Seq(S \cup T)
  BY <1>1, <1>2
<1>4. /\ m \o n \in Seq(S \cup T) /\ Len(m \o n) = Len(m) + Len(n)
      /\ \A k \in 1..Len(m) : (m \o n)[k] = m[k]
      /\ \A k \in Len(m) + 1..Len(m) + Len(n) : (m \o n)[k] = n[k - Len(m)]
  BY <1>3
<1>5. /\ t \in Seq(Tag) /\ u \in Seq(Tag) /\ Len(m) = Len(t) /\ Len(n) = Len(u)
      /\ \A k \in 1..Len(t) : Fits(m[k], t[k])
      /\ \A k \in 1..Len(u) : Fits(n[k], u[k])
  BY DEF Shaped
<1>6. /\ t \o u \in Seq(Tag) /\ Len(t \o u) = Len(t) + Len(u)
      /\ Len(t) \in Nat /\ Len(u) \in Nat
      /\ \A k \in 1..Len(t) : (t \o u)[k] = t[k]
      /\ \A k \in Len(t) + 1..Len(t) + Len(u) : (t \o u)[k] = u[k - Len(t)]
  BY <1>5, TagsJoin
<1>7. ASSUME NEW k \in 1..Len(t \o u)
      PROVE  Fits((m \o n)[k], (t \o u)[k])
  <2>1. CASE k \in 1..Len(t)
    BY <1>4, <1>5, <1>6, <2>1
  <2>2. CASE k \notin 1..Len(t)
    <3>1. k \in Len(t) + 1..Len(t) + Len(u) /\ k - Len(t) \in 1..Len(u)
      BY <1>6, <2>2
    <3>2. (m \o n)[k] = n[k - Len(t)] /\ (t \o u)[k] = u[k - Len(t)]
      BY <1>4, <1>5, <1>6, <3>1
    <3>3. QED BY <1>5, <3>1, <3>2
  <2>3. QED BY <2>1, <2>2
<1>8. Len(m \o n) = Len(t \o u)
  BY <1>4, <1>5, <1>6
<1>9. QED BY <1>4, <1>6, <1>7, <1>8 DEF Shaped

(* A program of two statements. *)
LEMMA ShapedTwo ==
  ASSUME NEW a, NEW b, NEW v \in Tag, NEW w \in Tag, Fits(a, v), Fits(b, w)
  PROVE  Shaped(<<a, b>>, <<v, w>>)
<1>1. <<a, b>> \in Seq({a, b}) /\ Len(<<a, b>>) = 2
  OBVIOUS
<1>2. <<v, w>> \in Seq(Tag) /\ Len(<<v, w>>) = 2
  OBVIOUS
<1>3. \A k \in 1..2 : Fits(<<a, b>>[k], <<v, w>>[k])
  OBVIOUS
<1>4. QED BY <1>1, <1>2, <1>3 DEF Shaped

(* A program of one statement. *)
LEMMA ShapedOne ==
  ASSUME NEW a, NEW v \in Tag, Fits(a, v)
  PROVE  Shaped(<<a>>, <<v>>)
<1>1. <<a>> \in Seq({a}) /\ Len(<<a>>) = 1
  OBVIOUS
<1>2. <<v>> \in Seq(Tag) /\ Len(<<v>>) = 1
  OBVIOUS
<1>3. \A k \in 1..1 : Fits(<<a>>[k], <<v>>[k])
  OBVIOUS
<1>4. QED BY <1>1, <1>2, <1>3 DEF Shaped

(* The last nine statements of backrun. *)
LEMMA ShapedNine ==
  ASSUME NEW a, NEW b, NEW c, NEW d, NEW e, NEW f, NEW g, NEW h, NEW i,
         Fits(a, "calm"), Fits(b, "calm"), Fits(c, "calm"), Fits(d, "calm"), Fits(e, "calm"),
         Fits(f, "bundle"), Fits(g, "calm"), Fits(h, "calm"), Fits(i, "calm")
  PROVE  Shaped(<<a, b, c, d, e, f, g, h, i>>, Nine)
<1>1. <<a, b, c, d, e, f, g, h, i>> \in Seq({a, b, c, d, e, f, g, h, i})
  OBVIOUS
<1>2. Len(<<a, b, c, d, e, f, g, h, i>>) = 9
  OBVIOUS
<1>3. Nine \in Seq(Tag) /\ Len(Nine) = 9
  BY LiteralFacts
<1>4. \A k \in 1..9 : Fits(<<a, b, c, d, e, f, g, h, i>>[k], Nine[k])
  BY DEF Nine
<1>5. QED BY <1>1, <1>2, <1>3, <1>4 DEF Shaped

(* The rows of statements of the other scenarios. *)
LEMMA ShapedLiterals ==
  ASSUME NEW a, NEW b, NEW c, NEW d, NEW e, NEW f, NEW g, NEW h
  PROVE  /\ Fits(a, "calm") /\ Fits(b, "calm") => Shaped(<<a, b>>, Two)
         /\ Fits(a, "calm") /\ Fits(b, "both") => Shaped(<<a, b>>, Seeding)
         /\ Fits(a, "calm") /\ Fits(b, "calm") /\ Fits(c, "calm") => Shaped(<<a, b, c>>, Three)
         /\ Fits(a, "calm") /\ Fits(b, "calm") /\ Fits(c, "calm") /\ Fits(d, "calm")
               => Shaped(<<a, b, c, d>>, Four)
         /\ Fits(a, "calm") /\ Fits(b, "calm") /\ Fits(c, "bundle") /\ Fits(d, "calm")
            /\ Fits(e, "calm") /\ Fits(f, "calm")
               => Shaped(<<a, b, c, d, e, f>>, Six)
         /\ Fits(a, "calm") /\ Fits(b, "bundle") /\ Fits(c, "calm") /\ Fits(d, "calm")
            /\ Fits(e, "calm") /\ Fits(f, "bundle") /\ Fits(g, "calm") /\ Fits(h, "calm")
               => Shaped(<<a, b, c, d, e, f, g, h>>, Eight)
<1>1. /\ <<a, b>> \in Seq({a, b}) /\ Len(<<a, b>>) = 2
      /\ <<a, b, c>> \in Seq({a, b, c}) /\ Len(<<a, b, c>>) = 3
  OBVIOUS
<1>2. /\ <<a, b, c, d>> \in Seq({a, b, c, d}) /\ Len(<<a, b, c, d>>) = 4
      /\ <<a, b, c, d, e, f>> \in Seq({a, b, c, d, e, f}) /\ Len(<<a, b, c, d, e, f>>) = 6
  OBVIOUS
<1>3. /\ <<a, b, c, d, e, f, g, h>> \in Seq({a, b, c, d, e, f, g, h})
      /\ Len(<<a, b, c, d, e, f, g, h>>) = 8
  OBVIOUS
<1>4. /\ Two \in Seq(Tag) /\ Len(Two) = 2 /\ Three \in Seq(Tag) /\ Len(Three) = 3
      /\ Four \in Seq(Tag) /\ Len(Four) = 4 /\ Six \in Seq(Tag) /\ Len(Six) = 6
      /\ Eight \in Seq(Tag) /\ Len(Eight) = 8 /\ Seeding \in Seq(Tag)
  BY LiteralFacts
<1>5. Len(Seeding) = 2
  BY DEF Seeding
<1>6. ASSUME Fits(a, "calm"), Fits(b, "calm")
      PROVE  Shaped(<<a, b>>, Two)
  <2>1. \A k \in 1..2 : Fits(<<a, b>>[k], Two[k])
    BY <1>6 DEF Two
  <2>2. QED BY <1>1, <1>4, <2>1 DEF Shaped
<1>7. ASSUME Fits(a, "calm"), Fits(b, "both")
      PROVE  Shaped(<<a, b>>, Seeding)
  <2>1. \A k \in 1..2 : Fits(<<a, b>>[k], Seeding[k])
    BY <1>7 DEF Seeding
  <2>2. QED BY <1>1, <1>4, <1>5, <2>1 DEF Shaped
<1>8. ASSUME Fits(a, "calm"), Fits(b, "calm"), Fits(c, "calm")
      PROVE  Shaped(<<a, b, c>>, Three)
  <2>1. \A k \in 1..3 : Fits(<<a, b, c>>[k], Three[k])
    BY <1>8 DEF Three
  <2>2. QED BY <1>1, <1>4, <2>1 DEF Shaped
<1>9. ASSUME Fits(a, "calm"), Fits(b, "calm"), Fits(c, "calm"), Fits(d, "calm")
      PROVE  Shaped(<<a, b, c, d>>, Four)
  <2>1. \A k \in 1..4 : Fits(<<a, b, c, d>>[k], Four[k])
    BY <1>9 DEF Four
  <2>2. QED BY <1>2, <1>4, <2>1 DEF Shaped
<1>10. ASSUME Fits(a, "calm"), Fits(b, "calm"), Fits(c, "bundle"), Fits(d, "calm"), Fits(e, "calm"),
              Fits(f, "calm")
       PROVE  Shaped(<<a, b, c, d, e, f>>, Six)
  <2>1. \A k \in 1..6 : Fits(<<a, b, c, d, e, f>>[k], Six[k])
    BY <1>10 DEF Six
  <2>2. QED BY <1>2, <1>4, <2>1 DEF Shaped
<1>11. ASSUME Fits(a, "calm"), Fits(b, "bundle"), Fits(c, "calm"), Fits(d, "calm"), Fits(e, "calm"),
              Fits(f, "bundle"), Fits(g, "calm"), Fits(h, "calm")
       PROVE  Shaped(<<a, b, c, d, e, f, g, h>>, Eight)
  <2>1. \A k \in 1..8 : Fits(<<a, b, c, d, e, f, g, h>>[k], Eight[k])
    BY <1>11 DEF Eight
  <2>2. QED BY <1>3, <1>4, <2>1 DEF Shaped
<1>12. QED BY <1>6, <1>7, <1>8, <1>9, <1>10, <1>11

(* The calls of a block, before it is put under a try. *)
Sending(x) ==
    /\ x = [op |-> "cast send", needs |-> x.needs, arg |-> x.arg, try |-> x.try]
    /\ x.arg \in Tx
Body(m, n) ==
    /\ \E S : m \in Seq(S)
    /\ n \in Nat /\ Len(m) = n
    /\ \A k \in 1..n : Sending(m[k])

(* Calls after calls are calls. *)
LEMMA BodiesJoin ==
  ASSUME NEW m, NEW n, NEW i, NEW j, Body(m, i), Body(n, j)
  PROVE  Body(m \o n, i + j)
<1>1. PICK S : m \in Seq(S)
  BY DEF Body
<1>2. PICK T : n \in Seq(T)
  BY DEF Body
<1>3. m \in Seq(S \cup T) /\ n \in Seq(S \cup T)
  BY <1>1, <1>2
<1>4. /\ m \o n \in Seq(S \cup T) /\ Len(m \o n) = Len(m) + Len(n)
      /\ \A k \in 1..Len(m) : (m \o n)[k] = m[k]
      /\ \A k \in Len(m) + 1..Len(m) + Len(n) : (m \o n)[k] = n[k - Len(m)]
  BY <1>3
<1>5. /\ i \in Nat /\ Len(m) = i /\ j \in Nat /\ Len(n) = j
      /\ \A k \in 1..i : Sending(m[k])
      /\ \A k \in 1..j : Sending(n[k])
  BY DEF Body
<1>6. ASSUME NEW k \in 1..i + j
      PROVE  Sending((m \o n)[k])
  <2>1. CASE k \in 1..i
    BY <1>4, <1>5, <2>1
  <2>2. CASE k \notin 1..i
    <3>1. k \in i + 1..i + j /\ k - i \in 1..j
      BY <1>5, <2>2
    <3>2. QED BY <1>4, <1>5, <3>1
  <2>3. QED BY <2>1, <2>2
<1>7. QED BY <1>4, <1>5, <1>6 DEF Body

(* A call put under a try is tagged send. *)
LEMMA TriedFits ==
  ASSUME NEW x, Sending(x)
  PROVE  Fits([x EXCEPT !.try = TRUE], "send")
<1> DEFINE T == [op : {"cast send"}, needs : {x.needs}, arg : {x.arg}, try : {x.try, TRUE}]
           y == [x EXCEPT !.try = TRUE]
<1>1. x \in T /\ x.op = "cast send" /\ x.arg \in Tx
  <2> DEFINE z == [op |-> "cast send", needs |-> x.needs, arg |-> x.arg, try |-> x.try]
  <2>1. x = z /\ x.arg \in Tx
    BY DEF Sending
  <2>2. z \in T /\ z.op = "cast send"
    OBVIOUS
  <2> HIDE DEF z, T
  <2>3. QED BY <2>1, <2>2
<1>2. y \in T
  BY <1>1
<1>3. y.op = "cast send" /\ y.arg = x.arg /\ y.try = TRUE
  BY <1>1
<1> HIDE DEF y
<1>4. Typed(y)
  BY <1>3 DEF Typed, Operation
<1>5. HasTag(y, "send")
  BY <1>1, <1>3 DEF HasTag
<1>6. QED BY <1>4, <1>5 DEF Fits, y

(* manage_automine around n calls is a block with n calls. *)
LEMMA ManagedFits ==
  ASSUME NEW m, NEW n, Body(m, n), n > 0
  PROVE  Shaped(Managed(m), Span(n))
<1> DEFINE inner == [k \in DOMAIN m |-> [m[k] EXCEPT !.try = TRUE]]
           on    == SetAutomine(TRUE)
           off   == SetAutomine(FALSE)
<1>1. PICK S : m \in Seq(S)
  BY DEF Body
<1>2. n \in Nat /\ Len(m) = n /\ DOMAIN m = 1..n
  BY <1>1 DEF Body
<1>3. ASSUME NEW k \in 1..n
      PROVE  Fits(inner[k], "send")
  <2>1. Sending(m[k])
    BY <1>3 DEF Body
  <2>2. inner[k] = [m[k] EXCEPT !.try = TRUE]
    BY <1>2, <1>3
  <2>3. QED BY <2>1, <2>2, TriedFits
<1>4. Fits(on, "open") /\ Fits(off, "close")
  BY DEF Fits, Typed, HasTag, Operation, SetAutomine, Statement
<1>5. \E T : inner \in Seq(T)
  <2> DEFINE T == {inner[k] : k \in 1..n}
  <2>1. inner \in [1..n -> T]
    BY <1>2
  <2>2. inner \in Seq(T)
    BY <1>2, <2>1
  <2>3. QED BY <2>2
<1>6. Len(inner) = n /\ DOMAIN inner = 1..n
  BY <1>2
<1>7. Managed(m) = <<on>> \o inner \o <<off>>
  BY DEF Managed
<1> HIDE DEF inner, on, off
<1>8. PICK T : inner \in Seq(T)
  BY <1>5
<1> DEFINE U == T \cup {on, off}
<1>9. inner \in Seq(U) /\ <<on>> \in Seq(U) /\ <<off>> \in Seq(U)
  <2>1. inner \in Seq(U)
    BY <1>8
  <2>2. QED BY <2>1
<1> HIDE DEF U
<1>10. /\ Managed(m) \in Seq(U) /\ Len(Managed(m)) = n + 2
       /\ Managed(m)[1] = on /\ Managed(m)[n + 2] = off
       /\ \A k \in 2..n + 1 : Managed(m)[k] = inner[k - 1]
  BY <1>2, <1>6, <1>7, <1>9
<1>11. /\ Span(n) \in Seq(Tag) /\ Len(Span(n)) = n + 2
       /\ Span(n)[1] = "open" /\ Span(n)[n + 2] = "close"
       /\ \A k \in 2..n + 1 : Span(n)[k] = "send"
  <2>1. Span(n) \in Seq(Tag) /\ Len(Span(n)) = n + 2
    BY <1>2, SpanFacts
  <2>2. QED BY <1>2, <2>1 DEF Span
<1>12. ASSUME NEW k \in 1..n + 2
       PROVE  Fits(Managed(m)[k], Span(n)[k])
  <2>1. CASE k = 1
    BY <1>4, <1>10, <1>11, <2>1
  <2>2. CASE k = n + 2
    BY <1>4, <1>10, <1>11, <2>2
  <2>3. CASE k \in 2..n + 1
    <3>1. k - 1 \in 1..n
      BY <1>2, <2>3
    <3>2. QED BY <1>3, <1>10, <1>11, <2>3, <3>1
  <2>4. k = 1 \/ k = n + 2 \/ k \in 2..n + 1
    BY <1>2
  <2>5. QED BY <2>1, <2>2, <2>3, <2>4
<1>13. QED BY <1>10, <1>11, <1>12 DEF Shaped

(* What the statements of a program are made from. *)
Ready ==
    /\ Sound(anvil)
    /\ payload \in [Request -> Tx]
    /\ WellSeen(seen)

(* The roles and the pools are accounts, the amounts are numbers. *)
LEMMA Cast ==
  /\ Deployer \in User /\ Victim \in User /\ Bot \in User
  /\ Deployer \in Account /\ Victim \in Account /\ Bot \in Account /\ Backrun \in Account
  /\ Pool1 \in Pool /\ Pool2 \in Pool /\ Pool1 \in Account /\ Pool2 \in Account /\ Pool1 # Pool2
  /\ TokenA \in Token /\ TokenB \in Token
  /\ Amount \subseteq Uint /\ MinProfit \in Int
  /\ \A x \in Uint : x \in Int
  BY ContractsAssumption, DeploymentAssumption, ScenariosAssumption DEF Account, Token, Uint

(* cast send of a call is a call of a block. *)
LEMMA CallFits ==
  ASSUME Ready, NEW from \in User, NEW call \in Call
  PROVE  Body(<<SendContractTransaction(from, call)>>, 1)
<1> DEFINE tx == [from |-> from, nonce |-> anvil.nonce[from], call |-> call]
           x  == SendContractTransaction(from, call)
<1>1. anvil.nonce \in [User -> Nat]
  BY DEF Ready, Sound, Node
<1>2. tx \in Tx
  BY <1>1 DEF Tx
<1>3. x = [op |-> "cast send", needs |-> {"chain"}, arg |-> tx, try |-> FALSE]
  BY DEF SendContractTransaction, Statement
<1> HIDE DEF tx, x
<1>4. Sending(x)
  BY <1>2, <1>3 DEF Sending
<1>5. <<x>> \in Seq({x}) /\ Len(<<x>>) = 1 /\ <<x>>[1] = x
  OBVIOUS
<1>6. \A k \in 1..1 : Sending(<<x>>[k])
  BY <1>4
<1>7. Body(<<x>>, 1)
  BY <1>5, <1>6 DEF Body
<1>8. QED BY <1>7 DEF x

(* mint_token is one call. *)
LEMMA MintFits ==
  ASSUME Ready, NEW t \in Token, NEW to \in Account, NEW x \in Uint
  PROVE  Body(MintToken(t, to, x), 1)
<1>1. <<"mint", t, to, x>> \in Call
  BY DEF Call
<1>2. QED BY <1>1, CallFits, Cast DEF MintToken

(* mint_and_approve is two. *)
LEMMA MintAndApproveFits ==
  ASSUME Ready, NEW owner \in User, NEW t \in Token, NEW spender \in Account, NEW x \in Uint
  PROVE  Body(MintAndApprove(owner, t, spender, x), 2)
<1>1. <<"approve", t, spender, x>> \in Call
  BY DEF Call
<1>2. owner \in Account
  BY DEF Account
<1>3. Body(MintToken(t, owner, x), 1)
  BY <1>2, MintFits
<1>4. Body(<<SendContractTransaction(owner, <<"approve", t, spender, x>>)>>, 1)
  BY <1>1, CallFits
<1>5. Body(MintAndApprove(owner, t, spender, x), 1 + 1)
  BY <1>3, <1>4, BodiesJoin DEF MintAndApprove
<1>6. QED BY <1>5

(* add_pool_liquidity is five: it does not manage automine itself. *)
LEMMA AddLiquidityFits ==
  ASSUME Ready, NEW p \in Pool, NEW x \in Uint
  PROVE  Body(AddPoolLiquidity(p, x), 5)
<1>1. <<"seed", p, x>> \in Call
  BY DEF Call
<1>2. p \in Account
  BY DEF Account
<1>3. Body(MintAndApprove(Deployer, TokenA, p, x), 2) /\ Body(MintAndApprove(Deployer, TokenB, p, x), 2)
  BY <1>2, Cast, MintAndApproveFits
<1>4. Body(<<SendContractTransaction(Deployer, <<"seed", p, x>>)>>, 1)
  BY <1>1, Cast, CallFits
<1>5. Body(MintAndApprove(Deployer, TokenA, p, x) \o MintAndApprove(Deployer, TokenB, p, x), 2 + 2)
  BY <1>3, BodiesJoin
<1>6. Body(AddPoolLiquidity(p, x), 2 + 2 + 1)
  BY <1>4, <1>5, BodiesJoin DEF AddPoolLiquidity
<1>7. QED BY <1>6

(* The statements outside of the blocks. *)
LEMMA PlainFits ==
  ASSUME NEW needs, NEW arg
  PROVE  /\ Fits(EnsureDeployment, "calm") /\ Fits(StartBlockBuilder, "calm")
         /\ Fits(RestartBlockBuilder, "calm") /\ Fits(Check(arg), "calm")
         /\ arg \in Tx => Fits(SubmitPublic(arg), "calm")
         /\ arg \in Seq(Item) => Fits(MineBundle(arg), "bundle") /\ Fits(SimulateBundle(arg), "bundle")
         /\ Reading(arg) /\ "reserves" \notin DOMAIN arg => Fits(Read(needs, arg), "calm")
<1> USE DEF Fits, Typed, HasTag, Decides, Operation, Statement
<1>1. Fits(EnsureDeployment, "calm") /\ Fits(StartBlockBuilder, "calm")
  BY DEF EnsureDeployment, StartBlockBuilder
<1>2. Fits(RestartBlockBuilder, "calm") /\ Fits(Check(arg), "calm")
  BY DEF RestartBlockBuilder, Check
<1>3. arg \in Tx => Fits(SubmitPublic(arg), "calm")
  BY DEF SubmitPublic
<1>4. arg \in Seq(Item) => Fits(MineBundle(arg), "bundle")
  BY DEF MineBundle
<1>5. arg \in Seq(Item) => Fits(SimulateBundle(arg), "bundle")
  BY DEF SimulateBundle
<1>6. Reading(arg) /\ "reserves" \notin DOMAIN arg => Fits(Read(needs, arg), "calm")
  BY DEF Read
<1>7. QED BY <1>1, <1>2, <1>3, <1>4, <1>5, <1>6

(* The readings of reserves: those of one pool leave the other one as it    *)
(* was remembered.                                                          *)
LEMMA ReservesFit ==
  ASSUME Ready
  PROVE  /\ Fits(ReadReserves({Pool1}), "one") /\ Fits(ReadReserves({Pool2}), "two")
         /\ Fits(ReadReserves(Pool), "both")
         /\ \A P : Fits(ReadReservesAgain(P), "calm")
<1>1. \A p \in Pool : PoolReserves(p) \in Int \X Int
  <2>1. anvil.storage.reserve \in [Pool -> [Token -> Uint]]
    BY DEF Ready, Sound, Node, Storage
  <2>2. QED BY <2>1, Cast DEF PoolReserves
<1>2. seen.reserves \in Reserves /\ seen.seeded \in Reserves
  BY DEF Ready, WellSeen
<1> DEFINE A(P) == [p \in Pool |-> IF p \in P THEN PoolReserves(p) ELSE seen.reserves[p]]
           B(P) == [p \in Pool |-> IF p \in P THEN PoolReserves(p) ELSE seen.seeded[p]]
<1>3. \A P : A(P) \in Reserves /\ B(P) \in Reserves
  BY <1>1, <1>2 DEF Reserves
<1>4. A({Pool1})[Pool2] = seen.reserves[Pool2] /\ A({Pool2})[Pool1] = seen.reserves[Pool1]
  BY Cast
<1>5. /\ \A P : ReadReserves(P) = [op |-> "read", needs |-> {"chain"}, arg |-> [reserves |-> A(P)], try |-> FALSE]
      /\ \A P : ReadReservesAgain(P) = [op |-> "read", needs |-> {"chain"}, arg |-> [seeded |-> B(P)], try |-> FALSE]
  BY DEF ReadReserves, ReadReservesAgain, Read, Statement
<1> HIDE DEF A, B
<1>6. ASSUME NEW P
      PROVE  Typed(ReadReserves(P)) /\ Typed(ReadReservesAgain(P))
  BY <1>3, <1>5 DEF Typed, Operation, Reading
<1>7. ASSUME NEW P
      PROVE  /\ Decides(ReadReserves(P)) /\ ReadReserves(P).try = FALSE
             /\ ReadReserves(P).arg.reserves = A(P)
  BY <1>5 DEF Decides
<1>8. ASSUME NEW P
      PROVE  HasTag(ReadReservesAgain(P), "calm")
  BY <1>5 DEF HasTag, Decides, Operation
<1>9. HasTag(ReadReserves({Pool1}), "one") /\ HasTag(ReadReserves({Pool2}), "two")
      /\ HasTag(ReadReserves(Pool), "both")
  BY <1>4, <1>7 DEF HasTag
<1>10. QED BY <1>6, <1>8, <1>9 DEF Fits

(* The decisions. *)
Empty(p)    == seen.reserves[p] = <<0, 0>>
Positive(p) == seen.reserves[p][1] > 0 /\ seen.reserves[p][2] > 0

(* add_pool_liquidity in its block. *)
LEMMA FiveFits ==
  ASSUME Ready, NEW p \in Pool, NEW x \in Uint
  PROVE  Shaped(Managed(AddPoolLiquidity(p, x)), Span(5))
<1>1. Body(AddPoolLiquidity(p, x), 5)
  BY AddLiquidityFits
<1>2. 5 > 0
  OBVIOUS
<1>3. QED BY <1>1, <1>2, ManagedFits

(* No statement. *)
LEMMA NothingFits ==
  Shaped(<<>>, <<>>)
<1>1. <<>> \in Seq({}) /\ <<>> \in Seq(Tag) /\ Len(<<>>) = 0
  OBVIOUS
<1>2. QED BY <1>1 DEF Shaped

(* ensure_pool_liquidity has the shape of its decision. *)
LEMMA EnsureFits ==
  ASSUME Ready, NEW x \in Uint
  PROVE  Shaped(EnsurePoolLiquidity(Pool1, x), EnsureShape(Positive(Pool1)))
<1> DEFINE rest  == IF Positive(Pool1) THEN <<>> ELSE Managed(AddPoolLiquidity(Pool1, x))
           shape == IF Positive(Pool1) THEN <<>> ELSE Span(5)
<1>1. Shaped(rest, shape)
  BY FiveFits, NothingFits, Cast
<1>2. Shaped(<<ReadReserves({Pool1})>>, <<"one">>)
  <2>1. "one" \in Tag
    BY DEF Tag
  <2>2. QED BY <2>1, ReservesFit, ShapedOne
<1>3. EnsurePoolLiquidity(Pool1, x) = <<ReadReserves({Pool1})>> \o rest
  BY DEF EnsurePoolLiquidity, Positive
<1>4. EnsureShape(Positive(Pool1)) = <<"one">> \o shape
  BY DEF EnsureShape
<1> HIDE DEF rest, shape
<1>5. QED BY <1>1, <1>2, <1>3, <1>4, ShapedJoins

(* ensure_exact_pool_liquidity has the shape of its decision. *)
LEMMA ExactFits ==
  ASSUME Ready, NEW x \in Uint, NEW p \in Pool, NEW tag \in {"one", "two"},
         Fits(ReadReserves({p}), tag)
  PROVE  Shaped(EnsureExactPoolLiquidity(p, x), ExactShape(tag, Empty(p)))
<1> DEFINE again == <<ReadReservesAgain({p}), Check(seen.seeded[p] = <<x, x>>)>>
           same  == <<Check(seen.reserves[p] = <<x, x>>)>>
           rest  == IF Empty(p) THEN Managed(AddPoolLiquidity(p, x)) \o again ELSE same
           shape == IF Empty(p) THEN Span(5) \o Two ELSE <<"calm">>
<1>1. Shaped(again, Two)
  BY PlainFits, ReservesFit, ShapedLiterals
<1>2. Shaped(same, <<"calm">>)
  <2>1. "calm" \in Tag
    BY DEF Tag
  <2>2. QED BY <2>1, PlainFits, ShapedOne
<1>3. Shaped(<<ReadReserves({p})>>, <<tag>>)
  <2>1. tag \in Tag
    BY DEF Tag
  <2>2. QED BY <2>1, ShapedOne
<1>4. /\ EnsureExactPoolLiquidity(p, x) = <<ReadReserves({p})>> \o rest
      /\ ExactShape(tag, Empty(p)) = <<tag>> \o shape
  BY DEF EnsureExactPoolLiquidity, ExactShape, Empty, Two
<1> HIDE DEF again, same
<1>5. Shaped(Managed(AddPoolLiquidity(p, x)) \o again, Span(5) \o Two)
  BY <1>1, FiveFits, ShapedJoins
<1>6. Shaped(rest, shape)
  BY <1>2, <1>5
<1> HIDE DEF rest, shape
<1>7. QED BY <1>3, <1>4, <1>6, ShapedJoins

(* Prices are numbers. *)
LEMMA QuotientIsInt ==
  ASSUME NEW a \in Int, NEW b \in Int, b > 0
  PROVE  a \div b \in Int
  OBVIOUS

(* What the pricing formulas return is a number. *)
LEMMA PricesAreInts ==
  ASSUME NEW x \in Int, NEW reserveIn \in Int, NEW reserveOut \in Int
  PROVE  /\ AmountOut(x, reserveIn, reserveOut) \in Int
         /\ SandboxAmountOut(x, reserveIn, reserveOut) \in Int
         /\ Worst(x) \in Int
<1>1. AmountOut(x, reserveIn, reserveOut) \in Int
  BY AmountOutIsInt
<1>2. SandboxAmountOut(x, reserveIn, reserveOut) \in Int
  <2> DEFINE a == x * 997 * reserveOut
             b == reserveIn * 1000 + x * 997
             none == x <= 0 \/ reserveIn <= 0 \/ reserveOut <= 0
  <2>1. a \in Int /\ b \in Int
    OBVIOUS
  <2>2. ~none => b > 0
    OBVIOUS
  <2>3. SandboxAmountOut(x, reserveIn, reserveOut) = IF none THEN 0 ELSE a \div b
    BY DEF SandboxAmountOut
  <2> HIDE DEF a, b, none
  <2>4. QED BY <2>1, <2>2, <2>3, QuotientIsInt
<1>3. Worst(x) \in Int
  BY DEF Worst
<1>4. QED BY <1>1, <1>2, <1>3

(* So is all that backrun computes. *)
LEMMA RouteIsInts ==
  ASSUME WellSeen(seen)
  PROVE  Route.victimB \in Int /\ Route.outA \in Int /\ Route.outB \in Int /\ Route.profit \in Int
<1> DEFINE one     == IF seen.reserves[Pool1] = <<0, 0>> THEN seen.seeded[Pool1] ELSE seen.reserves[Pool1]
           two     == IF seen.reserves[Pool2] = <<0, 0>> THEN seen.seeded[Pool2] ELSE seen.reserves[Pool2]
           victimB == SandboxAmountOut(SwapAmount, one[1], one[2])
           outA    == SandboxAmountOut(BackrunAmount, one[2] - victimB, one[1] + SwapAmount)
           outB    == SandboxAmountOut(outA, two[1], two[2])
<1>1. one[1] \in Int /\ one[2] \in Int /\ two[1] \in Int /\ two[2] \in Int
  BY Cast DEF WellSeen, Reserves
<1>2. SwapAmount \in Int /\ BackrunAmount \in Int
  BY Cast DEF Amount
<1>3. Route = [victimB |-> victimB, outA |-> outA, outB |-> outB, profit |-> outB - BackrunAmount]
  BY DEF Route
<1> HIDE DEF one, two
<1>4. victimB \in Int
  BY <1>1, <1>2, PricesAreInts
<1> HIDE DEF victimB
<1>5. outA \in Int
  <2>1. one[2] - victimB \in Int /\ one[1] + SwapAmount \in Int
    BY <1>1, <1>2, <1>4
  <2>2. QED BY <1>2, <2>1, PricesAreInts
<1> HIDE DEF outA
<1>6. outB \in Int
  BY <1>1, <1>5, PricesAreInts
<1> HIDE DEF outB
<1>7. QED BY <1>2, <1>3, <1>4, <1>5, <1>6

(* What a scenario sends. *)
LEMMA PayloadFits ==
  ASSUME WellSeen(seen), NEW from \in User, NEW call \in Call
  PROVE  TransactionPayload(from, call) \in Tx
  BY DEF WellSeen, TransactionPayload, Tx

(* The bundles of the scenarios are sequences of items. *)
LEMMA ItemsFit ==
  ASSUME Ready, NEW tx \in Tx
  PROVE  /\ <<Direct(tx)>> \in Seq(Item) /\ <<Reference(seen.id)>> \in Seq(Item)
         /\ <<Reference(seen.id), Direct(tx)>> \in Seq(Item)
<1>1. NoTx \in Tx
  BY Cast DEF NoTx, Tx, Call
<1>2. seen.id \in Nat /\ (seen.id \in Request => payload[seen.id] \in Tx)
  BY DEF Ready, WellSeen
<1>3. Reference(seen.id) \in Item
  BY <1>1, <1>2 DEF Reference, Item
<1>4. Direct(tx) \in Item
  BY DEF Direct, Item
<1> HIDE DEF Item
<1>5. QED BY <1>3, <1>4

(* The other readings decide nothing. *)
LEMMA ReadingsFit ==
  ASSUME Ready, NEW needs, NEW b, NEW c
  PROVE  /\ Fits(Read(needs, [before |-> b, nonce |-> anvil.nonce]), "calm")
         /\ Fits(Read(needs, [after |-> b]), "calm") /\ Fits(Read(needs, [record |-> b]), "calm")
         /\ Fits(Read(needs, [nonce |-> anvil.nonce]), "calm")
         /\ Fits(Read(needs, [headBefore |-> b, nonce |-> anvil.nonce]), "calm")
         /\ Fits(Read(needs, [headBefore |-> b, nonce |-> anvil.nonce, before |-> c]), "calm")
         /\ Fits(Read(needs, [headAfter |-> b]), "calm")
         /\ Fits(Read(needs, [headAfter |-> b, after |-> c]), "calm")
         /\ Fits(Read(needs, [quote |-> QuoteAForB(Pool1, SwapAmount), nonce |-> anvil.nonce,
                              before |-> b]), "calm")
         /\ Fits(Read(needs, [snapshot |-> b]), "calm")
<1>1. anvil.nonce \in [User -> Nat]
  BY DEF Ready, Sound, Node
<1>2. QuoteAForB(Pool1, SwapAmount) \in Int
  <2>1. anvil.storage.reserve \in [Pool -> [Token -> Uint]]
    BY DEF Ready, Sound, Node, Storage
  <2>2. anvil.storage.reserve[Pool1][TokenA] \in Int /\ anvil.storage.reserve[Pool1][TokenB] \in Int
    BY <2>1, Cast
  <2>3. SwapAmount \in Int
    BY Cast DEF Amount
  <2>4. Reverted \in Int
    BY DEF Reverted
  <2>5. QED BY <2>2, <2>3, <2>4, PricesAreInts DEF QuoteAForB
<1>3. \A arg : Reading(arg) /\ "reserves" \notin DOMAIN arg => Fits(Read(needs, arg), "calm")
  BY PlainFits
<1> DEFINE Plain(r) == Reading(r) /\ "reserves" \notin DOMAIN r
<1>4. /\ Plain([before |-> b, nonce |-> anvil.nonce]) /\ Plain([after |-> b]) /\ Plain([record |-> b])
      /\ Plain([nonce |-> anvil.nonce]) /\ Plain([headBefore |-> b, nonce |-> anvil.nonce])
  BY <1>1 DEF Reading
<1>5. /\ Plain([headBefore |-> b, nonce |-> anvil.nonce, before |-> c])
      /\ Plain([headAfter |-> b]) /\ Plain([headAfter |-> b, after |-> c]) /\ Plain([snapshot |-> b])
  BY <1>1 DEF Reading
<1>6. Plain([quote |-> QuoteAForB(Pool1, SwapAmount), nonce |-> anvil.nonce, before |-> b])
  BY <1>1, <1>2 DEF Reading
<1>7. QED BY <1>3, <1>4, <1>5, <1>6

(* The programs. *)
LEMMA SeedPoolsFits ==
  ASSUME Ready
  PROVE  Shaped(SeedPools, Seeding \o Span(10) \o Two)
<1> DEFINE begin == <<EnsureDeployment, ReadReserves(Pool)>>
           body  == AddPoolLiquidity(Pool1, PoolSeedAmount) \o AddPoolLiquidity(Pool2, PoolSeedAmount)
           seeded == Check(\A p \in Pool, side \in 1..2 :
                              seen.seeded[p][side] = seen.reserves[p][side] + PoolSeedAmount)
           end   == <<ReadReservesAgain(Pool), seeded>>
<1>1. Shaped(begin, Seeding)
  BY PlainFits, ReservesFit, ShapedLiterals
<1>2. Shaped(Managed(body), Span(10))
  <2>1. Body(body, 5 + 5)
    BY AddLiquidityFits, BodiesJoin, Cast DEF Amount
  <2>2. Body(body, 10) /\ 10 > 0
    BY <2>1
  <2>3. QED BY <2>2, ManagedFits
<1>3. Fits(seeded, "calm")
  BY PlainFits
<1>4. SeedPools = begin \o Managed(body) \o end
  BY DEF SeedPools
<1> HIDE DEF seeded
<1>5. Shaped(end, Two)
  BY <1>3, ReservesFit, ShapedLiterals
<1> HIDE DEF begin, body, end
<1>6. Shaped(begin \o Managed(body), Seeding \o Span(10))
  BY <1>1, <1>2, ShapedJoins
<1>7. QED BY <1>4, <1>5, <1>6, ShapedJoins

(* The transfer of token-transfer and bundle-simulation is a transaction. *)
LEMMA TransferFits ==
  ASSUME Ready
  PROVE  TransferPayload \in Tx
<1>1. <<"transfer", TokenA, Victim, TransferAmount>> \in Call
  BY Cast DEF Call, Amount
<1>2. QED BY <1>1, Cast, PayloadFits DEF TransferPayload, Ready

(* token-transfer has its shape. *)
LEMMA TokenTransferFits ==
  ASSUME Ready
  PROVE  Shaped(TokenTransfer, Two \o Span(1) \o Six)
<1> DEFINE begin == <<EnsureDeployment, StartBlockBuilder>>
           body  == MintToken(TokenA, Deployer, MintAmount)
           c     == /\ seen.reply.status = "included"
                    /\ seen.record = "included"
                    /\ Gained(TokenA, Victim) = TransferAmount
           end   == <<Read({"chain"}, BeforeReadings),
                      SubmitPublic(TransferPayload),
                      MineBundle(<<Reference(seen.id)>>),
                      Read({"builder"}, RecordReadings),
                      Read({"chain"}, AfterReadings),
                      Check(c)>>
<1>1. Shaped(begin, Two)
  BY PlainFits, ShapedLiterals
<1>2. Shaped(Managed(body), Span(1))
  <2>1. Body(body, 1) /\ 1 > 0
    BY MintFits, Cast DEF Amount
  <2>2. QED BY <2>1, ManagedFits
<1>3. TokenTransfer = begin \o Managed(body) \o end
  BY DEF TokenTransfer
<1>4. Fits(Check(c), "calm")
  BY PlainFits
<1>5. Fits(Read({"chain"}, BeforeReadings), "calm")
  BY ReadingsFit DEF BeforeReadings
<1>6. Fits(SubmitPublic(TransferPayload), "calm")
  BY TransferFits, PlainFits
<1>7. Fits(MineBundle(<<Reference(seen.id)>>), "bundle")
  BY TransferFits, ItemsFit, PlainFits
<1>8. Fits(Read({"builder"}, RecordReadings), "calm") /\ Fits(Read({"chain"}, AfterReadings), "calm")
  BY ReadingsFit DEF RecordReadings, AfterReadings
<1> HIDE DEF c
<1>9. Shaped(end, Six)
  BY <1>4, <1>5, <1>6, <1>7, <1>8, ShapedLiterals
<1> HIDE DEF begin, body, end
<1>10. Shaped(begin \o Managed(body), Two \o Span(1))
  BY <1>1, <1>2, ShapedJoins
<1>11. QED BY <1>3, <1>9, <1>10, ShapedJoins

(* bundle-simulation has its shape. *)
LEMMA BundleSimulationFits ==
  ASSUME Ready
  PROVE  Shaped(BundleSimulation, Two \o Span(1) \o Eight)
<1> DEFINE begin == <<EnsureDeployment, StartBlockBuilder>>
           body  == MintToken(TokenA, Deployer, MintAmount)
           both  == {"builder", "chain"}
           c     == /\ seen.reply.status = "included"
                    /\ seen.reply.txs[1] = "included"
                    /\ seen.headAfter > seen.headBefore
           d     == /\ seen.reply.status = "included"
                    /\ seen.reply.txs[1] = "included"
                    /\ seen.headAfter = seen.headBefore
                    /\ Gained(TokenA, Deployer) = 0 /\ Gained(TokenA, Victim) = 0
           r1 == Read(both, [headBefore |-> anvil.head, nonce |-> anvil.nonce])
           r2 == Read(both, [headAfter |-> anvil.head])
           r3 == Read(both, [headBefore |-> anvil.head, nonce |-> anvil.nonce,
                             before |-> anvil.storage.balance])
           r4 == Read(both, [headAfter |-> anvil.head, after |-> anvil.storage.balance])
           mine     == MineBundle(<<Direct(TransferPayload)>>)
           simulate == SimulateBundle(<<Direct(TransferPayload)>>)
           end == <<r1, mine, r2, Check(c), r3, simulate, r4, Check(d)>>
<1>1. Shaped(begin, Two)
  BY PlainFits, ShapedLiterals
<1>2. Shaped(Managed(body), Span(1))
  <2>1. Body(body, 1) /\ 1 > 0
    BY MintFits, Cast DEF Amount
  <2>2. QED BY <2>1, ManagedFits
<1>3. BundleSimulation = begin \o Managed(body) \o end
  BY DEF BundleSimulation
<1>4. Fits(Check(c), "calm") /\ Fits(Check(d), "calm")
  BY PlainFits
<1>5. Fits(r1, "calm") /\ Fits(r2, "calm") /\ Fits(r3, "calm") /\ Fits(r4, "calm")
  BY ReadingsFit
<1>6. Fits(mine, "bundle") /\ Fits(simulate, "bundle")
  <2>1. <<Direct(TransferPayload)>> \in Seq(Item)
    BY TransferFits, ItemsFit
  <2>2. QED BY <2>1, PlainFits
<1> HIDE DEF c, d, r1, r2, r3, r4, mine, simulate
<1>7. Shaped(end, Eight)
  BY <1>4, <1>5, <1>6, ShapedLiterals
<1> HIDE DEF begin, body, end
<1>8. Shaped(begin \o Managed(body), Two \o Span(1))
  BY <1>1, <1>2, ShapedJoins
<1>9. QED BY <1>3, <1>7, <1>8, ShapedJoins

(* victim-swap and victim-swap-revert have theirs, whatever the minimum and *)
(* the last check.                                                          *)
LEMMA SwapFits ==
  ASSUME Ready, NEW min \in Int, NEW final
  PROVE  Shaped(SwapWith(min, final), SwapShape(Positive(Pool1)))
<1> DEFINE begin   == <<EnsureDeployment, StartBlockBuilder>>
           ensure  == EnsurePoolLiquidity(Pool1, PoolSeedAmount)
           body    == MintAndApprove(Victim, TokenA, Pool1, SwapAmount)
           quote   == Read({"chain"}, [quote |-> QuoteAForB(Pool1, SwapAmount),
                                       nonce |-> anvil.nonce, before |-> anvil.storage.balance])
           submit  == SubmitPublic(TransactionPayload(Victim, <<"swapAForB", Pool1, SwapAmount, min>>))
           mine    == MineBundle(<<Reference(seen.id)>>)
           end     == <<quote, submit, mine, Read({"builder"}, RecordReadings),
                        Read({"chain"}, AfterReadings), Check(final)>>
<1>1. Shaped(begin, Two)
  BY PlainFits, ShapedLiterals
<1>2. Shaped(ensure, EnsureShape(Positive(Pool1)))
  BY EnsureFits, Cast DEF Amount
<1>3. Shaped(Managed(body), Span(2))
  <2>1. Body(body, 2) /\ 2 > 0
    BY MintAndApproveFits, Cast DEF Amount
  <2>2. QED BY <2>1, ManagedFits
<1>4. SwapWith(min, final) = begin \o ensure \o Managed(body) \o end
  BY DEF SwapWith
<1>5. Fits(quote, "calm") /\ Fits(Check(final), "calm")
      /\ Fits(Read({"builder"}, RecordReadings), "calm") /\ Fits(Read({"chain"}, AfterReadings), "calm")
  BY ReadingsFit, PlainFits DEF RecordReadings, AfterReadings
<1>6. Fits(submit, "calm")
  <2>1. <<"swapAForB", Pool1, SwapAmount, min>> \in Call
    BY Cast DEF Call, Amount
  <2>2. TransactionPayload(Victim, <<"swapAForB", Pool1, SwapAmount, min>>) \in Tx
    BY <2>1, Cast, PayloadFits DEF Ready
  <2>3. QED BY <2>2, PlainFits
<1>7. Fits(mine, "bundle")
  BY TransferFits, ItemsFit, PlainFits
<1> HIDE DEF quote, submit, mine
<1>8. Shaped(end, Six)
  BY <1>5, <1>6, <1>7, ShapedLiterals
<1> HIDE DEF begin, ensure, body, end
<1>9. Shaped(begin \o ensure, Two \o EnsureShape(Positive(Pool1)))
  BY <1>1, <1>2, ShapedJoins
<1>10. Shaped(begin \o ensure \o Managed(body), Two \o EnsureShape(Positive(Pool1)) \o Span(2))
  BY <1>3, <1>9, ShapedJoins
<1>11. QED BY <1>4, <1>8, <1>10, ShapedJoins DEF SwapShape

(* backrun has its shape. *)
LEMMA BackrunFits ==
  ASSUME Ready
  PROVE  Shaped(BackrunScenario, BackrunShape(Empty(Pool1), Empty(Pool2)))
<1> DEFINE begin   == <<EnsureDeployment, StartBlockBuilder>>
           one     == EnsureExactPoolLiquidity(Pool1, ExactSeedAmount)
           two     == EnsureExactPoolLiquidity(Pool2, ExactSeedAmount)
           none    == <<Read({"chain"}, AfterReadings),
                        Check(\A t \in Token : seen.after[t][Backrun] = 0)>>
           body    == MintAndApprove(Victim, TokenA, Pool1, SwapAmount)
           body2   == MintToken(TokenB, Backrun, BackrunAmount)
           submit  == SubmitPublic(TransactionPayload(Victim,
                              <<"swapAForB", Pool1, SwapAmount, Worst(Route.victimB)>>))
           c       == seen.before[TokenB][Backrun] = BackrunAmount
           d       == Route.profit >= MinProfit
           bot     == Len(BackrunBundle)
           e       == /\ seen.reply.status = "included"
                      /\ seen.reply.txs[1] = "included" /\ seen.reply.txs[bot] = "included"
                      /\ seen.record = "included"
                      /\ Gained(TokenA, Victim) = -SwapAmount
                      /\ Gained(TokenB, Victim) >= Worst(Route.victimB)
                      /\ seen.after[TokenA][Backrun] = 0
                      /\ Gained(TokenB, Backrun) >= MinProfit
           end     == <<Read({"chain"}, BeforeReadings), Check(c), Check(d), submit,
                        Read({"chain"}, NonceReadings), MineBundle(BackrunBundle),
                        Read({"builder"}, RecordReadings), Read({"chain"}, AfterReadings), Check(e)>>
<1>1. Shaped(begin, Two)
  BY PlainFits, ShapedLiterals
<1>2. /\ Shaped(one, ExactShape("one", Empty(Pool1)))
      /\ Shaped(two, ExactShape("two", Empty(Pool2)))
  BY ExactFits, ReservesFit, Cast DEF Amount
<1>3. Shaped(none, Two)
  <2>1. Fits(Read({"chain"}, AfterReadings), "calm")
    BY ReadingsFit DEF AfterReadings
  <2>2. QED BY <2>1, PlainFits, ShapedLiterals
<1>4. Shaped(Managed(body), Span(2))
  <2>1. Body(body, 2) /\ 2 > 0
    BY MintAndApproveFits, Cast DEF Amount
  <2>2. QED BY <2>1, ManagedFits
<1>5. Shaped(Managed(body2), Span(1))
  <2>1. Body(body2, 1) /\ 1 > 0
    BY MintFits, Cast DEF Amount
  <2>2. QED BY <2>1, ManagedFits
<1>6. BackrunScenario = begin \o one \o two \o none \o Managed(body) \o Managed(body2) \o end
  BY DEF BackrunScenario
<1>7. Fits(Check(c), "calm") /\ Fits(Check(d), "calm") /\ Fits(Check(e), "calm")
  BY PlainFits
<1>8. /\ Fits(Read({"chain"}, BeforeReadings), "calm") /\ Fits(Read({"chain"}, NonceReadings), "calm")
      /\ Fits(Read({"builder"}, RecordReadings), "calm") /\ Fits(Read({"chain"}, AfterReadings), "calm")
  BY ReadingsFit DEF BeforeReadings, NonceReadings, RecordReadings, AfterReadings
<1>9. /\ Worst(Route.victimB) \in Int /\ Worst(Route.outA) \in Int /\ Worst(Route.outB) \in Int
  BY RouteIsInts DEF Ready, Worst
<1>10. Fits(submit, "calm")
  <2>1. <<"swapAForB", Pool1, SwapAmount, Worst(Route.victimB)>> \in Call
    BY <1>9, Cast DEF Call, Amount
  <2>2. TransactionPayload(Victim, <<"swapAForB", Pool1, SwapAmount, Worst(Route.victimB)>>) \in Tx
    BY <2>1, Cast, PayloadFits DEF Ready
  <2>3. QED BY <2>2, PlainFits
<1>11. Fits(MineBundle(BackrunBundle), "bundle")
  <2>1. <<"backrun", Pool1, Pool2, BackrunAmount, Worst(Route.outA), Worst(Route.outB), MinProfit>> \in Call
    BY <1>9, Cast DEF Call, Amount
  <2>2. BackrunPayload \in Tx
    BY <2>1, Cast, PayloadFits DEF Ready, BackrunPayload
  <2>3. QED BY <2>2, ItemsFit, PlainFits DEF BackrunBundle
<1> HIDE DEF c, d, e, submit
<1>12. Shaped(end, Nine)
  BY <1>7, <1>8, <1>10, <1>11, ShapedNine
<1> HIDE DEF begin, one, two, none, body, body2, end
<1>13. Shaped(begin \o one, Two \o ExactShape("one", Empty(Pool1)))
  BY <1>1, <1>2, ShapedJoins
<1>14. Shaped(begin \o one \o two, Two \o ExactShape("one", Empty(Pool1)) \o ExactShape("two", Empty(Pool2)))
  BY <1>2, <1>13, ShapedJoins
<1> DEFINE upto == Two \o ExactShape("one", Empty(Pool1)) \o ExactShape("two", Empty(Pool2))
           prog == begin \o one \o two
<1>15. Shaped(prog, upto)
  BY <1>14
<1>16. BackrunShape(Empty(Pool1), Empty(Pool2)) = upto \o Two \o Span(2) \o Span(1) \o Nine
  BY DEF BackrunShape
<1>17. BackrunScenario = prog \o none \o Managed(body) \o Managed(body2) \o end
  BY <1>6
<1> HIDE DEF upto, prog
<1>18. Shaped(prog \o none, upto \o Two)
  BY <1>3, <1>15, ShapedJoins
<1>19. Shaped(prog \o none \o Managed(body), upto \o Two \o Span(2))
  BY <1>4, <1>18, ShapedJoins
<1>20. Shaped(prog \o none \o Managed(body) \o Managed(body2), upto \o Two \o Span(2) \o Span(1))
  BY <1>5, <1>19, ShapedJoins
<1>21. QED BY <1>12, <1>16, <1>17, <1>20, ShapedJoins

(* mempool-sequence has its shape. *)
LEMMA MempoolSequenceFits ==
  ASSUME Ready
  PROVE  Shaped(MempoolSequence, Three \o Four \o Four)
<1>1. Fits(ReadSnapshot, "calm") /\ Fits(RestartBlockBuilder, "calm")
  BY ReadingsFit, PlainFits DEF ReadSnapshot
<1>2. \A n : Fits(CheckSnapshot(n), "calm") /\ Fits(Check(seen.seqNum = n), "calm")
  BY PlainFits DEF CheckSnapshot
<1>3. Fits(SubmitPublic(NoTx), "calm")
  <2>1. NoTx \in Tx
    BY Cast DEF NoTx, Tx, Call
  <2>2. QED BY <2>1, PlainFits
<1>4. \A n : Shaped(SubmitAndCheck(n), Four)
  BY <1>1, <1>2, <1>3, ShapedLiterals DEF SubmitAndCheck
<1>5. Shaped(<<RestartBlockBuilder, ReadSnapshot, CheckSnapshot(0)>>, Three)
  BY <1>1, <1>2, ShapedLiterals
<1> DEFINE first == <<RestartBlockBuilder, ReadSnapshot, CheckSnapshot(0)>>
<1>6. MempoolSequence = first \o SubmitAndCheck(1) \o SubmitAndCheck(2)
  BY DEF MempoolSequence
<1> HIDE DEF first
<1>7. Shaped(first, Three)
  BY <1>5 DEF first
<1>8. Shaped(first \o SubmitAndCheck(1), Three \o Four)
  BY <1>4, <1>7, ShapedJoins
<1>9. QED BY <1>4, <1>6, <1>8, ShapedJoins

(* The shape of the program that runs, given the reserves it has read. *)
ShapeWith(name, r) ==
    ShapeOf(name,
            IF name = "backrun" THEN r[Pool1] = <<0, 0>> ELSE r[Pool1][1] > 0 /\ r[Pool1][2] > 0,
            r[Pool2] = <<0, 0>>)

(* The shape of the run. *)
Shape == ShapeWith(scenario, seen.reserves)

(* The program that runs has the shape of the run. *)
LEMMA MainFits ==
  ASSUME Ready, scenario \in Names
  PROVE  Shaped(Main, Shape)
<1> DEFINE one == IF scenario = "backrun" THEN Empty(Pool1) ELSE Positive(Pool1)
           two == Empty(Pool2)
<1>1. Shape = ShapeOf(scenario, one, two)
  BY DEF Shape, ShapeWith, Empty, Positive
<1>2. CASE scenario = "seed-pools"
  <2>1. Main = SeedPools
    BY <1>2 DEF Main
  <2>2. Shape = Seeding \o Span(10) \o Two
    BY <1>1, <1>2 DEF ShapeOf, Seeding, Two
  <2>3. QED BY <2>1, <2>2, SeedPoolsFits
<1>3. CASE scenario = "token-transfer"
  <2>1. Main = TokenTransfer
    BY <1>3 DEF Main
  <2>2. Shape = Two \o Span(1) \o Six
    BY <1>1, <1>3 DEF ShapeOf, Two, Six
  <2>3. QED BY <2>1, <2>2, TokenTransferFits
<1>4. CASE scenario = "bundle-simulation"
  <2>1. Main = BundleSimulation
    BY <1>4 DEF Main
  <2>2. Shape = Two \o Span(1) \o Eight
    BY <1>1, <1>4 DEF ShapeOf, Two, Eight
  <2>3. QED BY <2>1, <2>2, BundleSimulationFits
<1>5. CASE scenario \in {"victim-swap", "victim-swap-revert"}
  <2>1. seen.quote \in Int
    BY DEF Ready, WellSeen
  <2>2. VictimMinimum \in Int /\ ImpossibleMinimum \in Int
    BY <2>1 DEF VictimMinimum, ImpossibleMinimum
  <2>3. \E min \in Int : \E final : Main = SwapWith(min, final)
    <3>1. CASE scenario = "victim-swap"
      <4>1. Main = VictimSwap
        BY <3>1 DEF Main
      <4>2. QED BY <2>2, <4>1 DEF VictimSwap
    <3>2. CASE scenario = "victim-swap-revert"
      <4>1. Main = VictimSwapRevert
        BY <3>2 DEF Main
      <4>2. QED BY <2>2, <4>1 DEF VictimSwapRevert
    <3>3. QED BY <1>5, <3>1, <3>2
  <2>4. Shape = SwapShape(Positive(Pool1))
    <3>1. one = Positive(Pool1)
      BY <1>5
    <3>2. Shape = ShapeOf(scenario, Positive(Pool1), two)
      BY <1>1, <3>1
    <3>3. QED BY <1>5, <3>2 DEF ShapeOf, SwapShape, Two, Six
  <2>5. QED BY <2>3, <2>4, SwapFits
<1>6. CASE scenario = "backrun"
  <2>1. Main = BackrunScenario
    BY <1>6 DEF Main
  <2>2. Shape = BackrunShape(Empty(Pool1), Empty(Pool2))
    <3>1. Shape = ShapeOf(scenario, Empty(Pool1), Empty(Pool2))
      BY <1>1, <1>6
    <3>2. QED BY <1>6, <3>1 DEF ShapeOf, BackrunShape, Two, Nine
  <2>3. QED BY <2>1, <2>2, BackrunFits
<1>7. CASE scenario = "mempool-sequence"
  <2>1. Main = MempoolSequence
    BY <1>7 DEF Main
  <2>2. Shape = Three \o Four \o Four
    BY <1>1, <1>7 DEF ShapeOf, Three, Four
  <2>3. QED BY <2>1, <2>2, MempoolSequenceFits
<1>8. QED BY <1>2, <1>3, <1>4, <1>5, <1>6, <1>7 DEF Names

(* How the shape moves when what is remembered of the reserves does. *)
LEMMA ShapeMoves ==
  ASSUME NEW name \in Names, NEW r, NEW q, NEW k \in 1..Len(ShapeWith(name, r)), NEW tag,
         tag = ShapeWith(name, r)[k],
         tag \notin {"one", "two", "both"} => q = r,
         tag = "one" => q[Pool2] = r[Pool2],
         tag = "two" => q[Pool1] = r[Pool1]
  PROVE  /\ Starts(ShapeWith(name, r), ShapeWith(name, q), k)
         /\ k < Len(ShapeWith(name, r)) => k < Len(ShapeWith(name, q))
<1> DEFINE one(x) == IF name = "backrun" THEN x[Pool1] = <<0, 0>> ELSE x[Pool1][1] > 0 /\ x[Pool1][2] > 0
           two(x) == x[Pool2] = <<0, 0>>
<1>1. \A x : ShapeWith(name, x) = ShapeOf(name, one(x), two(x))
  BY DEF ShapeWith
<1>2. tag \notin {"one", "both"} => one(q) = one(r)
  OBVIOUS
<1>3. tag \notin {"two", "both"} => two(q) = two(r)
  OBVIOUS
<1> HIDE DEF one, two
<1>4. ShapeWith(name, r) = ShapeOf(name, one(r), two(r)) /\ ShapeWith(name, q) = ShapeOf(name, one(q), two(q))
  BY <1>1
<1>5. k \in 1..Len(ShapeOf(name, one(r), two(r))) /\ tag = ShapeOf(name, one(r), two(r))[k]
  BY <1>4
<1>6. QED BY <1>2, <1>3, <1>4, <1>5, ShapeContinues

(* No scenario is empty. *)
LEMMA ShapeIsLong ==
  ASSUME NEW name \in Names, NEW one, NEW two
  PROVE  Len(ShapeOf(name, one, two)) > 0
<1> DEFINE Long(t) == t \in Seq(Tag) /\ Len(t) > 0
           Is(t) == t \in Seq(Tag)
<1>1. \A t, u : Long(t) /\ Is(u) => Long(t \o u)
  <2>1. ASSUME NEW t, NEW u, Long(t), Is(u)
        PROVE  Long(t \o u)
    <3>1. /\ t \o u \in Seq(Tag) /\ Len(t \o u) = Len(t) + Len(u)
          /\ Len(t) \in Nat /\ Len(u) \in Nat
      BY <2>1, TagsJoin
    <3>2. QED BY <2>1, <3>1
  <2>2. QED BY <2>1
<1>2. Long(Two) /\ Long(Three)
  BY LiteralFacts
<1>3. Long(Seeding)
  <2>1. Len(Seeding) = 2
    BY DEF Seeding
  <2>2. QED BY <2>1, LiteralFacts
<1>4. Is(Two) /\ Is(Four) /\ Is(Six) /\ Is(Eight) /\ Is(Nine)
  BY LiteralFacts
<1>5. Is(Span(1)) /\ Is(Span(2)) /\ Is(Span(10))
  BY SpanFacts
<1>6. Is(EnsureShape(one)) /\ Is(ExactShape("one", one)) /\ Is(ExactShape("two", two))
  BY EnsureFacts, ExactFacts
<1> HIDE DEF Long, Is
<1>7. CASE name = "seed-pools"
  <2>1. ShapeOf(name, one, two) = Seeding \o Span(10) \o Two
    BY <1>7 DEF ShapeOf, Seeding, Two
  <2>2. Long(Seeding \o Span(10) \o Two)
    BY <1>1, <1>3, <1>4, <1>5
  <2>3. QED BY <2>1, <2>2 DEF Long
<1>8. CASE name = "token-transfer"
  <2>1. ShapeOf(name, one, two) = Two \o Span(1) \o Six
    BY <1>8 DEF ShapeOf, Two, Six
  <2>2. Long(Two \o Span(1) \o Six)
    BY <1>1, <1>2, <1>4, <1>5
  <2>3. QED BY <2>1, <2>2 DEF Long
<1>9. CASE name = "bundle-simulation"
  <2>1. ShapeOf(name, one, two) = Two \o Span(1) \o Eight
    BY <1>9 DEF ShapeOf, Two, Eight
  <2>2. Long(Two \o Span(1) \o Eight)
    BY <1>1, <1>2, <1>4, <1>5
  <2>3. QED BY <2>1, <2>2 DEF Long
<1>10. CASE name \in {"victim-swap", "victim-swap-revert"}
  <2>1. ShapeOf(name, one, two) = Two \o EnsureShape(one) \o Span(2) \o Six
    BY <1>10 DEF ShapeOf, Two, Six
  <2>2. Long(Two \o EnsureShape(one) \o Span(2) \o Six)
    BY <1>1, <1>2, <1>4, <1>5, <1>6
  <2>3. QED BY <2>1, <2>2 DEF Long
<1>11. CASE name = "backrun"
  <2>1. ShapeOf(name, one, two) = Two \o ExactShape("one", one) \o ExactShape("two", two)
                                     \o Two \o Span(2) \o Span(1) \o Nine
    BY <1>11 DEF ShapeOf, Two, Nine
  <2>2. Long(Two \o ExactShape("one", one) \o ExactShape("two", two))
    BY <1>1, <1>2, <1>6
  <2>3. Long(Two \o ExactShape("one", one) \o ExactShape("two", two) \o Two \o Span(2) \o Span(1) \o Nine)
    BY <1>1, <1>4, <1>5, <2>2
  <2>4. QED BY <2>1, <2>3 DEF Long
<1>12. CASE name = "mempool-sequence"
  <2>1. ShapeOf(name, one, two) = Three \o Four \o Four
    BY <1>12 DEF ShapeOf, Three, Four
  <2>2. Long(Three \o Four \o Four)
    BY <1>1, <1>2, <1>4
  <2>3. QED BY <2>1, <2>2 DEF Long
<1>13. QED BY <1>7, <1>8, <1>9, <1>10, <1>11, <1>12 DEF Names
-----------------------------------------------------------------------------
(***************************************************************************)
(* Automine, along a shape.                                                 *)
(***************************************************************************)

(* At the k-th statement of t, up and automine being those of the node:     *)
(* automine is on where there are calls that wait for a block, and nowhere  *)
(* else, unless a failure has left it on and no finally clause has switched *)
(* it off since.                                                            *)
Confined(t, k, late, up, on, left) ==
    /\ k \in Nat
    /\ k = 0 => ~late /\ (up /\ on => left)
    /\ k > 0 => /\ k <= Len(t)
                /\ late => t[k] = "close"
                /\ up => IF t[k] \in Inside THEN on
                         ELSE on => left /\ \A j \in 1..k - 1 : t[j] # "close"

(* What a statement does to automine. *)
Switched(tag, up, on, left, up2, on2, left2) ==
    up2 => /\ tag = "open" => on2
           /\ tag = "close" => ~on2
           /\ tag = "send" => up /\ on2 = on
           /\ tag \notin {"open", "close"} => ~on2 \/ (up /\ on2 = on)
           /\ on2 /\ left => left2

(* Automine stays as it should be when the node stops or nothing happens to *)
(* it.                                                                      *)
LEMMA ConfinedStays ==
  ASSUME NEW t, NEW k, NEW late, NEW up, NEW on, NEW left, NEW up2, NEW on2,
         Confined(t, k, late, up, on, left), up2 => up /\ on2 = on
  PROVE  Confined(t, k, late, up2, on2, left)
  BY DEF Confined

(* A statement that does to automine what its tag says leaves it as it      *)
(* should be at the next one, also when the program goes on otherwise from  *)
(* there (u).                                                               *)
LEMMA ConfinedProceeds ==
  ASSUME NEW t, NEW k, NEW late, NEW up, NEW on, NEW left,
         NEW late2, NEW up2, NEW on2, NEW left2, NEW u,
         Confined(t, k, late, up, on, left), ~late, ~late2,
         k > 0, Starts(t, u, k), k < Len(u), Disciplined(u),
         Switched(t[k], up, on, left, up2, on2, left2)
  PROVE  Confined(u, k + 1, late2, up2, on2, left2)
<1>1. k \in Nat /\ k > 0 /\ k \in 1..Len(u) /\ k + 1 \in 1..Len(u) /\ u \in Seq(Tag) /\ u[k] = t[k]
      /\ \A j \in 1..k : u[j] = t[j]
  BY DEF Starts, Confined
<1>2. SUFFICES ASSUME up2
               PROVE  IF u[k + 1] \in Inside THEN on2
                      ELSE on2 => left2 /\ \A j \in 1..k : u[j] # "close"
  <2>1. k + 1 - 1 = k /\ k + 1 \in Nat /\ k + 1 <= Len(u) /\ k + 1 # 0
    BY <1>1
  <2>2. QED BY <1>2, <2>1 DEF Confined
<1>3. CASE u[k + 1] \in Inside
  <2>1. k + 1 - 1 = k
    BY <1>1
  <2>2. u[k] \in {"open", "send"}
    BY <1>1, <1>3, <2>1 DEF Disciplined
  <2>3. u[k] = "open" => on2
    BY <1>1, <1>2 DEF Switched
  <2>4. u[k] = "send" => on2
    BY <1>1, <1>2 DEF Switched, Confined, Inside
  <2>5. QED BY <1>3, <2>2, <2>3, <2>4
<1>4. CASE u[k + 1] \notin Inside
  <2>1. u[k] \notin {"open", "send"}
    BY <1>1, <1>4 DEF Disciplined
  <2>2. ASSUME on2
        PROVE  left2 /\ \A j \in 1..k : u[j] # "close"
    <3>1. t[k] \notin {"open", "send", "close"}
      BY <1>1, <1>2, <2>1, <2>2 DEF Switched
    <3>2. up /\ on
      BY <1>2, <2>2, <3>1 DEF Switched
    <3>3. left /\ \A j \in 1..k - 1 : t[j] # "close"
      BY <3>1, <3>2 DEF Confined, Inside
    <3>4. \A j \in 1..k : u[j] # "close"
      BY <1>1, <3>1, <3>3
    <3>5. QED BY <1>2, <2>2, <3>3, <3>4 DEF Switched
  <2>3. QED BY <1>4, <2>2
<1>5. QED BY <1>3, <1>4

(* A run ends where nothing waits for a block: after its last statement,    *)
(* after a finally clause, or where a call fails outside of a block.        *)
LEMMA ConfinedEnds ==
  ASSUME NEW t, NEW k, NEW late, NEW up, NEW on, NEW left, NEW up2, NEW on2, NEW left2,
         Confined(t, k, late, up, on, left), k > 0, Disciplined(t),
         k = Len(t) \/ late,
         Switched(t[k], up, on, left, up2, on2, left2)
  PROVE  up2 /\ on2 => left2
<1>1. k \in 1..Len(t)
  BY DEF Confined, Disciplined
<1>2. t[k] \notin {"open", "send"}
  BY <1>1 DEF Confined, Disciplined
<1>3. ASSUME up2, on2
      PROVE  left2
  <2>1. t[k] # "close"
    BY <1>3 DEF Switched
  <2>2. up /\ on
    BY <1>2, <1>3, <2>1 DEF Switched
  <2>3. left
    BY <1>1, <1>2, <2>1, <2>2 DEF Confined, Inside
  <2>4. QED BY <1>3, <2>3 DEF Switched
<1>4. QED BY <1>3

(* An exception in a block leads to its finally clause. *)
LEMMA ConfinedCatches ==
  ASSUME NEW t, NEW k, NEW late, NEW up, NEW on, NEW left, NEW late2, NEW up2, NEW on2, NEW left2,
         NEW c \in k + 1..Len(t), t[c] = "close",
         Confined(t, k, late, up, on, left), k > 0, t[k] = "send", t \in Seq(Tag),
         up2 => up /\ on2 = on
  PROVE  Confined(t, c, late2, up2, on2, left2)
<1>1. k \in Nat /\ c \in Nat /\ c > 0 /\ c <= Len(t)
  BY DEF Confined
<1>2. up2 => on2
  BY DEF Confined, Inside
<1>3. QED BY <1>1, <1>2 DEF Confined, Inside

(* A call that fails outside of a block ends the run with automine off, or  *)
(* left on by a failure.                                                    *)
LEMMA ConfinedFails ==
  ASSUME NEW t, NEW k, NEW late, NEW up, NEW on, NEW left, NEW up2, NEW on2, NEW left2,
         Confined(t, k, late, up, on, left), k > 0, t[k] # "send",
         up2 /\ on2 => left2 \/ (up /\ on /\ t[k] # "close" /\ (left => left2))
  PROVE  up2 /\ on2 => left2
<1>1. ASSUME up, on, t[k] # "close"
      PROVE  left
  BY <1>1 DEF Confined, Inside
<1>2. QED BY <1>1
-----------------------------------------------------------------------------
(* What a step leaves of the node, and of the builder and its records. *)
LEMMA NodeUpdates ==
  ASSUME NEW a, Sound(a)
  PROVE  /\ Sound([a EXCEPT !.receipts = <<>>])
         /\ \A pool \in Seq(Tx) : Sound([a EXCEPT !.pool = pool])
         /\ \A on \in BOOLEAN : Sound([a EXCEPT !.automine = on])
         /\ Sound([a EXCEPT !.up = FALSE])
<1>1. a \in Node /\ <<>> \in Seq(Outcome)
  BY DEF Sound
<1>2. [a EXCEPT !.receipts = <<>>] \in Node /\ [a EXCEPT !.receipts = <<>>].storage = a.storage
  BY <1>1 DEF Node
<1>3. \A pool \in Seq(Tx) :
         [a EXCEPT !.pool = pool] \in Node /\ [a EXCEPT !.pool = pool].storage = a.storage
  BY <1>1 DEF Node
<1>4. \A on \in BOOLEAN :
         [a EXCEPT !.automine = on] \in Node /\ [a EXCEPT !.automine = on].storage = a.storage
  BY <1>1 DEF Node
<1>5. [a EXCEPT !.up = FALSE] \in Node /\ [a EXCEPT !.up = FALSE].storage = a.storage
  BY <1>1 DEF Node
<1>6. QED BY <1>2, <1>3, <1>4, <1>5 DEF Sound

(* The services and what they hold. *)
Chain ==
    /\ MempoolTypeOK /\ builder \in BOOLEAN /\ payload \in [Request -> Tx]
    /\ Sound(anvil) /\ anvil.receipts = <<>>

(* The step leaves the node up or down, and automine on or off. *)
Steady == anvil'.up = anvil.up /\ anvil'.automine = anvil.automine

(* The transaction that calls no contract is one. *)
LEMMA NoTxIsTx == NoTx \in Tx
  BY Cast DEF NoTx, Tx, Call

(* A chain just deployed is sound. *)
LEMMA DeployedIsSound == Sound(Deployed) /\ Deployed.receipts = <<>> /\ Deployed.automine = FALSE
<1>1. 0 \in Uint
  BY ContractsAssumption DEF Uint
<1>2. EmptyStorage \in Storage /\ EmptyStorage.ok
  BY <1>1 DEF EmptyStorage, Storage
<1>3. Deployed \in Node /\ Deployed.storage = EmptyStorage
  <2>1. <<>> \in Seq(Tx) /\ <<>> \in Seq(Outcome)
    OBVIOUS
  <2>2. QED BY <1>2, <2>1 DEF Deployed, Node
<1>4. Solvent(EmptyStorage)
  BY DEF Solvent, EmptyStorage, Account
<1>5. Balanced(EmptyStorage)
  <2>1. IsFiniteSet(Account)
    BY <1>2, Cast, HeldFacts, StorageIsLoose
  <2>2. \A t \in Token : SumFunctionOnSet(EmptyStorage.balance[t], Account) = 0
    BY <2>1, SumOfZeros DEF EmptyStorage
  <2>3. \A t \in Token : EmptyStorage.supply[t] = 0
    BY DEF EmptyStorage
  <2>4. QED BY <2>2, <2>3 DEF Balanced, Held
<1>6. QED BY <1>2, <1>3, <1>4, <1>5 DEF Sound, Deployed

(* ensure_deployment and the two ways to start a builder leave a chain that *)
(* is up alone; one that is deployed anew begins with automine off.         *)
LEMMA PreparationKeeps ==
  ASSUME Chain, EnsureDeploymentEffect \/ StartEffect \/ RestartEffect
  PROVE  /\ Chain'
         /\ IF anvil.up THEN Steady ELSE anvil'.up => ~anvil'.automine
<1>1. CASE EnsureDeploymentEffect
  <2>1. (Sound(anvil) /\ anvil.receipts = <<>>)'
    BY <1>1, DeployedIsSound DEF EnsureDeploymentEffect, Chain
  <2>2. (MempoolTypeOK /\ builder \in BOOLEAN /\ payload \in [Request -> Tx])'
    BY <1>1 DEF EnsureDeploymentEffect, Chain, MempoolTypeOK, mempoolVars
  <2>3. IF anvil.up THEN Steady ELSE anvil'.up => ~anvil'.automine
    BY <1>1, DeployedIsSound DEF EnsureDeploymentEffect, Steady
  <2>4. QED BY <2>1, <2>2, <2>3 DEF Chain
<1>2. CASE StartEffect \/ RestartEffect
  <2>1. /\ anvil' = anvil /\ builder' = TRUE
        /\ UNCHANGED <<mempoolVars, payload>> \/ ForgetMempool
    BY <1>2 DEF StartEffect, RestartEffect
  <2>2. (Sound(anvil) /\ anvil.receipts = <<>> /\ builder \in BOOLEAN)'
    BY <2>1 DEF Chain
  <2>3. (MempoolTypeOK /\ payload \in [Request -> Tx])'
    <3>1. CASE UNCHANGED <<mempoolVars, payload>>
      BY <3>1 DEF Chain, MempoolTypeOK, mempoolVars
    <3>2. CASE ForgetMempool
      <4>1. payload' \in [Request -> Tx]
        BY <3>2, NoTxIsTx DEF ForgetMempool
      <4>2. MempoolTypeOK'
        BY <3>2 DEF MempoolTypeOK, ForgetMempool
      <4>3. QED BY <4>1, <4>2
    <3>3. QED BY <2>1, <3>1, <3>2
  <2>4. Chain'
    BY <2>2, <2>3 DEF Chain
  <2>5. ~anvil.up => ~anvil'.up
    BY <2>1
  <2>6. Steady
    BY <2>1 DEF Steady
  <2>7. QED BY <2>4, <2>5, <2>6
<1>3. QED BY <1>1, <1>2

(* evm_setAutomine does what it says. *)
LEMMA SwitchKeeps ==
  ASSUME Chain, NEW on \in BOOLEAN, SetAutomineEffect(on)
  PROVE  Chain' /\ anvil'.up = anvil.up /\ anvil'.automine = on
<1>1. anvil \in Node /\ Sound(anvil)
  BY DEF Chain, Sound
<1>2. anvil' = [anvil EXCEPT !.automine = on]
  BY DEF SetAutomineEffect
<1>3. anvil'.up = anvil.up /\ anvil'.automine = on /\ anvil'.receipts = anvil.receipts
  BY <1>1, <1>2 DEF Node
<1>4. Sound(anvil')
  BY <1>1, <1>2, NodeUpdates
<1>5. QED BY <1>3, <1>4 DEF Chain, SetAutomineEffect, MempoolTypeOK, mempoolVars

(* A submission does not touch the node. *)
LEMMA SubmitKeeps ==
  ASSUME Chain, NEW r \in Request, NEW tx \in Tx, SubmitEffect(r, tx)
  PROVE  Chain' /\ Steady
<1>1. anvil' = anvil /\ builder' = builder /\ payload' = [payload EXCEPT ![r] = tx]
  BY DEF SubmitEffect
<1>2. MempoolTypeOK'
  BY DEF SubmitEffect, AddTransaction, Chain, MempoolTypeOK
<1>3. QED BY <1>1, <1>2 DEF Chain, Steady

(* What is left after an error. *)
LEMMA LeaveKeeps ==
  ASSUME Chain, NEW a, Sound(a), a.up = anvil.up, a.automine = anvil.automine, Leave(a)
  PROVE  Chain' /\ Steady
<1>1. anvil' = [a EXCEPT !.receipts = <<>>]
  BY DEF Leave
<1>2. Sound(anvil')
  BY <1>1, NodeUpdates
<1>3. anvil'.up = a.up /\ anvil'.automine = a.automine /\ anvil'.receipts = <<>>
  BY <1>1 DEF Sound, Node
<1>4. QED BY <1>2, <1>3 DEF Chain, Steady, Leave, MempoolTypeOK, mempoolVars

(* cast send mines a block and leaves automine alone. *)
LEMMA CastKeeps ==
  ASSUME Chain, NEW tx \in Tx, NEW txs \in CastOrders(tx), CastSendEffect(txs)
  PROVE  Chain' /\ Steady
<1>1. anvil' = [Mined([anvil EXCEPT !.pool = txs]) EXCEPT !.receipts = <<>>]
  BY DEF CastSendEffect, CastBlock
<1>2. anvil \in Node /\ Sound(anvil) /\ anvil.pool \in Seq(Tx)
  BY DEF Chain, Sound, Node
<1>3. txs \in Seq(Tx)
  <2>1. ASSUME NEW k \in DOMAIN anvil.pool
        PROVE  RemoveAt(anvil.pool, k) \in Seq(Tx)
    BY <1>2 DEF RemoveAt
  <2>2. \A o \in Seq(Tx) : Append(o, tx) \in Seq(Tx) /\ <<tx>> \o o \in Seq(Tx)
    <3>1. <<tx>> \in Seq(Tx)
      OBVIOUS
    <3>2. QED BY <3>1
  <2>3. QED BY <1>2, <2>1, <2>2 DEF CastOrders
<1> DEFINE a == [anvil EXCEPT !.pool = txs]
<1>4. Sound(a) /\ a.up = anvil.up /\ a.automine = anvil.automine
  BY <1>2, <1>3, NodeUpdates DEF Node
<1> HIDE DEF a
<1>5. Sound(Mined(a)) /\ Mined(a).up = a.up /\ Mined(a).automine = a.automine
  BY <1>4, MinedFacts DEF Blocked
<1>6. Leave(Mined(a))
  BY <1>1 DEF Leave, CastSendEffect, a
<1>7. QED BY <1>4, <1>5, <1>6, LeaveKeeps

(* The node after some calls of eth_sendTransaction. *)
LEMMA SentFacts ==
  ASSUME Chain, NEW items \in Seq(Item), NEW n \in 0..Len(items)
  PROVE  /\ Sound(SentUpTo(items, n))
         /\ SentUpTo(items, n).up = anvil.up /\ SentUpTo(items, n).automine = anvil.automine
         /\ SentUpTo(items, n).receipts = <<>>
         /\ Len(SentUpTo(items, n).pool) = Len(anvil.pool) + n
<1>1. anvil \in Node /\ Sound(anvil) /\ anvil.pool \in Seq(Tx) /\ anvil.receipts = <<>>
  BY DEF Chain, Sound, Node
<1> DEFINE txs  == [k \in 1..n |-> items[k].tx]
           pool == anvil.pool \o txs
<1>2. txs \in Seq(Tx) /\ Len(txs) = n
  <2>1. n \in Nat /\ \A k \in 1..n : items[k] \in Item
    OBVIOUS
  <2>2. \A k \in 1..n : items[k].tx \in Tx
    BY <2>1 DEF Item
  <2>3. txs \in [1..n -> Tx]
    BY <2>2
  <2>4. QED BY <2>1, <2>3
<1> HIDE DEF txs
<1>3. pool \in Seq(Tx) /\ Len(pool) = Len(anvil.pool) + n
  BY <1>1, <1>2
<1>4. SentUpTo(items, n) = [anvil EXCEPT !.pool = pool]
  BY <1>1 DEF SentUpTo, txs, Node
<1> HIDE DEF pool
<1>5. Sound([anvil EXCEPT !.pool = pool])
  BY <1>1, <1>3, NodeUpdates
<1>6. /\ [anvil EXCEPT !.pool = pool].pool = pool /\ [anvil EXCEPT !.pool = pool].up = anvil.up
      /\ [anvil EXCEPT !.pool = pool].automine = anvil.automine
      /\ [anvil EXCEPT !.pool = pool].receipts = <<>>
  BY <1>1 DEF Node
<1>7. QED BY <1>3, <1>4, <1>5, <1>6

(* The block of a bundle has a receipt for each of its items. *)
LEMMA BlockFacts ==
  ASSUME Chain, NEW items \in Seq(Item)
  PROVE  /\ Sound(BundleBlock(items))
         /\ BundleBlock(items).up = anvil.up /\ BundleBlock(items).automine = anvil.automine
         /\ BundleBlock(items).receipts \in Seq(Outcome)
         /\ Len(BundleBlock(items).receipts) >= Len(items)
<1> DEFINE n == Len(items)
           a == SentUpTo(items, n)
<1>1. n \in Nat /\ n \in 0..Len(items)
  OBVIOUS
<1>2. /\ Sound(a) /\ a.up = anvil.up /\ a.automine = anvil.automine /\ a.receipts = <<>>
      /\ Len(a.pool) = Len(anvil.pool) + n
  BY <1>1, SentFacts
<1>3. anvil.pool \in Seq(Tx)
  BY DEF Chain, Sound, Node
<1>4. BundleBlock(items) = Mined(a)
  BY DEF BundleBlock
<1> HIDE DEF a, n
<1>5. Blocked(Mined(a), a)
  BY <1>2, MinedFacts
<1>6. Len(Mined(a).receipts) = 0 + (Len(anvil.pool) + n)
  BY <1>2, <1>5 DEF Blocked
<1>7. Len(anvil.pool) \in Nat
  BY <1>3
<1>8. Len(Mined(a).receipts) >= n
  BY <1>1, <1>6, <1>7
<1>9. Mined(a).receipts \in Seq(Outcome)
  BY <1>5 DEF Blocked, Sound, Node
<1>10. QED BY <1>2, <1>4, <1>5, <1>8, <1>9 DEF Blocked, n

(* Each item of a bundle has an outcome in the reply. *)
LEMMA ReplyFacts ==
  ASSUME Chain, NEW items \in Seq(Item)
  PROVE  \A k \in 1..Len(items) : BundleReply(items, BundleBlock(items)).txs[k] \in Outcome
<1> DEFINE receipts == BundleBlock(items).receipts
           n == Len(items)
<1>1. receipts \in Seq(Outcome) /\ n \in Nat /\ Len(receipts) \in Nat /\ Len(receipts) >= n
  BY BlockFacts
<1>2. BundleReply(items, BundleBlock(items)).txs = SubSeq(receipts, Len(receipts) - n + 1, Len(receipts))
  BY DEF BundleReply
<1> HIDE DEF receipts, n
<1>3. ASSUME NEW k \in 1..n
      PROVE  SubSeq(receipts, Len(receipts) - n + 1, Len(receipts))[k] \in Outcome
  <2> DEFINE m == Len(receipts) - n + 1
  <2>1. m \in 1..Len(receipts) + 1 /\ m + k - 1 \in 1..Len(receipts) /\ k \in 1..Len(receipts) - m + 1
    BY <1>1
  <2> HIDE DEF m
  <2>2. SubSeq(receipts, m, Len(receipts))[k] = receipts[m + k - 1]
    BY <1>1, <2>1
  <2>3. receipts[m + k - 1] \in Outcome
    BY <1>1, <2>1
  <2>4. QED BY <2>2, <2>3 DEF m
<1>4. QED BY <1>2, <1>3 DEF n

(* A bundle that is mined leaves the chain sound and automine alone. *)
LEMMA BundleKeeps ==
  ASSUME Chain, NEW items \in Seq(Item), MineBundleEffect(items, BundleBlock(items))
  PROVE  Chain' /\ Steady
<1> DEFINE block  == BundleBlock(items)
           ids    == {items[k].id : k \in DOMAIN items} \ {0}
           result == [r \in ids |-> BundleReply(items, block).txs[CHOOSE k \in DOMAIN items : items[k].id = r]]
<1>1. anvil' = [block EXCEPT !.receipts = <<>>] /\ UNCHANGED <<builder, payload>> /\ MarkMined(result)
  BY DEF MineBundleEffect
<1>2. \A r \in ids : result[r] \in Outcome
  <2>1. ASSUME NEW r \in ids
        PROVE  (CHOOSE k \in DOMAIN items : items[k].id = r) \in DOMAIN items
    BY <2>1
  <2>2. DOMAIN items = 1..Len(items)
    OBVIOUS
  <2>3. QED BY <2>1, <2>2, ReplyFacts
<1> HIDE DEF result
<1>3. DOMAIN result = ids
  BY DEF result
<1> HIDE DEF ids
<1>4. MempoolTypeOK'
  BY <1>1, <1>2, <1>3 DEF MarkMined, Chain, MempoolTypeOK, Outcome, Terminal
<1>5. Sound(block) /\ block.up = anvil.up /\ block.automine = anvil.automine
  BY BlockFacts
<1> HIDE DEF block
<1>6. Sound(anvil')
  BY <1>1, <1>5, NodeUpdates
<1>7. anvil'.up = block.up /\ anvil'.automine = block.automine /\ anvil'.receipts = <<>>
  BY <1>1, <1>5 DEF Sound, Node
<1>8. QED BY <1>1, <1>4, <1>5, <1>6, <1>7 DEF Chain, Steady

(* So does one that is simulated. *)
LEMMA SimulationKeeps ==
  ASSUME Chain, SimulateEffect
  PROVE  Chain' /\ Steady
<1>1. anvil \in Node /\ Sound(anvil) /\ <<>> \in Seq(Tx) /\ anvil.receipts = <<>>
  BY DEF Chain, Sound
<1>2. anvil' = [anvil EXCEPT !.pool = <<>>]
  BY DEF SimulateEffect
<1>3. Sound(anvil')
  BY <1>1, <1>2, NodeUpdates
<1>4. anvil'.up = anvil.up /\ anvil'.automine = anvil.automine /\ anvil'.receipts = <<>>
  BY <1>1, <1>2 DEF Node
<1>5. QED BY <1>3, <1>4 DEF Chain, Steady, SimulateEffect, MempoolTypeOK, mempoolVars
-----------------------------------------------------------------------------
(***************************************************************************)
(* The invariant.                                                           *)
(***************************************************************************)
Inv ==
    /\ Chain /\ WellSeen(seen)
    /\ scenario \in Scenario \cup {"none"} /\ (at = 0 <=> scenario = "none")
    /\ raised \in BOOLEAN /\ lapsed \in BOOLEAN
    /\ Confined(Shape, at, raised, anvil.up, anvil.automine, lapsed)

(* The tag of the next statement. *)
Now == Shape[at]

(* The invariant gives what the programs are made from. *)
LEMMA InvIsReady ==
  ASSUME Inv
  PROVE  Ready
  BY DEF Inv, Chain, Ready

(* The flags of the node are flags. *)
LEMMA UpIsBoolean ==
  ASSUME Chain
  PROVE  anvil.up \in BOOLEAN /\ anvil.automine \in BOOLEAN
  BY DEF Chain, Sound, Node

(* The least of some numbers is one of them. *)
LEMMA MinFacts ==
  ASSUME NEW i \in Nat, NEW n \in Nat, NEW s \in SUBSET (i..n), s # {}
  PROVE  Min(s) \in s
  BY Least DEF Min

(* The statement that is executed next is the one the shape says. *)
LEMMA RunningFacts ==
  ASSUME Inv, NEW st \in Running
  PROVE  /\ at > 0 /\ at \in 1..Len(Shape) /\ scenario \in Names
         /\ Shape \in Seq(Tag) /\ Disciplined(Shape) /\ Guarded(Shape)
         /\ Typed(st) /\ HasTag(st, Now)
         /\ st.last = (at = Len(Shape))
         /\ st.try => st.finally \in at + 1..Len(Shape) /\ Shape[st.finally] = "close"
<1> DEFINE t == Shape
           main == Main
<1>1. at # 0 /\ at \in Nat /\ at <= Len(t)
  <2>1. at # 0
    BY DEF Running
  <2>2. Confined(t, at, raised, anvil.up, anvil.automine, lapsed)
    BY DEF Inv
  <2> HIDE DEF t
  <2>3. QED BY <2>1, <2>2 DEF Confined
<1>2. scenario \in Names
  BY <1>1, ScenariosAssumption DEF Inv, Names
<1>3. Shaped(main, t)
  BY <1>2, InvIsReady, MainFits
<1>4. t \in Seq(Tag) /\ Disciplined(t) /\ Guarded(t)
  BY <1>2, ShapeFacts DEF Shape, ShapeWith
<1>5. Len(main) = Len(t) /\ Len(t) \in Nat /\ \A k \in 1..Len(t) : Fits(main[k], t[k])
  BY <1>3, <1>4 DEF Shaped
<1>6. at \in 1..Len(t)
  BY <1>1, <1>5
<1> DEFINE clauses == {k \in at + 1..Len(main) : main[k].op = "set automine" /\ ~main[k].arg}
<1>7. st = [op |-> main[at].op, needs |-> main[at].needs, arg |-> main[at].arg,
            try |-> main[at].try, last |-> at = Len(main),
            finally |-> IF main[at].try THEN Min(clauses) ELSE 0]
  BY <1>1 DEF Running
<1> HIDE DEF t, main
<1>8. \A i, n \in Nat : i + 1..n \subseteq 1..n
  OBVIOUS
<1>9. \A k \in 1..Len(t) : t[k] \in Tag
  BY <1>4
<1>10. Fits(main[at], t[at])
  BY <1>5, <1>6
<1>11. ASSUME main[at].try
       PROVE  Min(clauses) \in at + 1..Len(t) /\ t[Min(clauses)] = "close"
  <2>1. t[at] = "send"
    BY <1>6, <1>9, <1>10, <1>11 DEF Fits, HasTag, Tag
  <2>2. PICK c \in at + 1..Len(t) : t[c] = "close"
    BY <1>4, <1>6, <2>1 DEF Disciplined
  <2>3. main[c].op = "set automine" /\ main[c].arg = FALSE
    <3>1. c \in 1..Len(t)
      BY <1>6, <2>2
    <3>2. HasTag(main[c], "close")
      BY <1>5, <2>2, <3>1 DEF Fits
    <3>3. QED BY <3>2 DEF HasTag
  <2>4. c \in clauses
    BY <1>5, <2>2, <2>3
  <2>5. clauses \in SUBSET (at + 1..Len(t)) /\ clauses # {}
    BY <1>5, <2>4
  <2>6. \A k \in clauses : t[k] = "close"
    <3>1. ASSUME NEW k \in clauses
          PROVE  t[k] = "close"
      <4>1. k \in 1..Len(t) /\ main[k].op = "set automine" /\ ~main[k].arg
        <5>1. k \in at + 1..Len(main) /\ main[k].op = "set automine" /\ ~main[k].arg
          OBVIOUS
        <5>2. Len(main) = Len(t) /\ Len(t) \in Nat /\ at \in Nat
          BY <1>1, <1>5
        <5>3. k \in at + 1..Len(t)
          BY <5>1, <5>2
        <5>4. k \in 1..Len(t)
          BY <1>8, <5>2, <5>3, Zenon
        <5>5. QED BY <5>1, <5>4
      <4>2. HasTag(main[k], t[k]) /\ t[k] \in Tag
        BY <1>5, <1>9, <4>1 DEF Fits
      <4>3. QED BY <4>1, <4>2 DEF HasTag, Tag, Decides
    <3>2. QED BY <3>1
  <2> HIDE DEF clauses
  <2>7. Min(clauses) \in clauses
    <3>1. at + 1 \in Nat
      BY <1>1
    <3>2. QED BY <1>5, <2>5, <3>1, MinFacts
  <2>8. QED BY <2>5, <2>6, <2>7
<1> HIDE DEF clauses
<1>12. /\ st.op = main[at].op /\ st.needs = main[at].needs /\ st.arg = main[at].arg
       /\ st.try = main[at].try /\ st.last = (at = Len(main))
       /\ st.try => st.finally = Min(clauses)
  BY <1>7
<1>13. Typed(st) /\ HasTag(st, t[at])
  BY <1>10, <1>12 DEF Fits, Typed, HasTag, Decides
<1>14. st.try => st.finally \in at + 1..Len(t) /\ t[st.finally] = "close"
  BY <1>11, <1>12
<1>15. st.last = (at = Len(t))
  BY <1>5, <1>12
<1>16. QED BY <1>1, <1>2, <1>4, <1>6, <1>13, <1>14, <1>15 DEF Now, t

(* What is remembered after a reading is as it should be. *)
LEMMA ReadingKeeps ==
  ASSUME WellSeen(seen), NEW readings, Reading(readings),
         seen' = [x \in DOMAIN seen |-> IF x \in DOMAIN readings THEN readings[x] ELSE seen[x]]
  PROVE  /\ WellSeen(seen')
         /\ seen'.reserves = IF "reserves" \in DOMAIN readings THEN readings.reserves ELSE seen.reserves
<1>1. DOMAIN seen = DOMAIN NothingSeen
  BY DEF WellSeen
<1>2. {"reserves", "seeded", "nonce", "quote", "id"} \subseteq DOMAIN seen
  BY <1>1 DEF NothingSeen
<1>3. DOMAIN seen' = DOMAIN seen
  OBVIOUS
<1>4. /\ seen'.reserves = IF "reserves" \in DOMAIN readings THEN readings.reserves ELSE seen.reserves
      /\ seen'.seeded = IF "seeded" \in DOMAIN readings THEN readings.seeded ELSE seen.seeded
      /\ seen'.nonce = IF "nonce" \in DOMAIN readings THEN readings.nonce ELSE seen.nonce
      /\ seen'.quote = IF "quote" \in DOMAIN readings THEN readings.quote ELSE seen.quote
      /\ seen'.id = IF "id" \in DOMAIN readings THEN readings.id ELSE seen.id
  BY <1>2
<1>5. QED BY <1>1, <1>3, <1>4 DEF WellSeen, Reading

(* A run begins with nothing remembered, which is as it should be. *)
LEMMA NothingIsWellSeen == WellSeen(NothingSeen)
<1>1. /\ NothingSeen.reserves = [p \in Pool |-> <<0, 0>>] /\ NothingSeen.seeded = [p \in Pool |-> <<0, 0>>]
      /\ NothingSeen.nonce = [u \in User |-> 0] /\ NothingSeen.quote = 0 /\ NothingSeen.id = 0
  BY DEF NothingSeen
<1>2. <<0, 0>> \in Int \X Int
  OBVIOUS
<1>3. QED BY <1>1, <1>2 DEF WellSeen, Reserves

(* A run that ends leaves the invariant, if automine is as it should be. *)
LEMMA EndKeeps ==
  ASSUME Chain', lapsed' \in BOOLEAN, WellSeen(seen'),
         scenario' = "none", at' = 0, raised' = FALSE,
         anvil'.up /\ anvil'.automine => lapsed'
  PROVE  Inv'
<1>1. Confined(Shape, at, raised, anvil.up, anvil.automine, lapsed)'
  BY DEF Confined
<1>2. QED BY <1>1 DEF Inv

(* A statement that returns. *)
LEMMA ProceedKeeps ==
  ASSUME Inv, NEW st \in Running, NEW readings, Reading(readings),
         "reserves" \in DOMAIN readings => Decides(st) /\ readings = st.arg,
         Proceed(st, readings), Chain', lapsed' \in BOOLEAN,
         Switched(Now, anvil.up, anvil.automine, lapsed, anvil'.up, anvil'.automine, lapsed')
  PROVE  Inv'
<1> DEFINE r == seen.reserves
           q == seen'.reserves
<1>1. /\ at > 0 /\ at \in 1..Len(Shape) /\ scenario \in Names
      /\ Shape \in Seq(Tag) /\ Disciplined(Shape)
      /\ HasTag(st, Now) /\ st.last = (at = Len(Shape))
  BY RunningFacts
<1>2. WellSeen(seen') /\ q = IF "reserves" \in DOMAIN readings THEN readings.reserves ELSE seen.reserves
  BY ReadingKeeps DEF Proceed, Inv
<1>3. /\ Confined(Shape, at, raised, anvil.up, anvil.automine, lapsed)
      /\ raised \in BOOLEAN /\ lapsed \in BOOLEAN
  BY DEF Inv
<1>4. /\ anvil.up \in BOOLEAN /\ anvil.automine \in BOOLEAN
      /\ anvil'.up \in BOOLEAN /\ anvil'.automine \in BOOLEAN
  BY UpIsBoolean DEF Inv, Chain, Sound, Node
<1>5. CASE raised \/ st.last
  <2>1. scenario' = "none" /\ at' = 0 /\ raised' = FALSE
    BY <1>5 DEF Proceed, Ends
  <2>2. at = Len(Shape) \/ raised
    BY <1>1, <1>5
  <2>3. anvil'.up /\ anvil'.automine => lapsed'
    <3>1. Switched(Shape[at], anvil.up, anvil.automine, lapsed, anvil'.up, anvil'.automine, lapsed')
      BY DEF Now
    <3>2. QED BY <1>1, <1>3, <1>4, <2>2, <3>1, ConfinedEnds
  <2>4. QED BY <1>2, <2>1, <2>3, EndKeeps
<1>6. CASE ~raised /\ ~st.last
  <2>1. at' = at + 1 /\ scenario' = scenario /\ raised' = raised
    BY <1>6 DEF Proceed
  <2>2. at < Len(Shape)
    <3>1. at # Len(Shape)
      BY <1>1, <1>6, Zenon
    <3>2. QED BY <1>1, <3>1
  <2>3. Now = ShapeWith(scenario, r)[at] /\ Shape = ShapeWith(scenario, r)
    BY DEF Now, Shape
  <2>4. Shape' = ShapeWith(scenario, q)
    BY <2>1 DEF Shape
  <2>5. Now \in Tag
    BY <1>1 DEF Now
  <2>6. Now \notin {"one", "two", "both"} => ~Decides(st)
    BY <1>1, <2>5 DEF HasTag, Tag, Decides
  <2>7. /\ Now \notin {"one", "two", "both"} => q = r
        /\ Now = "one" => q[Pool2] = r[Pool2]
        /\ Now = "two" => q[Pool1] = r[Pool1]
    BY <1>1, <1>2, <2>6 DEF HasTag
  <2> HIDE DEF r, q
  <2>8. Starts(Shape, Shape', at) /\ at < Len(Shape')
    BY <1>1, <2>2, <2>3, <2>4, <2>7, ShapeMoves
  <2>9. Disciplined(Shape')
    BY <1>1, <2>4, ShapeFacts DEF ShapeWith
  <2>10. Confined(Shape', at + 1, raised', anvil'.up, anvil'.automine, lapsed')
    <3>1. Switched(Shape[at], anvil.up, anvil.automine, lapsed, anvil'.up, anvil'.automine, lapsed')
      BY DEF Now
    <3>2. ~raised /\ ~raised'
      BY <1>6, <2>1
    <3>3. Confined(Shape, at, raised, anvil.up, anvil.automine, lapsed) /\ at > 0
      BY <1>1, <1>3
    <3>4. QED BY ONLY <2>8, <2>9, <3>1, <3>2, <3>3, ConfinedProceeds
  <2>11. at' # 0 /\ scenario' # "none" /\ scenario' \in Scenario \cup {"none"} /\ raised' = FALSE
    <3>1. at \in Nat
      BY <1>1
    <3>2. QED BY <1>1, <1>6, <2>1, <3>1 DEF Inv, Names
  <2>12. QED BY <1>2, <2>1, <2>10, <2>11 DEF Inv
<1>7. QED BY <1>3, <1>5, <1>6

(* A call that fails. *)
LEMMA RaiseKeeps ==
  ASSUME Inv, NEW st \in Running, NEW hit, Raise(st, hit), Chain', lapsed' \in BOOLEAN,
         Now = "send" => (anvil'.up => anvil.up /\ anvil'.automine = anvil.automine),
         Now # "send" => (anvil'.up /\ anvil'.automine
                             => lapsed' \/ (anvil.up /\ anvil.automine /\ Now # "close" /\ (lapsed => lapsed')))
  PROVE  Inv'
<1>1. /\ at > 0 /\ at \in 1..Len(Shape) /\ scenario \in Names
      /\ Shape \in Seq(Tag) /\ HasTag(st, Now)
      /\ st.try => st.finally \in at + 1..Len(Shape) /\ Shape[st.finally] = "close"
  BY RunningFacts
<1>2. /\ Confined(Shape, at, raised, anvil.up, anvil.automine, lapsed)
      /\ raised \in BOOLEAN /\ lapsed \in BOOLEAN /\ WellSeen(seen)
  BY DEF Inv
<1>3. /\ anvil.up \in BOOLEAN /\ anvil.automine \in BOOLEAN
      /\ anvil'.up \in BOOLEAN /\ anvil'.automine \in BOOLEAN
  BY UpIsBoolean DEF Inv, Chain, Sound, Node
<1>4. Now \in Tag
  BY <1>1 DEF Now
<1>5. CASE st.try
  <2>1. Now = "send"
    BY <1>1, <1>4, <1>5 DEF HasTag, Tag
  <2>2. at' = st.finally /\ raised' = TRUE /\ scenario' = scenario /\ seen' = seen
    BY <1>5 DEF Raise
  <2>3. Shape' = Shape
    BY <2>2 DEF Shape
  <2>4. Confined(Shape, st.finally, raised', anvil'.up, anvil'.automine, lapsed')
    <3>1. Shape[at] = "send" /\ (anvil'.up => anvil.up /\ anvil'.automine = anvil.automine)
      BY <2>1 DEF Now
    <3>2. QED BY <1>1, <1>2, <1>3, <1>5, <3>1, ConfinedCatches
  <2>5. at' # 0
    BY <1>1, <1>5, <2>2
  <2>6. scenario # "none"
    BY <1>1 DEF Names
  <2>7. QED BY <1>2, <2>2, <2>3, <2>4, <2>5, <2>6 DEF Inv
<1>6. CASE ~st.try
  <2>1. Now # "send"
    BY <1>1, <1>6 DEF HasTag
  <2>2. seen' = NothingSeen /\ scenario' = "none" /\ at' = 0 /\ raised' = FALSE
    BY <1>6 DEF Raise, Ends
  <2>3. anvil'.up /\ anvil'.automine => lapsed'
    <3>1. /\ Shape[at] # "send"
          /\ anvil'.up /\ anvil'.automine
                => lapsed' \/ (anvil.up /\ anvil.automine /\ Shape[at] # "close" /\ (lapsed => lapsed'))
      BY <2>1 DEF Now
    <3>2. QED BY <1>1, <1>2, <1>3, <3>1, ConfinedFails
  <2>4. QED BY <2>2, <2>3, EndKeeps, NothingIsWellSeen
<1>7. QED BY <1>5, <1>6
-----------------------------------------------------------------------------
(***************************************************************************)
(* Each statement, whatever becomes of it, leaves the invariant.            *)
(***************************************************************************)

(* Which statements carry which tags. *)
LEMMA TagFacts ==
  ASSUME Inv, NEW st \in Running
  PROVE  /\ Now \in Tag /\ st.op \in Operation
         /\ st.op = "set automine" <=> Now \in {"open", "close"}
         /\ Now = "open" => st.arg = TRUE
         /\ Now = "close" => st.arg = FALSE /\ st.needs = {"chain"}
         /\ st.op = "cast send" <=> Now = "send"
         /\ st.op = "cast send" => st.arg \in Tx
         /\ st.op = "submit" => st.arg \in Tx
         /\ st.op \in {"bundle", "simulate"} <=> Now = "bundle"
         /\ st.op \in {"bundle", "simulate"} => st.arg \in Seq(Item)
         /\ st.op = "read" => Reading(st.arg)
<1>1. Now \in Tag /\ HasTag(st, Now) /\ Typed(st)
  BY RunningFacts DEF Now
<1>2. QED BY <1>1 DEF HasTag, Tag, Typed, Operation, Decides

(* What somebody else does, or a service that stops. *)
LEMMA OutsideKeeps ==
  ASSUME Inv, Chain', UNCHANGED <<runVars, lapsed>>,
         anvil'.up => anvil.up /\ anvil'.automine = anvil.automine
  PROVE  Inv'
<1>1. /\ scenario' = scenario /\ at' = at /\ raised' = raised /\ seen' = seen /\ lapsed' = lapsed
  BY DEF runVars
<1>2. Shape' = Shape
  BY <1>1 DEF Shape
<1>3. Confined(Shape, at, raised, anvil.up, anvil.automine, lapsed)
  BY DEF Inv
<1>4. Confined(Shape, at, raised, anvil'.up, anvil'.automine, lapsed)
  BY <1>3, ConfinedStays
<1>5. QED BY <1>1, <1>2, <1>4 DEF Inv

(* The world does not change. *)
LEMMA IdleKeeps ==
  ASSUME Chain, UNCHANGED worldVars
  PROVE  Chain' /\ Steady
  BY DEF Chain, Steady, worldVars, MempoolTypeOK, mempoolVars

(* A run begins outside of a block. *)
LEMMA BeginKeeps ==
  ASSUME Inv, NEW name \in Scenario, Begin(name)
  PROVE  Inv'
<1>1. /\ scenario' = name /\ at' = 1 /\ at = 0 /\ raised' = raised /\ lapsed' = lapsed
      /\ anvil' = anvil /\ seen' = NothingSeen
  BY DEF Begin, worldVars
<1>2. name \in Names
  BY ScenariosAssumption DEF Names
<1>3. Chain'
  BY IdleKeeps DEF Begin, Inv
<1>4. /\ ~raised /\ (anvil.up /\ anvil.automine => lapsed)
      /\ raised \in BOOLEAN /\ lapsed \in BOOLEAN
  BY <1>1 DEF Inv, Confined
<1> DEFINE t == Shape'
<1>5. t \in Seq(Tag) /\ Disciplined(t) /\ Len(t) > 0
  BY <1>1, <1>2, ShapeFacts, ShapeIsLong DEF Shape, ShapeWith
<1> HIDE DEF t
<1>6. 1 \in 1..Len(t) /\ t[1] \notin Inside
  <2>1. 1 \in 1..Len(t)
    BY <1>5
  <2>2. QED BY <1>5, <2>1 DEF Disciplined
<1>7. Confined(t, 1, raised', anvil'.up, anvil'.automine, lapsed')
  <2>1. 1 \in Nat /\ 1 # 0 /\ 1 <= Len(t) /\ 1..1 - 1 = {}
    BY <1>6
  <2>2. QED BY <1>1, <1>4, <1>6, <2>1 DEF Confined
<1>8. scenario' # "none" /\ at' # 0 /\ WellSeen(seen')
  BY <1>1, <1>2, NothingIsWellSeen DEF Names
<1>9. QED BY <1>1, <1>3, <1>4, <1>7, <1>8 DEF Inv, t

(* ensure_deployment and the starts of the builder return. *)
LEMMA PreparesKeeps ==
  ASSUME Inv, NEW st \in Running, Prepares(st)
  PROVE  Inv'
<1>1. /\ Chain' /\ IF anvil.up THEN Steady ELSE anvil'.up => ~anvil'.automine
  BY PreparationKeeps DEF Prepares, Inv
<1>2. Now \notin {"open", "close", "send"}
  BY TagFacts DEF Prepares
<1>3. lapsed' = (lapsed /\ anvil.up) /\ lapsed' \in BOOLEAN
  BY DEF Prepares
<1>4. Switched(Now, anvil.up, anvil.automine, lapsed, anvil'.up, anvil'.automine, lapsed')
  BY <1>1, <1>2, <1>3 DEF Switched, Steady
<1> DEFINE readings == [x \in {} |-> x]
<1>5. DOMAIN readings = {} /\ Proceed(st, readings)
  BY DEF Prepares, Returns
<1> HIDE DEF readings
<1>6. Reading(readings)
  BY <1>5 DEF Reading
<1>7. QED BY <1>1, <1>3, <1>4, <1>5, <1>6, ProceedKeeps

(* evm_setAutomine returns. *)
LEMMA SetsAutomineKeeps ==
  ASSUME Inv, NEW st \in Running, SetsAutomine(st)
  PROVE  Inv'
<1>1. Now \in {"open", "close"} /\ (Now = "open" => st.arg = TRUE) /\ (Now = "close" => st.arg = FALSE)
  BY TagFacts DEF SetsAutomine
<1>2. st.arg \in BOOLEAN
  BY <1>1
<1>3. Chain' /\ anvil'.up = anvil.up /\ anvil'.automine = st.arg
  BY <1>2, SwitchKeeps DEF SetsAutomine, Inv
<1>4. lapsed' = (lapsed /\ st.arg) /\ lapsed' \in BOOLEAN
  BY DEF SetsAutomine
<1>5. Switched(Now, anvil.up, anvil.automine, lapsed, anvil'.up, anvil'.automine, lapsed')
  BY <1>1, <1>3, <1>4 DEF Switched
<1> DEFINE readings == [x \in {} |-> x]
<1>6. DOMAIN readings = {} /\ Proceed(st, readings)
  BY DEF SetsAutomine, Returns
<1> HIDE DEF readings
<1>7. Reading(readings)
  BY <1>6 DEF Reading
<1>8. QED BY <1>3, <1>4, <1>5, <1>6, <1>7, ProceedKeeps

(* A statement that returns and leaves automine as it was. *)
LEMMA SteadyKeeps ==
  ASSUME Inv, NEW st \in Running, st.op # "set automine", NEW readings, Reading(readings),
         "reserves" \in DOMAIN readings => Decides(st) /\ readings = st.arg,
         Proceed(st, readings), Chain', Steady, lapsed' = lapsed
  PROVE  Inv'
<1>1. Now \notin {"open", "close"}
  BY TagFacts
<1>2. lapsed \in BOOLEAN
  BY DEF Inv
<1>3. Switched(Now, anvil.up, anvil.automine, lapsed, anvil'.up, anvil'.automine, lapsed')
  BY <1>1 DEF Switched, Steady
<1>4. QED BY <1>2, <1>3, ProceedKeeps

(* A submission returns. *)
LEMMA SubmitsKeeps ==
  ASSUME Inv, NEW st \in Running, Submits(st)
  PROVE  Inv'
<1>1. st.op = "submit" /\ st.arg \in Tx /\ lapsed' = lapsed
  BY TagFacts DEF Submits, pastVars
<1>2. PICK r \in Request : SubmitEffect(r, st.arg) /\ Proceed(st, [id |-> r, seqNum |-> lastSeqNum'])
  BY DEF Submits
<1>3. Chain' /\ Steady
  BY <1>1, <1>2, SubmitKeeps DEF Inv
<1> DEFINE readings == [id |-> r, seqNum |-> lastSeqNum']
<1>4. DOMAIN readings = {"id", "seqNum"} /\ readings.id \in Nat /\ Proceed(st, readings)
  BY <1>2, DeploymentAssumption
<1> HIDE DEF readings
<1>5. Reading(readings)
  BY <1>4 DEF Reading
<1>6. QED BY <1>1, <1>3, <1>4, <1>5, SteadyKeeps

(* A bundle, or its simulation, returns. *)
LEMMA BundlesKeeps ==
  ASSUME Inv, NEW st \in Running, Bundles(st) \/ Simulates(st)
  PROVE  Inv'
<1> DEFINE readings == [reply |-> BundleReply(st.arg, BundleBlock(st.arg))]
<1>1. /\ st.op \in {"bundle", "simulate"} /\ lapsed' = lapsed /\ Proceed(st, readings)
      /\ MineBundleEffect(st.arg, BundleBlock(st.arg)) \/ SimulateEffect
  BY DEF Bundles, Simulates, Accepted, pastVars
<1>2. st.arg \in Seq(Item) /\ st.op # "set automine"
  BY <1>1, TagFacts
<1>3. Chain' /\ Steady
  BY <1>1, <1>2, BundleKeeps, SimulationKeeps DEF Inv
<1>4. DOMAIN readings = {"reply"}
  OBVIOUS
<1> HIDE DEF readings
<1>5. Reading(readings)
  BY <1>4 DEF Reading
<1>6. QED BY <1>1, <1>2, <1>3, <1>4, <1>5, SteadyKeeps

(* A failure that leaves automine as it was. *)
LEMMA SteadyRaises ==
  ASSUME Inv, NEW st \in Running, NEW hit, Raise(st, hit), Chain', Steady, lapsed' = lapsed,
         Now = "close" => ~anvil.up \/ ~anvil.automine \/ lapsed
  PROVE  Inv'
<1>1. lapsed' \in BOOLEAN
  BY DEF Inv
<1>2. QED BY <1>1, RaiseKeeps DEF Steady

(* cast send returns, or raises an error when its transaction reverted. *)
LEMMA SendsKeeps ==
  ASSUME Inv, NEW st \in Running, CastSends(st)
  PROVE  Inv'
<1>1. st.arg \in Tx /\ st.op # "set automine"
  BY TagFacts DEF CastSends
<1>2. Chain' /\ Steady
  BY <1>1, CastKeeps DEF CastSends, Inv
<1>3. st.op = "cast send" /\ lapsed' = lapsed /\ (Returns(st) \/ Raise(st, disturbed))
  BY DEF CastSends, pastVars
<1>4. CASE Returns(st)
  <2> DEFINE readings == [x \in {} |-> x]
  <2>1. DOMAIN readings = {} /\ Proceed(st, readings)
    BY <1>4 DEF Returns
  <2> HIDE DEF readings
  <2>2. Reading(readings)
    BY <2>1 DEF Reading
  <2>3. QED BY <1>1, <1>2, <1>3, <2>1, <2>2, SteadyKeeps
<1>5. CASE Raise(st, disturbed)
  <2>1. Now # "close"
    BY <1>3, TagFacts
  <2>2. QED BY <1>2, <1>3, <1>5, <2>1, SteadyRaises
<1>6. QED BY <1>3, <1>4, <1>5

(* The readings return, or a quote is refused. *)
LEMMA ReadsKeeps ==
  ASSUME Inv, NEW st \in Running, Reads(st)
  PROVE  Inv'
<1>1. /\ st.op = "read" /\ Reading(st.arg) /\ Now # "close" /\ lapsed' = lapsed
      /\ Proceed(st, st.arg) \/ Raise(st, disturbed)
  BY TagFacts DEF Reads, pastVars
<1>2. Chain' /\ Steady
  BY IdleKeeps DEF Reads, Inv
<1>3. "reserves" \in DOMAIN st.arg => Decides(st)
  BY <1>1 DEF Decides
<1>4. CASE Proceed(st, st.arg)
  BY <1>1, <1>2, <1>3, <1>4, SteadyKeeps
<1>5. CASE Raise(st, disturbed)
  BY <1>1, <1>2, <1>5, SteadyRaises
<1>6. QED BY <1>1, <1>4, <1>5

(* cast send is refused. *)
LEMMA RefusedKeeps ==
  ASSUME Inv, NEW st \in Running, CastRefused(st)
  PROVE  Inv'
<1>1. Now # "close" /\ lapsed' = lapsed /\ Raise(st, disturbed)
  BY TagFacts DEF CastRefused, pastVars
<1>2. Chain' /\ Steady
  BY IdleKeeps DEF CastRefused, Inv
<1>3. QED BY <1>1, <1>2, SteadyRaises

(* A bundle is refused by the builder, or by Anvil after some of its items. *)
LEMMA BundleRefusedKeeps ==
  ASSUME Inv, NEW st \in Running, BundleRefused(st)
  PROVE  Inv'
<1>1. /\ st.op \in {"bundle", "simulate"} /\ lapsed' = lapsed /\ Raise(st, disturbed)
      /\ UNCHANGED worldVars \/ Leave(SentUpTo(st.arg, Taken(st.arg)))
  BY DEF BundleRefused, pastVars
<1>2. st.arg \in Seq(Item) /\ Now # "close"
  BY <1>1, TagFacts
<1>3. Taken(st.arg) \in 0..Len(st.arg)
  <2> DEFINE takes == {n \in 0..Len(st.arg) :
                          \A k \in 1..n : Accepts(SentUpTo(st.arg, k - 1), st.arg[k].tx)}
  <2>1. Len(st.arg) \in Nat
    BY <1>2
  <2>2. takes \in SUBSET (0..Len(st.arg)) /\ 0 \in takes
    BY <2>1
  <2>3. Taken(st.arg) = Max(takes)
    BY DEF Taken
  <2> HIDE DEF takes
  <2>4. QED BY <2>1, <2>2, <2>3, MaxFacts
<1>4. Chain' /\ Steady
  BY <1>1, <1>2, <1>3, SentFacts, LeaveKeeps, IdleKeeps DEF Inv
<1>5. QED BY <1>1, <1>2, <1>4, SteadyRaises

(* A check holds, or raises. *)
LEMMA ChecksKeeps ==
  ASSUME Inv, NEW st \in Running, Checks(st)
  PROVE  Inv'
<1>1. st.op = "check" /\ lapsed' = lapsed /\ (Raise(st, disturbed) \/ Returns(st))
  BY DEF Checks, pastVars
<1>2. Chain' /\ Steady
  BY IdleKeeps DEF Checks, Inv
<1>3. CASE Raise(st, disturbed)
  <2>1. Now # "close"
    BY <1>1, TagFacts
  <2>2. QED BY <1>1, <1>2, <1>3, <2>1, SteadyRaises
<1>4. CASE Returns(st)
  <2> DEFINE readings == [x \in {} |-> x]
  <2>1. DOMAIN readings = {} /\ Proceed(st, readings)
    BY <1>4 DEF Returns
  <2> HIDE DEF readings
  <2>2. Reading(readings)
    BY <2>1 DEF Reading
  <2>3. QED BY <1>1, <1>2, <2>1, <2>2, SteadyKeeps
<1>5. QED BY <1>1, <1>3, <1>4

(* A service does not run. If the node is down, automine is not on. *)
LEMMA UnreachableKeeps ==
  ASSUME Inv, NEW st \in Running, Unreachable(st)
  PROVE  Inv'
<1>1. lapsed' = lapsed /\ Raise(st, disturbed) /\ ~ (st.needs \subseteq Services)
  BY DEF Unreachable, pastVars
<1>2. Chain' /\ Steady
  BY IdleKeeps DEF Unreachable, Inv
<1>3. Now = "close" => ~anvil.up
  BY <1>1, TagFacts DEF Services
<1>4. QED BY <1>1, <1>2, <1>3, SteadyRaises

(* A call is not performed. Where it is the one that switches automine off, *)
(* that counts as left on by a failure.                                     *)
LEMMA CallFailsKeeps ==
  ASSUME Inv, NEW st \in Running, CallFails(st)
  PROVE  Inv'
<1>1. /\ Raise(st, TRUE) /\ lapsed' = (lapsed \/ (st.op = "set automine" /\ anvil.automine))
      /\ lapsed' \in BOOLEAN
  BY DEF CallFails
<1>2. Chain' /\ Steady
  BY IdleKeeps DEF CallFails, Inv
<1>3. Now = "close" => st.op = "set automine"
  BY TagFacts
<1>4. /\ anvil'.up = anvil.up /\ anvil'.automine = anvil.automine
      /\ lapsed => lapsed'
      /\ Now = "close" /\ anvil.automine => lapsed'
  BY <1>1, <1>2, <1>3 DEF Steady
<1>5. QED BY <1>1, <1>2, <1>4, RaiseKeeps

(* A call is performed and its response is lost. *)
LEMMA ResponseLostKeeps ==
  ASSUME Inv, NEW st \in Running, ResponseLost(st)
  PROVE  Inv'
<1>1. /\ Raise(st, TRUE) /\ lapsed' = (lapsed \/ (st.op = "set automine" /\ st.arg))
      /\ lapsed' \in BOOLEAN
  BY DEF ResponseLost
<1>2. CASE st.op = "set automine" /\ SetAutomineEffect(st.arg)
  <2>1. Now \in {"open", "close"} /\ (Now = "open" => st.arg = TRUE) /\ (Now = "close" => st.arg = FALSE)
    BY <1>2, TagFacts
  <2>2. st.arg \in BOOLEAN
    BY <2>1
  <2>3. Chain' /\ anvil'.up = anvil.up /\ anvil'.automine = st.arg
    BY <1>2, <2>2, SwitchKeeps DEF Inv
  <2>4. anvil'.automine => lapsed'
    BY <1>1, <1>2, <2>3
  <2>5. QED BY <1>1, <2>1, <2>3, <2>4, RaiseKeeps
<1>3. CASE st.op # "set automine"
  <2>1. Chain' /\ Steady
    <3>1. CASE st.op = "cast send" /\ \E txs \in CastOrders(st.arg) : CastSendEffect(txs)
      BY <3>1, TagFacts, CastKeeps DEF Inv
    <3>2. CASE st.op = "submit" /\ \E r \in Request : SubmitEffect(r, st.arg)
      BY <3>2, TagFacts, SubmitKeeps DEF Inv
    <3>3. CASE Accepted(st, "bundle") /\ MineBundleEffect(st.arg, BundleBlock(st.arg))
      BY <3>3, TagFacts, BundleKeeps DEF Inv, Accepted
    <3>4. QED BY <1>3, <3>1, <3>2, <3>3 DEF ResponseLost
  <2>2. Now # "close"
    BY <1>3, TagFacts
  <2>3. lapsed' = lapsed
    BY <1>1, <1>3 DEF Inv
  <2>4. QED BY <1>1, <2>1, <2>2, <2>3, SteadyRaises
<1>4. CASE st.op = "set automine" /\ ~SetAutomineEffect(st.arg)
  BY <1>4 DEF ResponseLost, Accepted
<1>5. QED BY <1>2, <1>3, <1>4

(* A bundle is cut short. *)
LEMMA PartlyKeeps ==
  ASSUME Inv, NEW st \in Running, BundlePartly(st)
  PROVE  Inv'
<1>1. /\ st.op \in {"bundle", "simulate"} /\ lapsed' = lapsed /\ Raise(st, TRUE)
      /\ \/ \E n \in DOMAIN st.arg : Leave(SentUpTo(st.arg, n))
         \/ Leave(BundleBlock(st.arg))
  BY DEF BundlePartly, Accepted
<1>2. st.arg \in Seq(Item) /\ Now # "close"
  BY <1>1, TagFacts
<1>3. DOMAIN st.arg \subseteq 0..Len(st.arg)
  BY <1>2
<1>4. Chain' /\ Steady
  <2>1. CASE \E n \in DOMAIN st.arg : Leave(SentUpTo(st.arg, n))
    BY <1>2, <1>3, <2>1, SentFacts, LeaveKeeps DEF Inv
  <2>2. CASE Leave(BundleBlock(st.arg))
    BY <1>2, <2>2, BlockFacts, LeaveKeeps DEF Inv
  <2>3. QED BY <1>1, <2>1, <2>2
<1>5. QED BY <1>1, <1>2, <1>4, SteadyRaises

(* A run that is killed ends wherever it is. *)
LEMMA KillKeeps ==
  ASSUME Inv, Kill
  PROVE  Inv'
<1>1. /\ scenario' = "none" /\ at' = 0 /\ raised' = FALSE /\ seen' = NothingSeen
      /\ lapsed' = anvil.automine /\ anvil' = anvil
  BY DEF Kill, Ends, worldVars
<1>2. Chain'
  BY IdleKeeps DEF Kill, Inv
<1>3. lapsed' \in BOOLEAN
  BY <1>1, UpIsBoolean DEF Inv
<1>4. QED BY <1>1, <1>2, <1>3, EndKeeps, NothingIsWellSeen

(* The builder or the chain stops. *)
LEMMA StopsKeep ==
  ASSUME Inv, BuilderStops \/ AnvilStops
  PROVE  Inv'
<1>1. CASE BuilderStops
  <2>1. anvil' = anvil /\ UNCHANGED <<runVars, lapsed>>
    BY <1>1 DEF BuilderStops
  <2>2. Chain'
    BY <1>1 DEF BuilderStops, Inv, Chain, MempoolTypeOK, mempoolVars
  <2>3. QED BY <2>1, <2>2, OutsideKeeps
<1>2. CASE AnvilStops
  <2>1. /\ anvil' = [anvil EXCEPT !.up = FALSE] /\ UNCHANGED <<runVars, lapsed>>
        /\ Chain
    BY <1>2 DEF AnvilStops, Inv
  <2>2. Sound(anvil') /\ anvil'.receipts = anvil.receipts /\ ~anvil'.up
    BY <2>1, NodeUpdates DEF Chain, Sound, Node
  <2>3. Chain'
    BY <1>2, <2>1, <2>2 DEF AnvilStops, Chain, MempoolTypeOK, mempoolVars
  <2>4. QED BY <2>1, <2>2, <2>3, OutsideKeeps
<1>3. QED BY <1>1, <1>2

(* A transaction that arrives leaves the node sound, mined or waiting. *)
LEMMA ArrivesFacts ==
  ASSUME NEW a, Sound(a), NEW call \in Call
  PROVE  /\ Sound(Arrives(a, call))
         /\ Arrives(a, call).up = a.up /\ Arrives(a, call).automine = a.automine
<1> DEFINE waiting == {k \in DOMAIN a.pool : a.pool[k].from = Deployer}
           tx      == [from  |-> Deployer, nonce |-> a.nonce[Deployer] + Cardinality(waiting),
                       call  |-> call]
           pooled  == [a EXCEPT !.pool = Append(a.pool, tx)]
<1>1. Arrives(a, call) = IF a.automine THEN Mined(pooled) ELSE pooled
  BY DEF Arrives
<1>2. a \in Node /\ a.pool \in Seq(Tx) /\ a.nonce[Deployer] \in Nat /\ Deployer \in User
  BY DeploymentAssumption DEF Sound, Node
<1>3. Cardinality(waiting) \in Nat
  <2>1. Len(a.pool) \in Int /\ waiting \subseteq 1..Len(a.pool)
    BY <1>2
  <2>2. IsFiniteSet(1..Len(a.pool))
    BY <2>1, FS_Interval
  <2>3. QED BY <2>1, <2>2, FS_Subset, FS_CardinalityType
<1> HIDE DEF waiting
<1>4. tx \in Tx
  BY <1>2, <1>3 DEF Tx
<1> HIDE DEF tx
<1>5. Append(a.pool, tx) \in Seq(Tx)
  BY <1>2, <1>4
<1>6. Sound(pooled) /\ pooled.up = a.up /\ pooled.automine = a.automine
  BY <1>2, <1>5, NodeUpdates DEF Node
<1> HIDE DEF pooled
<1>7. Sound(Mined(pooled)) /\ Mined(pooled).up = pooled.up /\ Mined(pooled).automine = pooled.automine
  BY <1>6, MinedFacts DEF Blocked
<1>8. QED BY <1>1, <1>6, <1>7

(* Tokens are minted for a pool. *)
LEMMA FundedFacts ==
  ASSUME NEW a, Sound(a), NEW t \in Token, NEW p \in Pool
  PROVE  /\ Sound(Funded(a, t, p))
         /\ Funded(a, t, p).up = a.up /\ Funded(a, t, p).automine = a.automine
<1> DEFINE minted == Arrives(a, <<"mint", t, Deployer, OtherAmount>>)
<1>1. <<"mint", t, Deployer, OtherAmount>> \in Call /\ <<"approve", t, p, OtherAmount>> \in Call
  <2>1. p \in Account /\ Deployer \in Account /\ OtherAmount \in Uint
    BY DeploymentAssumption, ScenariosAssumption DEF Account
  <2>2. QED BY <2>1 DEF Call
<1>2. Sound(minted) /\ minted.up = a.up /\ minted.automine = a.automine
  BY <1>1, ArrivesFacts
<1>3. Funded(a, t, p) = Arrives(minted, <<"approve", t, p, OtherAmount>>)
  BY DEF Funded
<1> HIDE DEF minted
<1>4. QED BY <1>1, <1>2, <1>3, ArrivesFacts

(* Somebody else uses the builder or the chain. *)
LEMMA OthersKeep ==
  ASSUME Inv, OtherSubmits \/ OtherRestarts \/ OtherSends \/ OtherInterferes
  PROVE  Inv'
<1>1. UNCHANGED <<runVars, lapsed>> /\ Chain
  BY DEF OtherSubmits, OtherRestarts, OtherSends, OtherInterferes, Inv
<1>2. Chain' /\ Steady
  <2>1. CASE OtherSubmits
    BY <1>1, <2>1, NoTxIsTx, SubmitKeeps DEF OtherSubmits
  <2>2. CASE OtherRestarts
    <3>1. Chain' /\ IF anvil.up THEN Steady ELSE anvil'.up => ~anvil'.automine
      BY <1>1, <2>2, PreparationKeeps DEF OtherRestarts
    <3>2. anvil' = anvil
      BY <2>2 DEF OtherRestarts, RestartEffect
    <3>3. QED BY <3>1, <3>2 DEF Steady
  <2>3. CASE OtherSends
    <3> DEFINE tx(u)     == [from |-> u, nonce |-> anvil.nonce[u], call |-> <<"transfer", TokenA, u, 0>>]
               pooled(u) == [anvil EXCEPT !.pool = Append(anvil.pool, tx(u))]
    <3>1. PICK u \in User : Leave(IF anvil.automine THEN Mined(pooled(u)) ELSE pooled(u))
      BY <2>3 DEF OtherSends
    <3>2. anvil \in Node /\ Sound(anvil) /\ anvil.pool \in Seq(Tx) /\ anvil.nonce[u] \in Nat
      BY <1>1 DEF Chain, Sound, Node
    <3>3. tx(u) \in Tx
      <4>1. 0 \in Uint /\ u \in Account /\ TokenA \in Token
        BY ContractsAssumption DEF Uint, Account, Token
      <4>2. <<"transfer", TokenA, u, 0>> \in Call
        BY <4>1 DEF Call
      <4>3. QED BY <3>2, <4>2 DEF Tx
    <3> HIDE DEF tx
    <3>4. Append(anvil.pool, tx(u)) \in Seq(Tx)
      BY <3>2, <3>3
    <3>5. Sound(pooled(u)) /\ pooled(u).up = anvil.up /\ pooled(u).automine = anvil.automine
      BY <3>2, <3>4, NodeUpdates DEF Node
    <3> HIDE DEF pooled
    <3>6. Sound(Mined(pooled(u))) /\ Mined(pooled(u)).up = anvil.up /\ Mined(pooled(u)).automine = anvil.automine
      BY <3>5, MinedFacts DEF Blocked
    <3>7. QED BY <1>1, <3>1, <3>5, <3>6, LeaveKeeps
  <2>4. CASE OtherInterferes
    <3>1. Sound(anvil)
      BY <1>1 DEF Chain
    <3>2. /\ TokenA \in Token /\ TokenB \in Token /\ Pool \subseteq Account
          /\ Deployer \in Account /\ Victim \in Account /\ Backrun \in Account
          /\ OtherAmount \in Uint /\ 0 \in Int
      BY DeploymentAssumption, ScenariosAssumption DEF Account, Token
    <3>3. ASSUME NEW p \in Pool,
                 Leave(Arrives(Funded(anvil, TokenA, p), <<"swapAForB", p, OtherAmount, 0>>))
          PROVE  Chain' /\ Steady
      <4>1. <<"swapAForB", p, OtherAmount, 0>> \in Call
        BY <3>2 DEF Call
      <4>2. /\ Sound(Funded(anvil, TokenA, p)) /\ Funded(anvil, TokenA, p).up = anvil.up
            /\ Funded(anvil, TokenA, p).automine = anvil.automine
        BY <3>1, <3>2, FundedFacts
      <4>3. QED BY <1>1, <3>3, <4>1, <4>2, ArrivesFacts, LeaveKeeps
    <3>4. ASSUME NEW p \in Pool,
                 Leave(Arrives(Funded(Funded(anvil, TokenA, p), TokenB, p), <<"seed", p, OtherAmount>>))
          PROVE  Chain' /\ Steady
      <4> DEFINE one == Funded(anvil, TokenA, p)
                 two == Funded(one, TokenB, p)
      <4>1. <<"seed", p, OtherAmount>> \in Call
        BY <3>2 DEF Call
      <4>2. Sound(one) /\ one.up = anvil.up /\ one.automine = anvil.automine
        BY <3>1, <3>2, FundedFacts
      <4>3. Leave(Arrives(two, <<"seed", p, OtherAmount>>))
        BY <3>4
      <4> HIDE DEF one
      <4>4. Sound(two) /\ two.up = one.up /\ two.automine = one.automine
        BY <3>2, <4>2, FundedFacts
      <4> HIDE DEF two
      <4>5. QED BY <1>1, <4>1, <4>2, <4>3, <4>4, ArrivesFacts, LeaveKeeps
    <3>5. ASSUME NEW t \in Token, NEW to \in {Victim, Backrun},
                 Leave(Arrives(anvil, <<"mint", t, to, OtherAmount>>))
          PROVE  Chain' /\ Steady
      <4>1. <<"mint", t, to, OtherAmount>> \in Call
        BY <3>2 DEF Call
      <4>2. QED BY <1>1, <3>1, <3>5, <4>1, ArrivesFacts, LeaveKeeps
    <3>6. QED BY <2>4, <3>3, <3>4, <3>5 DEF OtherInterferes
  <2>5. QED BY <2>1, <2>2, <2>3, <2>4
<1>3. QED BY <1>1, <1>2, OutsideKeeps DEF Steady

(* The invariant holds to begin with, the chain being down. *)
LEMMA InvInit == Init => Inv
<1> SUFFICES ASSUME Init
             PROVE  Inv
  OBVIOUS
<1>1. anvil = [Deployed EXCEPT !.up = FALSE] /\ anvil.up = FALSE
  BY DEF Init, Deployed
<1>2. Sound(anvil) /\ anvil.receipts = <<>>
  <2>1. Sound(anvil) /\ Deployed \in Node /\ Deployed.receipts = <<>>
    BY <1>1, DeployedIsSound, NodeUpdates DEF Sound
  <2>2. QED BY <1>1, <2>1 DEF Node
<1>3. payload \in [Request -> Tx]
  BY NoTxIsTx DEF Init
<1>4. MempoolTypeOK
  BY DEF Init, MempoolInit, MempoolTypeOK
<1>5. Chain
  BY <1>2, <1>3, <1>4 DEF Init, Chain
<1>6. Confined(Shape, at, raised, anvil.up, anvil.automine, lapsed)
  BY <1>1 DEF Init, Confined
<1>7. QED BY <1>5, <1>6, NothingIsWellSeen DEF Init, Inv

(* Every step keeps it. *)
LEMMA InvNext == Inv /\ [Next]_vars => Inv'
<1> SUFFICES ASSUME Inv, [Next]_vars
             PROVE  Inv'
  OBVIOUS
<1>1. ASSUME NEW name \in Scenario, Begin(name)
      PROVE  Inv'
  BY <1>1, BeginKeeps
<1>2. ASSUME NEW st \in Running,
             \/ Prepares(st) \/ SetsAutomine(st) \/ CastSends(st) \/ CastRefused(st)
             \/ Reads(st) \/ Submits(st) \/ Bundles(st) \/ Simulates(st) \/ BundleRefused(st)
             \/ Checks(st) \/ Unreachable(st)
             \/ CallFails(st) \/ ResponseLost(st) \/ BundlePartly(st)
      PROVE  Inv'
  BY <1>2, PreparesKeeps, SetsAutomineKeeps, SendsKeeps, RefusedKeeps, ReadsKeeps, SubmitsKeeps,
     BundlesKeeps, BundleRefusedKeeps, ChecksKeeps, UnreachableKeeps, CallFailsKeeps,
     ResponseLostKeeps, PartlyKeeps
<1>3. CASE Kill
  BY <1>3, KillKeeps
<1>4. CASE BuilderStops \/ AnvilStops
  BY <1>4, StopsKeep
<1>5. CASE OtherSubmits \/ OtherRestarts \/ OtherSends \/ OtherInterferes
  BY <1>5, OthersKeep
<1>6. CASE UNCHANGED vars
  <2>1. UNCHANGED worldVars /\ UNCHANGED <<runVars, lapsed>> /\ Chain
    BY <1>6 DEF vars, pastVars, Inv
  <2>2. Chain' /\ Steady
    BY <2>1, IdleKeeps
  <2>3. QED BY <2>1, <2>2, OutsideKeeps DEF Steady
<1>7. QED BY <1>1, <1>2, <1>3, <1>4, <1>5, <1>6 DEF Next, Rest
-----------------------------------------------------------------------------
(* The invariant: what the services hold is well formed and sound, the      *)
(* program that runs has the shape of its scenario, and automine is along   *)
(* it as it should be.                                                      *)
THEOREM Disciplines == Spec => []Inv
<1>1. QED BY InvInit, InvNext, PTL DEF Spec

(* Whatever the scenarios and the others on the chain do, in whatever order *)
(* and with whatever failures: the reserves of the pools are covered by     *)
(* what the pools hold, and what the accounts hold of a token is what was   *)
(* minted of it.                                                            *)
THEOREM ChainIsSound == Spec => [](Solvent(anvil.storage) /\ Balanced(anvil.storage))
<1>1. Inv => Solvent(anvil.storage) /\ Balanced(anvil.storage)
  BY DEF Inv, Chain, Sound
<1>2. QED BY <1>1, Disciplines, PTL

(* cast send, which waits for its receipt without a timeout, is called only *)
(* while the node mines by itself: no inner call of a block switches        *)
(* automine off (mint_and_approve, add_pool_liquidity).                     *)
THEOREM SendsNeverWait == Spec => []SendsUnderAutomine
<1>1. ASSUME Inv
      PROVE  SendsUnderAutomine
  <2>1. ASSUME NEW st \in Running, st.op = "cast send", anvil.up
        PROVE  anvil.automine
    <3>1. Now = "send" /\ at > 0
      BY <1>1, <2>1, TagFacts, RunningFacts
    <3>2. Confined(Shape, at, raised, anvil.up, anvil.automine, lapsed)
      BY <1>1 DEF Inv
    <3>3. QED BY <2>1, <3>1, <3>2 DEF Confined, Now, Inside
  <2>2. QED BY <2>1 DEF SendsUnderAutomine
<1>2. QED BY <1>1, Disciplines, PTL

(* A bundle is given to the builder only while automine is off, and after a *)
(* run automine is on only if a failure of the very call that switches it,  *)
(* or a kill, left it on (the finally clauses of scenario_support).         *)
THEOREM AutomineIsConfined == Spec => []AutomineConfined
<1>1. ASSUME Inv
      PROVE  AutomineConfined
  <2>1. Confined(Shape, at, raised, anvil.up, anvil.automine, lapsed)
    BY <1>1 DEF Inv
  <2>2. ASSUME NEW st \in Running, st.op \in {"bundle", "simulate"}, anvil.up
        PROVE  ~anvil.automine
    <3>1. Now = "bundle" /\ at > 0 /\ at \in 1..Len(Shape) /\ Guarded(Shape)
      BY <1>1, <2>2, TagFacts, RunningFacts
    <3>2. PICK j \in 1..at - 1 : Shape[j] = "close"
      BY <3>1 DEF Guarded, Now
    <3>3. QED BY <2>1, <2>2, <3>1, <3>2 DEF Confined, Now, Inside
  <2>3. at = 0 /\ anvil.up /\ anvil.automine => lapsed
    BY <2>1 DEF Confined
  <2>4. QED BY <2>2, <2>3 DEF AutomineConfined
<1>2. QED BY <1>1, Disciplines, PTL

(* Runs and failures are counted up to their bounds, and somebody has      *)
(* interfered or not.                                                       *)
LEMMA CountsNext ==
  ASSUME runs \in 0..MaxRuns, faults \in 0..MaxFaults, interfered \in BOOLEAN, [Next]_vars
  PROVE  (runs \in 0..MaxRuns /\ faults \in 0..MaxFaults /\ interfered \in BOOLEAN)'
<1>1. runs' = runs \/ (runs < MaxRuns /\ runs' = runs + 1)
  BY DEF Next, vars, pastVars, Begin, Prepares, SetsAutomine, CastSends, CastRefused, Reads, Submits,
         Bundles, Simulates, BundleRefused, Checks, Unreachable, CallFails, ResponseLost, BundlePartly,
         Kill, BuilderStops, AnvilStops, OtherSubmits, OtherRestarts, OtherSends, OtherInterferes,
         Rest, Fault, Incident
<1>2. faults' = faults \/ (faults < MaxFaults /\ faults' = faults + 1)
  BY DEF Next, vars, pastVars, Begin, Prepares, SetsAutomine, CastSends, CastRefused, Reads, Submits,
         Bundles, Simulates, BundleRefused, Checks, Unreachable, CallFails, ResponseLost, BundlePartly,
         Kill, BuilderStops, AnvilStops, OtherSubmits, OtherRestarts, OtherSends, OtherInterferes,
         Rest, Fault, Incident
<1>3. \/ interfered' = interfered \/ interfered' = FALSE
      \/ OtherInterferes
  BY DEF Next, vars, pastVars, Begin, Prepares, SetsAutomine, CastSends, CastRefused, Reads, Submits,
         Bundles, Simulates, BundleRefused, Checks, Unreachable, CallFails, ResponseLost, BundlePartly,
         Kill, BuilderStops, AnvilStops, OtherSubmits, OtherRestarts, OtherSends, OtherInterferes,
         Rest, Fault, Incident
<1>4. OtherInterferes => interfered' \in BOOLEAN
  BY DEF OtherInterferes
<1>5. interfered' \in BOOLEAN
  BY <1>3, <1>4
<1>6. runs' \in 0..MaxRuns /\ faults' \in 0..MaxFaults
  BY <1>1, <1>2, ScenariosAssumption
<1>7. QED BY <1>5, <1>6

(* The state of the scenarios, of the chain and of the builder stays well   *)
(* formed, through seven programs, their failures and other users.          *)
THEOREM TypeCorrect == Spec => []TypeOK
<1> DEFINE Counts == runs \in 0..MaxRuns /\ faults \in 0..MaxFaults /\ interfered \in BOOLEAN
<1>1. Init => Counts
  <2>1. Init => runs \in 0..MaxRuns /\ faults \in 0..MaxFaults
    BY ScenariosAssumption DEF Init
  <2>2. Init => interfered \in BOOLEAN
    BY DEF Init
  <2>3. QED BY <2>1, <2>2
<1>2. Counts /\ [Next]_vars => Counts'
  BY CountsNext
<1>3. ASSUME Inv, Counts
      PROVE  TypeOK
  <2>1. /\ MempoolTypeOK
        /\ anvil.storage \in Storage /\ anvil.storage.ok
        /\ anvil.head \in Nat /\ anvil.nonce \in [User -> Nat] /\ anvil.receipts = <<>>
        /\ anvil.up \in BOOLEAN /\ anvil.automine \in BOOLEAN /\ builder \in BOOLEAN
    BY <1>3 DEF Inv, Chain, Sound, Node
  <2>2. /\ scenario \in Scenario \cup {"none"}
        /\ at \in Nat /\ (at = 0 <=> scenario = "none")
        /\ raised \in BOOLEAN /\ lapsed \in BOOLEAN
    BY <1>3 DEF Inv, Confined
  <2>3. QED BY <1>3, <2>1, <2>2 DEF TypeOK
<1>4. QED BY <1>1, <1>2, <1>3, Disciplines, PTL DEF Spec
-----------------------------------------------------------------------------
(***************************************************************************)
(* What a block pays.                                                       *)
(***************************************************************************)

(* Two storages in which everybody holds the same, the allowances aside. *)
Alike(r, s) == r.balance = s.balance /\ r.reserve = s.reserve

(* What execution does to the storage and to the receipts. *)
LEMMA ExecuteDoes ==
  ASSUME NEW a, Sound(a), NEW tx \in Tx, NEW after, after = Apply(a.storage, tx.from, tx.call)
  PROVE  /\ Execute(a, tx).storage = IF after.ok THEN after ELSE a.storage
         /\ Execute(a, tx).receipts = Append(a.receipts, IF after.ok THEN "included" ELSE "reverted")
  BY DEF Execute, Sound, Node

(* A transaction in which a user sends nothing to itself, as others on the  *)
(* chain do.                                                                *)
Idle(tx) == tx.call = <<"transfer", TokenA, tx.from, 0>>
Still(a) == \A k \in 1..Len(a.pool) : Idle(a.pool[k])

(* It changes nothing. *)
LEMMA IdleFacts ==
  ASSUME NEW a, Sound(a), NEW tx \in Tx, Idle(tx)
  PROVE  Alike(Execute(a, tx).storage, a.storage)
<1> DEFINE s == a.storage
           u == tx.from
           r == Apply(s, u, tx.call)
<1>1. s \in Storage /\ s \in Loose /\ u \in User /\ u \in Account /\ TokenA \in Token /\ 0 \in Int
  BY StorageIsLoose, Cast DEF Sound, Node, Tx, Account
<1>2. r = Transfer(s, TokenA, u, u, 0)
  BY DEF Idle, Apply
<1> HIDE DEF s, u, r
<1>3. Sent(r, s, TokenA, u, u, 0)
  BY <1>1, <1>2, TransferFacts
<1>4. /\ r.balance \in [Token -> [Account -> Int]] /\ s.balance \in [Token -> [Account -> Int]]
      /\ \A t \in Token, b \in Account : r.balance[t][b] = s.balance[t][b]
      /\ r.reserve = s.reserve
  BY <1>1, <1>3 DEF Sent, Moved, Loose
<1>5. \A t \in Token : r.balance[t] = s.balance[t]
  BY <1>4
<1>6. r.balance = s.balance
  BY <1>4, <1>5
<1>7. Execute(a, tx).storage = IF r.ok THEN r ELSE s
  BY ExecuteDoes DEF r, s, u
<1>8. QED BY <1>4, <1>6, <1>7 DEF Alike, s

(* The calls that leave the reserves of a pool alone, of those the          *)
(* scenarios make with cast send: all but the seeding of that pool.         *)
Mild(call, p) ==
    \/ \E n \in {"mint", "approve", "transfer"}, t \in Token, to \in Account, x \in Uint :
          call = <<n, t, to, x>>
    \/ \E q \in Pool \ {p}, x \in Uint : call = <<"seed", q, x>>

(* They do. *)
LEMMA MildFacts ==
  ASSUME NEW a, Sound(a), NEW tx \in Tx, NEW p \in Pool, Mild(tx.call, p)
  PROVE  Execute(a, tx).storage.reserve[p] = a.storage.reserve[p]
<1> DEFINE s == a.storage
           u == tx.from
           r == Apply(s, u, tx.call)
<1>1. s \in Storage /\ s \in Loose /\ u \in User /\ u \in Account
      /\ TokenA \in Token /\ TokenB \in Token
  BY StorageIsLoose, Cast DEF Sound, Node, Tx, Account
<1>2. Execute(a, tx).storage = IF r.ok THEN r ELSE s
  BY ExecuteDoes
<1>3. r = Apply(s, u, tx.call)
  OBVIOUS
<1> HIDE DEF s, u, r
<1>4. \A x \in Uint : x \in Int
  BY Cast
<1>5. ASSUME NEW t \in Token, NEW to \in Account, NEW x \in Uint, tx.call = <<"mint", t, to, x>>
      PROVE  r.reserve = s.reserve
  <2>1. r = MintTo(s, t, to, x)
    BY <1>3, <1>5 DEF Apply
  <2>2. QED BY <1>1, <2>1 DEF MintTo, Require, Loose
<1>6. ASSUME NEW t \in Token, NEW to \in Account, NEW x \in Uint, tx.call = <<"approve", t, to, x>>
      PROVE  r.reserve = s.reserve
  <2>1. r = Approve(s, t, u, to, x)
    BY <1>3, <1>6 DEF Apply
  <2>2. QED BY <1>1, <1>4, <2>1, ApproveFacts DEF Approved
<1>7. ASSUME NEW t \in Token, NEW to \in Account, NEW x \in Uint, tx.call = <<"transfer", t, to, x>>
      PROVE  r.reserve = s.reserve
  <2>1. r = Transfer(s, t, u, to, x)
    BY <1>3, <1>7 DEF Apply
  <2>2. QED BY <1>1, <1>4, <2>1, TransferFacts DEF Sent
<1>8. ASSUME NEW q \in Pool \ {p}, NEW x \in Uint, tx.call = <<"seed", q, x>>
      PROVE  r.reserve[p] = s.reserve[p]
  <2> DEFINE asked == Require(s, x > 0 /\ x > 0)
             paidA == TransferFrom(asked, TokenA, q, u, q, x)
             paidB == TransferFrom(paidA, TokenB, q, u, q, x)
             gotA  == AddReserve(paidB, q, TokenA, x)
             gotB  == AddReserve(gotA, q, TokenB, x)
             fits  == s.reserve[q][TokenA] + x \in Uint /\ s.reserve[q][TokenB] + x \in Uint
  <2>1. r = SeedLiquidity(s, u, q, x, x)
    BY <1>3, <1>8 DEF Apply
  <2>2. r = Require(gotB, fits)
    BY <2>1 DEF SeedLiquidity
  <2>3. q \in Account /\ x \in Int /\ fits \in BOOLEAN
    BY <1>4 DEF Account
  <2>4. asked \in Loose /\ asked.reserve = s.reserve
    BY <1>1, RequireFacts
  <2> HIDE DEF asked, fits
  <2>5. paidA \in Loose /\ paidA.reserve = s.reserve
    BY <1>1, <2>3, <2>4, TransferFromFacts DEF Pulled
  <2> HIDE DEF paidA
  <2>6. paidB \in Loose /\ paidB.reserve = s.reserve
    BY <1>1, <2>3, <2>5, TransferFromFacts DEF Pulled
  <2> HIDE DEF paidB
  <2>7. Reserved(gotA, paidB, q, TokenA, x)
    BY <1>1, <2>3, <2>6, AddReserveFacts
  <2>8. gotA \in Loose
    BY <2>7 DEF Reserved
  <2> HIDE DEF gotA
  <2>9. Reserved(gotB, gotA, q, TokenB, x)
    BY <1>1, <2>3, <2>8, AddReserveFacts
  <2>10. gotB \in Loose
    BY <2>9 DEF Reserved
  <2> HIDE DEF gotB
  <2>11. r \in Loose /\ r.reserve = gotB.reserve
    BY <2>2, <2>3, <2>10, RequireFacts
  <2>12. \A t \in Token : r.reserve[p][t] = s.reserve[p][t]
    BY <2>6, <2>7, <2>9, <2>11 DEF Reserved
  <2>13. r.reserve[p] \in [Token -> Int] /\ s.reserve[p] \in [Token -> Int]
    BY <1>1, <2>11 DEF Loose
  <2>14. QED BY <2>12, <2>13
<1>9. r.reserve[p] = s.reserve[p]
  BY <1>5, <1>6, <1>7, <1>8 DEF Mild
<1>10. QED BY <1>2, <1>9 DEF s

(* As long as a block takes idle transactions, everybody holds the same. *)
LEMMA StillRounds ==
  ASSUME NEW a, Sound(a), NEW h, Rounds(h, a), NEW n \in 0..Len(a.pool),
         \A k \in 1..n : Idle(a.pool[k])
  PROVE  Alike(h[n].storage, a.storage)
<1> DEFINE P == {m \in Nat : m <= n => Alike(h[m].storage, a.storage)}
<1>1. a.pool \in Seq(Tx) /\ Len(a.pool) \in Nat /\ n \in Nat
  BY DEF Sound, Node
<1>2. 0 \in P
  BY DEF Rounds, Alike
<1>3. ASSUME NEW m \in Nat, m \in P
      PROVE  m + 1 \in P
  <2> SUFFICES ASSUME m + 1 <= n
               PROVE  Alike(h[m + 1].storage, a.storage)
    OBVIOUS
  <2>1. m \in 0..Len(a.pool) /\ m \in 0..Len(a.pool) - 1 /\ m + 1 \in 1..n
        /\ m + 1 \in 1..Len(a.pool)
    BY <1>1
  <2>2. h[m + 1] = Execute(h[m], a.pool[m + 1]) /\ Sound(h[m])
    BY <2>1 DEF Rounds, Passed
  <2>3. a.pool[m + 1] \in Tx /\ Idle(a.pool[m + 1])
    BY <1>1, <2>1
  <2>4. Alike(h[m + 1].storage, h[m].storage)
    BY <2>2, <2>3, IdleFacts
  <2>5. Alike(h[m].storage, a.storage)
    BY <1>1, <1>3, <2>1
  <2>6. QED BY <2>4, <2>5 DEF Alike
<1>4. \A m \in Nat : m \in P
  <2> HIDE DEF P
  <2>1. QED BY <1>2, <1>3, SetInduction
<1>5. QED BY <1>1, <1>4

(* A block of such transactions changes nothing. *)
LEMMA StillBlock ==
  ASSUME NEW a, Sound(a), Still(a)
  PROVE  Alike(Mined(a).storage, a.storage)
<1>1. PICK h : Rounds(h, a) /\ Mined(a) = h[Len(a.pool)]
  BY MinedInRounds
<1>2. Len(a.pool) \in 0..Len(a.pool)
  BY DEF Sound, Node
<1>3. QED BY <1>1, <1>2, StillRounds DEF Still

(* The transactions whose calls leave the reserves of a pool alone. *)
Milds(p) == {tx \in Tx : Mild(tx.call, p)}

(* A block of them leaves these reserves alone. *)
LEMMA MildBlock ==
  ASSUME NEW a, Sound(a), NEW p \in Pool, a.pool \in Seq(Milds(p))
  PROVE  Mined(a).storage.reserve[p] = a.storage.reserve[p]
<1>1. PICK h : Rounds(h, a) /\ Mined(a) = h[Len(a.pool)]
  BY MinedInRounds
<1> DEFINE n == Len(a.pool)
           P == {m \in Nat : m <= n => h[m].storage.reserve[p] = a.storage.reserve[p]}
<1>2. n \in Nat /\ \A k \in 1..n : a.pool[k] \in Tx /\ Mild(a.pool[k].call, p)
  <2>1. n \in Nat /\ \A k \in 1..n : a.pool[k] \in Milds(p)
    OBVIOUS
  <2>2. QED BY <2>1 DEF Milds
<1> HIDE DEF n
<1>3. 0 \in P
  BY <1>1 DEF Rounds
<1>4. ASSUME NEW m \in Nat, m \in P
      PROVE  m + 1 \in P
  <2> SUFFICES ASSUME m + 1 <= n
               PROVE  h[m + 1].storage.reserve[p] = a.storage.reserve[p]
    OBVIOUS
  <2>1. m \in 0..n /\ m \in 0..n - 1 /\ m + 1 \in 1..n
    BY <1>2
  <2>2. h[m + 1] = Execute(h[m], a.pool[m + 1]) /\ Sound(h[m])
    BY <1>1, <2>1 DEF Rounds, Passed, n
  <2>3. h[m + 1].storage.reserve[p] = h[m].storage.reserve[p]
    BY <1>2, <2>1, <2>2, MildFacts
  <2>4. m <= n
    BY <2>1
  <2>5. QED BY <1>4, <2>3, <2>4
<1>5. \A m \in Nat : m \in P
  <2> HIDE DEF P
  <2>1. QED BY <1>3, <1>4, SetInduction
<1>6. QED BY <1>1, <1>2, <1>5 DEF n

(* An idle transaction is mild. *)
LEMMA IdleIsMild ==
  ASSUME NEW tx \in Tx, Idle(tx), NEW p \in Pool
  PROVE  tx \in Milds(p)
<1>1. tx.from \in Account /\ TokenA \in Token /\ 0 \in Uint
  BY ContractsAssumption DEF Tx, Account, Token, Uint
<1>2. Mild(tx.call, p)
  BY <1>1 DEF Idle, Mild
<1>3. QED BY <1>2 DEF Milds

(* The pool with which cast's transaction is mined holds it and what was in *)
(* the pool.                                                                *)
LEMMA CastOrdersIn ==
  ASSUME Chain, NEW S, anvil.pool \in Seq(S), NEW tx \in S, NEW txs \in CastOrders(tx)
  PROVE  txs \in Seq(S)
<1>1. ASSUME NEW k \in DOMAIN anvil.pool
      PROVE  RemoveAt(anvil.pool, k) \in Seq(S)
  BY DEF RemoveAt
<1>2. \A o \in Seq(S) : Append(o, tx) \in Seq(S) /\ <<tx>> \o o \in Seq(S)
  <2>1. <<tx>> \in Seq(S)
    OBVIOUS
  <2>2. QED BY <2>1
<1>3. QED BY <1>1, <1>2 DEF CastOrders

(* cast send empties the pool, and leaves the reserves alone that its call  *)
(* leaves alone.                                                            *)
LEMMA CastPays ==
  ASSUME Chain, NEW tx \in Tx, NEW txs \in CastOrders(tx), CastSendEffect(txs)
  PROVE  /\ anvil'.pool = <<>>
         /\ \A p \in Pool : Still(anvil) /\ Mild(tx.call, p)
               => anvil'.storage.reserve[p] = anvil.storage.reserve[p]
<1>1. anvil' = [Mined([anvil EXCEPT !.pool = txs]) EXCEPT !.receipts = <<>>]
  BY DEF CastSendEffect, CastBlock
<1>2. anvil \in Node /\ Sound(anvil) /\ anvil.pool \in Seq(Tx)
  BY DEF Chain, Sound, Node
<1>3. txs \in Seq(Tx)
  BY <1>2, CastOrdersIn
<1> DEFINE a == [anvil EXCEPT !.pool = txs]
<1>4. Sound(a) /\ a.pool = txs /\ a.storage = anvil.storage
  BY <1>2, <1>3, NodeUpdates DEF Node
<1> HIDE DEF a
<1>5. Sound(Mined(a)) /\ Mined(a).pool = <<>>
  BY <1>4, MinedFacts DEF Blocked
<1>6. anvil'.pool = Mined(a).pool /\ anvil'.storage = Mined(a).storage
  BY <1>1, <1>5 DEF a, Sound, Node
<1>7. ASSUME NEW p \in Pool, Still(anvil), Mild(tx.call, p)
      PROVE  anvil'.storage.reserve[p] = anvil.storage.reserve[p]
  <2>1. anvil.pool \in Seq(Milds(p))
    <3>1. \A k \in 1..Len(anvil.pool) : anvil.pool[k] \in Tx /\ Idle(anvil.pool[k])
      BY <1>2, <1>7 DEF Still
    <3>2. \A k \in 1..Len(anvil.pool) : anvil.pool[k] \in Milds(p)
      BY <3>1, IdleIsMild
    <3>3. QED BY <1>2, <3>2
  <2>2. tx \in Milds(p)
    BY <1>7 DEF Milds
  <2>3. txs \in Seq(Milds(p))
    BY <2>1, <2>2, CastOrdersIn
  <2>4. QED BY <1>4, <1>6, <2>3, MildBlock
<1>8. QED BY <1>5, <1>6, <1>7

(* What somebody else sends to a node with nothing but idle transactions    *)
(* leaves it with nothing else, and everybody with what he held.            *)
LEMMA OthersPayNothing ==
  ASSUME Chain, Still(anvil), OtherSends
  PROVE  Still(anvil') /\ Alike(anvil'.storage, anvil.storage)
<1> DEFINE tx(u)     == [from |-> u, nonce |-> anvil.nonce[u], call |-> <<"transfer", TokenA, u, 0>>]
           pooled(u) == [anvil EXCEPT !.pool = Append(anvil.pool, tx(u))]
<1>1. PICK u \in User : Leave(IF anvil.automine THEN Mined(pooled(u)) ELSE pooled(u))
  BY DEF OtherSends
<1>2. anvil \in Node /\ Sound(anvil) /\ anvil.pool \in Seq(Tx) /\ anvil.nonce[u] \in Nat
  BY DEF Chain, Sound, Node
<1>3. tx(u) \in Tx /\ Idle(tx(u))
  <2>1. 0 \in Uint /\ u \in Account /\ TokenA \in Token
    BY ContractsAssumption DEF Uint, Account, Token
  <2>2. <<"transfer", TokenA, u, 0>> \in Call
    BY <2>1 DEF Call
  <2>3. QED BY <1>2, <2>2 DEF Tx, Idle
<1> HIDE DEF tx
<1>4. Append(anvil.pool, tx(u)) \in Seq(Tx)
  BY <1>2, <1>3
<1>5. Sound(pooled(u)) /\ pooled(u).pool = Append(anvil.pool, tx(u)) /\ pooled(u).storage = anvil.storage
  BY <1>2, <1>4, NodeUpdates DEF Node
<1> HIDE DEF pooled
<1>6. Still(pooled(u))
  BY <1>2, <1>3, <1>5 DEF Still
<1>7. Sound(Mined(pooled(u))) /\ Mined(pooled(u)).pool = <<>>
  BY <1>5, MinedFacts DEF Blocked
<1>8. Alike(Mined(pooled(u)).storage, anvil.storage)
  BY <1>5, <1>6, StillBlock
<1>9. CASE anvil.automine
  <2>1. anvil'.pool = <<>> /\ anvil'.storage = Mined(pooled(u)).storage
    BY <1>1, <1>7, <1>9 DEF Leave, Sound, Node
  <2>2. QED BY <1>8, <2>1 DEF Still
<1>10. CASE ~anvil.automine
  <2>1. anvil'.pool = pooled(u).pool /\ anvil'.storage = pooled(u).storage
    BY <1>1, <1>5, <1>10 DEF Leave, Sound, Node
  <2>2. QED BY <1>5, <1>6, <2>1 DEF Still, Alike
<1>11. QED BY <1>9, <1>10

(* The storage after each item of a bundle that is included: what its call  *)
(* makes of the storage before it.                                          *)
Paying(g, items) ==
    /\ Alike(g[0], anvil.storage)
    /\ \A k \in 1..Len(items) :
          /\ g[k - 1] \in Storage
          /\ g[k] = Apply(g[k - 1], items[k].tx.from, items[k].tx.call) /\ g[k].ok

(* A bundle that is reported as included has gone through item by item, if  *)
(* nothing but idle transactions was in the pool before it.                 *)
LEMMA IncludedBundle ==
  ASSUME Chain, Still(anvil), NEW items \in Seq(Item),
         BundleReply(items, BundleBlock(items)).status = "included"
  PROVE  \E g : Paying(g, items) /\ BundleBlock(items).storage = g[Len(items)]
<1> DEFINE n == Len(items)
           m == Len(anvil.pool)
           a == SentUpTo(items, n)
<1>1. n \in Nat /\ m \in Nat /\ anvil.pool \in Seq(Tx) /\ anvil \in Node
  BY DEF Chain, Sound, Node
<1>2. Sound(a) /\ a.receipts = <<>> /\ Len(a.pool) = m + n /\ BundleBlock(items) = Mined(a)
  <2>1. n \in 0..Len(items)
    BY <1>1
  <2>2. QED BY <2>1, SentFacts DEF BundleBlock
<1>3. a.storage = anvil.storage /\ a.pool = anvil.pool \o [k \in 1..n |-> items[k].tx]
  BY <1>1 DEF SentUpTo, Node
<1>4. /\ \A k \in 1..m : a.pool[k] = anvil.pool[k]
      /\ \A k \in 1..n : a.pool[m + k] = items[k].tx /\ items[k].tx \in Tx
  <2> DEFINE txs == [k \in 1..n |-> items[k].tx]
  <2>1. \A k \in 1..n : items[k] \in Item
    OBVIOUS
  <2>2. \A k \in 1..n : items[k].tx \in Tx
    BY <2>1 DEF Item
  <2>3. txs \in [1..n -> Tx]
    BY <2>2
  <2>4. txs \in Seq(Tx) /\ Len(txs) = n /\ \A k \in 1..n : txs[k] = items[k].tx
    BY <1>1, <2>3
  <2> HIDE DEF txs, n, m
  <2>5. a.pool = anvil.pool \o txs
    BY <1>3 DEF txs, n
  <2> HIDE DEF a
  <2>6. /\ \A k \in 1..m : a.pool[k] = anvil.pool[k]
        /\ \A k \in 1..n : a.pool[m + k] = txs[k]
    BY <1>1, <2>4, <2>5 DEF m
  <2>7. QED BY <2>2, <2>4, <2>6
<1> HIDE DEF a, n, m
<1>5. PICK h : Rounds(h, a) /\ Mined(a) = h[Len(a.pool)]
  BY <1>2, MinedInRounds
<1>6. m \in 0..Len(a.pool) /\ Alike(h[m].storage, a.storage)
  <2>1. m \in 0..Len(a.pool)
    BY <1>1, <1>2
  <2>2. \A k \in 1..m : Idle(a.pool[k])
    BY <1>4 DEF Still, m
  <2>3. QED BY <1>2, <1>5, <2>1, <2>2, StillRounds
<1> DEFINE after(j) == Apply(h[j].storage, a.pool[j + 1].from, a.pool[j + 1].call)
<1>7. ASSUME NEW j \in 0..m + n - 1
      PROVE  /\ h[j + 1].storage = IF after(j).ok THEN after(j) ELSE h[j].storage
             /\ h[j + 1].receipts = Append(h[j].receipts, IF after(j).ok THEN "included" ELSE "reverted")
             /\ h[j].receipts \in Seq(Outcome) /\ Len(h[j].receipts) = j /\ h[j].storage \in Storage
  <2>1. j \in 0..Len(a.pool) /\ j \in 0..Len(a.pool) - 1 /\ j + 1 \in 1..Len(a.pool)
    BY <1>1, <1>2
  <2>2. h[j + 1] = Execute(h[j], a.pool[j + 1]) /\ Passed(h[j], a, j)
    BY <1>5, <2>1 DEF Rounds
  <2>3. a.pool[j + 1] \in Tx
    BY <1>2, <2>1 DEF Sound, Node
  <2>4. Sound(h[j]) /\ Len(h[j].receipts) = Len(a.receipts) + j
    BY <2>2 DEF Passed
  <2>5. Len(a.receipts) = 0
    BY <1>2
  <2>6. /\ h[j + 1].storage = IF after(j).ok THEN after(j) ELSE h[j].storage
        /\ h[j + 1].receipts = Append(h[j].receipts, IF after(j).ok THEN "included" ELSE "reverted")
    <3> DEFINE tx == a.pool[j + 1]
               b  == h[j]
               s  == Apply(b.storage, tx.from, tx.call)
    <3>1. tx \in Tx /\ Sound(b) /\ s = after(j) /\ h[j + 1] = Execute(b, tx)
      BY <2>2, <2>3, <2>4
    <3> HIDE DEF tx, b, s
    <3>2. /\ Execute(b, tx).storage = IF s.ok THEN s ELSE b.storage
          /\ Execute(b, tx).receipts = Append(b.receipts, IF s.ok THEN "included" ELSE "reverted")
      BY <3>1, ExecuteDoes DEF s
    <3> HIDE DEF after
    <3>3. QED BY <3>1, <3>2 DEF b
  <2>7. Len(h[j].receipts) = j
    BY <2>1, <2>4, <2>5
  <2>8. h[j].receipts \in Seq(Outcome) /\ h[j].storage \in Storage
    BY <2>4 DEF Sound, Node
  <2>9. QED BY <2>6, <2>7, <2>8
<1> HIDE DEF after
<1>8. PICK l \in Nat : l = m + n
  BY <1>1
<1> DEFINE R == h[l].receipts
           P == {j \in Nat : j <= l =>
                    /\ Len(h[j].receipts) = j
                    /\ \A i \in 0..j - 1 : h[j].receipts[i + 1] = "included" => after(i).ok}
<1>9. 0 \in P
  <2>1. h[0].receipts = <<>>
    BY <1>2, <1>5 DEF Rounds
  <2>2. 0..0 - 1 = {}
    OBVIOUS
  <2>3. QED BY <2>1, <2>2
<1>10. ASSUME NEW j \in Nat, j \in P
      PROVE  j + 1 \in P
  <2> SUFFICES ASSUME j + 1 <= l
               PROVE  /\ Len(h[j + 1].receipts) = j + 1
                      /\ \A i \in 0..j : h[j + 1].receipts[i + 1] = "included" => after(i).ok
    BY <1>1
  <2>1. j \in 0..m + n - 1 /\ j <= l
    BY <1>1, <1>8
  <2>2. /\ Len(h[j].receipts) = j
        /\ \A i \in 0..j - 1 : h[j].receipts[i + 1] = "included" => after(i).ok
    BY <1>10, <2>1
  <2> HIDE DEF P
  <2>3. /\ h[j + 1].receipts = Append(h[j].receipts, IF after(j).ok THEN "included" ELSE "reverted")
        /\ h[j].receipts \in Seq(Outcome)
    BY <1>7, <2>1
  <2> DEFINE q == h[j].receipts
             o == IF after(j).ok THEN "included" ELSE "reverted"
  <2>4. q \in Seq(Outcome) /\ Len(q) = j /\ o \in Outcome /\ (o = "included" => after(j).ok)
    BY <2>2, <2>3 DEF Outcome
  <2> HIDE DEF q, o
  <2>5. /\ Len(Append(q, o)) = j + 1
        /\ Append(q, o)[j + 1] = o
        /\ \A i \in 1..j : Append(q, o)[i] = q[i]
    BY <2>4
  <2>6. ASSUME NEW i \in 0..j, Append(q, o)[i + 1] = "included"
        PROVE  after(i).ok
    <3>1. CASE i = j
      BY <2>4, <2>5, <2>6, <3>1
    <3>2. CASE i # j
      <4>1. i \in 0..j - 1 /\ i + 1 \in 1..j
        BY <3>2
      <4>2. q[i + 1] = "included"
        BY <2>5, <2>6, <4>1
      <4>3. QED BY <2>2, <4>1, <4>2 DEF q
    <3>3. QED BY <3>1, <3>2
  <2>7. h[j + 1].receipts = Append(q, o)
    BY <2>3 DEF q, o
  <2>8. QED BY <2>5, <2>6, <2>7
<1>11. /\ Len(R) = l
       /\ \A i \in 0..l - 1 : R[i + 1] = "included" => after(i).ok
  <2>1. \A j \in Nat : j \in P
    <3> HIDE DEF P
    <3>1. QED BY <1>9, <1>10, SetInduction
  <2>2. l <= l
    BY <1>8
  <2>3. QED BY <1>8, <2>1, <2>2
<1>12. R \in Seq(Outcome) /\ R = BundleBlock(items).receipts
  <2>1. BundleBlock(items) = h[l]
    BY <1>2, <1>5, <1>8
  <2>2. QED BY <2>1, BlockFacts
<1> HIDE DEF R, P
<1>13. \A k \in 1..n : R[m + k] = "included"
  <2> DEFINE txs == SubSeq(R, Len(R) - n + 1, Len(R))
  <2>1. \A k \in DOMAIN txs : txs[k] = "included"
    BY <1>12 DEF BundleReply, n
  <2>2. DOMAIN txs = 1..n /\ \A k \in 1..n : txs[k] = R[m + k]
    <3> DEFINE f == Len(R) - n + 1
    <3>1. f = m + 1 /\ f \in 1..Len(R) + 1 /\ Len(R) \in Nat
      BY <1>1, <1>8, <1>11
    <3> HIDE DEF f
    <3>2. Len(SubSeq(R, f, Len(R))) = n /\ SubSeq(R, f, Len(R)) \in Seq(Outcome)
          /\ \A k \in 1..n : SubSeq(R, f, Len(R))[k] = R[m + k]
      <4>1. \A k \in 1..n : f + k - 1 = m + k /\ k \in 1..Len(R) - f + 1
        BY <1>1, <1>8, <1>11, <3>1
      <4>2. Len(R) - f + 1 = n
        BY <1>1, <1>8, <1>11, <3>1
      <4>3. QED BY <1>1, <1>12, <3>1, <4>1, <4>2
    <3>3. QED BY <1>1, <3>2 DEF f
  <2> HIDE DEF txs
  <2>3. QED BY <2>1, <2>2
<1> DEFINE g == [k \in 0..n |-> h[m + k].storage]
<1>14. ASSUME NEW k \in 1..n
       PROVE  /\ h[m + (k - 1)].storage \in Storage
              /\ h[m + k].storage = Apply(h[m + (k - 1)].storage, items[k].tx.from, items[k].tx.call)
              /\ h[m + k].storage.ok
  <2> DEFINE j == m + (k - 1)
  <2>1. j \in 0..m + n - 1 /\ j + 1 = m + k
    BY <1>1
  <2> HIDE DEF j
  <2>2. after(j).ok
    <3>1. j \in 0..l - 1
      BY <1>1, <1>8, <2>1
    <3>2. R[j + 1] = "included"
      BY <1>13, <2>1
    <3>3. QED BY <1>11, <3>1, <3>2
  <2>3. h[j + 1].storage = after(j) /\ h[j].storage \in Storage
    BY <1>7, <2>1, <2>2
  <2>4. after(j) = Apply(h[j].storage, items[k].tx.from, items[k].tx.call)
    BY <1>4, <2>1 DEF after
  <2>5. QED BY <2>1, <2>2, <2>3, <2>4 DEF j
<1>15. /\ g[0] = h[m].storage
       /\ \A k \in 1..n : g[k - 1] = h[m + (k - 1)].storage /\ g[k] = h[m + k].storage
       /\ g[n] = h[m + n].storage
  <2>1. 0 \in 0..n /\ n \in 0..n /\ m + 0 = m /\ \A k \in 1..n : k - 1 \in 0..n /\ k \in 0..n
    BY <1>1
  <2>2. QED BY <2>1
<1> HIDE DEF g
<1>16. Paying(g, items)
  <2>1. Alike(g[0], anvil.storage)
    BY <1>3, <1>6, <1>15
  <2>2. QED BY <1>14, <1>15, <2>1 DEF Paying, n
<1>17. BundleBlock(items).storage = g[n]
  BY <1>2, <1>5, <1>15
<1>18. QED BY <1>16, <1>17 DEF n
-----------------------------------------------------------------------------
(***************************************************************************)
(* The invariant of the two scenarios that are told a price.                *)
(***************************************************************************)

(* How many statements the program has, where it begins to look at a pool,  *)
(* and how many of them bring the pool to its liquidity.                    *)
Rows(p)   == IF Empty(p) THEN 10 ELSE 2
Before(p) == IF p = Pool1 THEN 2 ELSE Rows(Pool1) + 2
Finish ==
    IF scenario = "backrun" THEN Rows(Pool1) + Rows(Pool2) + 20
    ELSE IF Positive(Pool1) THEN 13 ELSE 20

(* The statements that come after the next one. *)
Left == Finish - at

(* From here on nothing but idle transactions is in Anvil's pool: backrun   *)
(* is fit to begin with, victim-swap has had a block mined.                 *)
Trusted ==
    \/ scenario = "backrun" /\ fit
    \/ scenario = "victim-swap" /\ Left <= 6

(* The reserves the route is computed from. *)
Believed(p) == IF Empty(p) THEN seen.seeded[p] ELSE seen.reserves[p]

(* The record that is remembered is the victim's swap, while it is pending. *)
Submitted ==
    /\ seen.id \in Request
    /\ status[seen.id] = "pending"
          => /\ payload[seen.id].from = Victim
             /\ \E m \in Int : payload[seen.id].call = <<"swapAForB", Pool1, SwapAmount, m>>

(* The accounts have been paid what was computed, compared with b. *)
Reported    == seen.reply.status = "included"
Earned(b, a) == b[TokenB][a] - seen.before[TokenB][a]
SwapPaid(b) == Earned(b, Victim) = seen.quote
BackPaid(b) == Earned(b, Victim) = Route.victimB /\ Earned(b, Backrun) = Route.profit

(* What is remembered of the chain is so when it is used. *)
SwapCore ==
    /\ Left \in {3, 4} => /\ seen.before = anvil.storage.balance
                          /\ seen.quote = QuoteAForB(Pool1, SwapAmount)
    /\ Left = 3 => Submitted
    /\ Left \in {0, 1, 2} /\ Reported => SwapPaid(anvil.storage.balance)
    /\ Left = 0 /\ Reported => SwapPaid(seen.after)

BackrunCore ==
    /\ \A p \in Pool : Left >= 3 /\ at >= Before(p) + Rows(p) => Believed(p) = PoolReserves(p)
    /\ Left \in {3, 4, 5, 6, 7} => seen.before = anvil.storage.balance
    /\ Left \in {3, 4} => Submitted
    /\ Left \in {0, 1, 2} /\ Reported => BackPaid(anvil.storage.balance)
    /\ Left = 0 /\ Reported => BackPaid(seen.after)

Core ==
    at > 0 /\ ~raised /\ ~interfered
        => /\ Trusted /\ anvil.up => Still(anvil)
           /\ scenario = "victim-swap" => SwapCore
           /\ scenario = "backrun" /\ fit => BackrunCore
-----------------------------------------------------------------------------
(* Where there is something to trade, the scenarios' formula is that of the *)
(* pools.                                                                   *)
LEMMA FormulasAgree ==
  ASSUME NEW x \in Int, NEW reserveIn \in Int, NEW reserveOut \in Int,
         x > 0, reserveIn > 0, reserveOut > 0
  PROVE  SandboxAmountOut(x, reserveIn, reserveOut) = AmountOut(x, reserveIn, reserveOut)
<1>1. ~(x <= 0) /\ ~(reserveIn <= 0) /\ ~(reserveOut <= 0)
  OBVIOUS
<1>2. SandboxAmountOut(x, reserveIn, reserveOut) = (x * 997 * reserveOut) \div (reserveIn * 1000 + x * 997)
  BY <1>1 DEF SandboxAmountOut
<1>3. AmountOut(x, reserveIn, reserveOut) = (x * 997 * reserveOut) \div (reserveIn * 1000 + x * 997)
  BY <1>1 DEF AmountOut, FeeNumerator, FeeDenominator
<1>4. QED BY <1>2, <1>3

(* What the victim's swap does to the storage, if it does not revert. *)
Sold(r, s, x, m) ==
    /\ r \in Loose
    /\ r.balance[TokenB][Victim] = s.balance[TokenB][Victim] + m
    /\ r.balance[TokenB][Backrun] = s.balance[TokenB][Backrun]
    /\ r.reserve[Pool1][TokenA] = s.reserve[Pool1][TokenA] + x
    /\ r.reserve[Pool1][TokenB] = s.reserve[Pool1][TokenB] - m
    /\ \A t \in Token : r.reserve[Pool2][t] = s.reserve[Pool2][t]
    /\ x > 0 /\ s.reserve[Pool1][TokenA] > 0 /\ s.reserve[Pool1][TokenB] > 0
    /\ Priced(x, s.reserve[Pool1][TokenA], s.reserve[Pool1][TokenB])

(* It does. *)
LEMMA SwapPays ==
  ASSUME NEW s \in Loose, NEW x \in Int, NEW min \in Int,
         Swap(s, Victim, Pool1, TokenA, TokenB, x, min).ok
  PROVE  Sold(Swap(s, Victim, Pool1, TokenA, TokenB, x, min), s, x,
              AmountOut(x, s.reserve[Pool1][TokenA], s.reserve[Pool1][TokenB]))
<1> DEFINE r == Swap(s, Victim, Pool1, TokenA, TokenB, x, min)
           m == AmountOut(x, s.reserve[Pool1][TokenA], s.reserve[Pool1][TokenB])
<1>1. /\ Victim \in Account /\ Backrun \in Account /\ Victim # Backrun
      /\ Pool1 \in Pool /\ Pool2 \in Pool /\ Pool1 # Pool2
      /\ Victim # Pool1 /\ Backrun # Pool1
      /\ TokenA \in Token /\ TokenB \in Token /\ TokenA # TokenB
  BY Cast, ContractsAssumption
<1>2. Swapped(r, s, Victim, Pool1, TokenA, TokenB, x, m)
  BY <1>1, SwapFacts
<1>3. r.ok
  OBVIOUS
<1>4. /\ s.reserve[Pool1][TokenA] \in Int /\ s.reserve[Pool1][TokenB] \in Int
  BY <1>1 DEF Loose
<1>5. m \in Int
  BY <1>4, AmountOutIsInt
<1> HIDE DEF r, m
<1>6. /\ r \in Loose /\ x > 0 /\ s.reserve[Pool1][TokenA] > 0 /\ m > 0 /\ m <= s.reserve[Pool1][TokenB]
      /\ Priced(x, s.reserve[Pool1][TokenA], s.reserve[Pool1][TokenB])
  BY <1>2, <1>3 DEF Swapped
<1>7. s.reserve[Pool1][TokenB] > 0
  BY <1>4, <1>5, <1>6
<1>8. /\ r.balance[TokenB][Victim] = s.balance[TokenB][Victim] + m
      /\ r.balance[TokenB][Backrun] = s.balance[TokenB][Backrun]
  BY <1>1, <1>2 DEF Swapped
<1>9. /\ r.reserve[Pool1][TokenA] = s.reserve[Pool1][TokenA] + x
      /\ r.reserve[Pool1][TokenB] = s.reserve[Pool1][TokenB] - m
      /\ \A t \in Token : r.reserve[Pool2][t] = s.reserve[Pool2][t]
  BY <1>1, <1>2 DEF Swapped
<1>10. Sold(r, s, x, m)
  BY <1>6, <1>7, <1>8, <1>9 DEF Sold
<1>11. QED BY <1>10 DEF r, m

(* The victim's swap, being first in a bundle that is included. *)
LEMMA VictimPaid ==
  ASSUME Chain, NEW items \in Seq(Item), Len(items) > 0, items[1] = Reference(seen.id),
         BundleFound(items), Submitted, NEW g, Paying(g, items)
  PROVE  Sold(g[1], g[0], SwapAmount, QuoteAForB(Pool1, SwapAmount)) /\ Alike(g[0], anvil.storage)
<1>1. 1 \in 1..Len(items) /\ DOMAIN items = 1..Len(items)
  OBVIOUS
<1>2. seen.id \in Request /\ seen.id # 0
  BY DeploymentAssumption DEF Submitted
<1>3. items[1] = [id |-> seen.id, tx |-> payload[seen.id]]
  BY <1>2 DEF Reference
<1>4. status[seen.id] = "pending"
  BY <1>1, <1>2, <1>3 DEF BundleFound, Pending
<1>5. PICK min \in Int : payload[seen.id].call = <<"swapAForB", Pool1, SwapAmount, min>>
  BY <1>4 DEF Submitted
<1>6. items[1].tx.from = Victim /\ items[1].tx.call = <<"swapAForB", Pool1, SwapAmount, min>>
  BY <1>3, <1>4, <1>5 DEF Submitted
<1>7. Alike(g[0], anvil.storage) /\ g[0] \in Storage
      /\ g[1] = Apply(g[0], items[1].tx.from, items[1].tx.call) /\ g[1].ok
  <2>1. \A k \in 1..Len(items) : /\ g[k - 1] \in Storage
                                 /\ g[k] = Apply(g[k - 1], items[k].tx.from, items[k].tx.call) /\ g[k].ok
    BY DEF Paying
  <2>2. 1 - 1 = 0
    OBVIOUS
  <2>3. QED BY <1>1, <2>1, <2>2 DEF Paying
<1>8. g[1] = Swap(g[0], Victim, Pool1, TokenA, TokenB, SwapAmount, min)
  BY <1>6, <1>7 DEF Apply
<1>9. g[0] \in Loose /\ SwapAmount \in Int
  BY <1>7, StorageIsLoose, Cast DEF Amount
<1>10. Sold(g[1], g[0], SwapAmount, AmountOut(SwapAmount, g[0].reserve[Pool1][TokenA], g[0].reserve[Pool1][TokenB]))
  BY <1>7, <1>8, <1>9, SwapPays
<1>11. QED BY <1>7, <1>10 DEF Alike, Sold, QuoteAForB

(* The bundle of victim-swap pays the quote, if it is included. *)
LEMMA SwapBundlePays ==
  ASSUME Chain, Still(anvil), Submitted, WellSeen(seen), NEW items, items = <<Reference(seen.id)>>,
         BundleFound(items), BundleReply(items, BundleBlock(items)).status = "included"
  PROVE  BundleBlock(items).storage.balance[TokenB][Victim]
             - anvil.storage.balance[TokenB][Victim] = QuoteAForB(Pool1, SwapAmount)
<1>1. items \in Seq(Item) /\ Len(items) = 1 /\ items[1] = Reference(seen.id)
  <2>1. <<Reference(seen.id)>> \in Seq(Item)
    BY NoTxIsTx, ItemsFit DEF Ready, Chain
  <2>2. QED BY <2>1
<1>2. PICK g : Paying(g, items) /\ BundleBlock(items).storage = g[1]
  BY <1>1, IncludedBundle
<1>3. Sold(g[1], g[0], SwapAmount, QuoteAForB(Pool1, SwapAmount)) /\ Alike(g[0], anvil.storage)
  <2>1. Len(items) > 0 /\ Paying(g, items)
    BY <1>1, <1>2
  <2>2. QED BY <1>1, <2>1, VictimPaid, Zenon
<1>4. g[1].balance[TokenB][Victim] = anvil.storage.balance[TokenB][Victim] + QuoteAForB(Pool1, SwapAmount)
  BY <1>3 DEF Sold, Alike
<1>5. anvil.storage.balance[TokenB][Victim] \in Int /\ QuoteAForB(Pool1, SwapAmount) \in Int
  <2>1. anvil.storage \in Loose
    BY StorageIsLoose DEF Chain, Sound, Node
  <2>2. SwapAmount \in Int
    BY Cast DEF Amount
  <2>3. /\ Victim \in Account /\ Pool1 \in Pool /\ TokenA \in Token /\ TokenB \in Token
    BY Cast
  <2>4. /\ anvil.storage.reserve[Pool1][TokenA] \in Int
        /\ anvil.storage.reserve[Pool1][TokenB] \in Int
        /\ anvil.storage.balance[TokenB][Victim] \in Int
    BY <2>1, <2>3 DEF Loose
  <2>5. Reverted \in Int
    BY DEF Reverted
  <2>6. QED BY <2>2, <2>4, <2>5, AmountOutIsInt DEF QuoteAForB
<1>6. QED BY <1>2, <1>4, <1>5

(* The route, computed from the reserves there are. *)
LEMMA RouteFromReserves ==
  ASSUME Believed(Pool1) = PoolReserves(Pool1), Believed(Pool2) = PoolReserves(Pool2)
  PROVE  LET r == anvil.storage.reserve
         IN  /\ Route.victimB = SandboxAmountOut(SwapAmount, r[Pool1][TokenA], r[Pool1][TokenB])
             /\ Route.outA = SandboxAmountOut(BackrunAmount, r[Pool1][TokenB] - Route.victimB,
                                              r[Pool1][TokenA] + SwapAmount)
             /\ Route.outB = SandboxAmountOut(Route.outA, r[Pool2][TokenA], r[Pool2][TokenB])
             /\ Route.profit = Route.outB - BackrunAmount
<1> DEFINE one     == IF seen.reserves[Pool1] = <<0, 0>> THEN seen.seeded[Pool1] ELSE seen.reserves[Pool1]
           two     == IF seen.reserves[Pool2] = <<0, 0>> THEN seen.seeded[Pool2] ELSE seen.reserves[Pool2]
           victimB == SandboxAmountOut(SwapAmount, one[1], one[2])
           outA    == SandboxAmountOut(BackrunAmount, one[2] - victimB, one[1] + SwapAmount)
           outB    == SandboxAmountOut(outA, two[1], two[2])
<1>1. /\ one[1] = anvil.storage.reserve[Pool1][TokenA] /\ one[2] = anvil.storage.reserve[Pool1][TokenB]
      /\ two[1] = anvil.storage.reserve[Pool2][TokenA] /\ two[2] = anvil.storage.reserve[Pool2][TokenB]
  BY DEF Believed, PoolReserves, Empty
<1>2. Route = [victimB |-> victimB, outA |-> outA, outB |-> outB, profit |-> outB - BackrunAmount]
  BY DEF Route
<1> HIDE DEF one, two
<1>3. /\ Route.victimB = victimB /\ Route.outA = outA /\ Route.outB = outB
      /\ Route.profit = outB - BackrunAmount
  BY <1>2
<1>4. QED BY <1>1, <1>3

(* What the call of the executor does. *)
LEMMA BackrunCalled ==
  ASSUME NEW s, NEW from, NEW buy, NEW sell, NEW x, NEW minA, NEW minB, NEW minProfit,
         NEW call, call = <<"backrun", buy, sell, x, minA, minB, minProfit>>
  PROVE  Apply(s, from, call) = ExecuteBackrun(s, buy, sell, x, minA, minB, minProfit)
  BY DEF Apply

(* The bundle of backrun pays the route, if it is included. *)
LEMMA BackBundlePays ==
  ASSUME Chain, Still(anvil), Submitted, WellSeen(seen),
         Believed(Pool1) = PoolReserves(Pool1), Believed(Pool2) = PoolReserves(Pool2),
         seen.before = anvil.storage.balance,
         NEW items, items = <<Reference(seen.id), Direct(BackrunPayload)>>,
         BundleFound(items), BundleReply(items, BundleBlock(items)).status = "included"
  PROVE  BackPaid(BundleBlock(items).storage.balance)
<1> DEFINE minA == Worst(Route.outA)
           minB == Worst(Route.outB)
           r    == anvil.storage.reserve
           b    == anvil.storage.balance
<1>1. /\ Pool1 \in Pool /\ Pool2 \in Pool /\ Pool1 # Pool2 /\ TokenA \in Token /\ TokenB \in Token
      /\ Victim \in User /\ Victim \in Account /\ Backrun \in Account /\ Bot \in User
      /\ SwapAmount \in Int /\ BackrunAmount \in Int /\ MinProfit \in Int
  BY Cast DEF Amount
<1>2. /\ Route.victimB \in Int /\ Route.outA \in Int /\ Route.outB \in Int /\ Route.profit \in Int
      /\ minA \in Int /\ minB \in Int
  BY RouteIsInts DEF Worst
<1> HIDE DEF minA, minB
<1>3. /\ BackrunPayload.call = <<"backrun", Pool1, Pool2, BackrunAmount, minA, minB, MinProfit>>
      /\ BackrunPayload \in Tx
  <2>1. <<"backrun", Pool1, Pool2, BackrunAmount, minA, minB, MinProfit>> \in Call
    BY <1>1, <1>2, Cast DEF Call, Amount
  <2>2. BackrunPayload = TransactionPayload(Bot, <<"backrun", Pool1, Pool2, BackrunAmount, minA, minB, MinProfit>>)
    BY DEF BackrunPayload, minA, minB
  <2>3. BackrunPayload \in Tx
    BY <1>1, <2>1, <2>2, PayloadFits
  <2>4. QED BY <2>2, <2>3 DEF TransactionPayload
<1>4. items \in Seq(Item) /\ Len(items) = 2 /\ items[1] = Reference(seen.id)
      /\ items[2].tx = BackrunPayload
  <2>1. <<Reference(seen.id), Direct(BackrunPayload)>> \in Seq(Item)
    BY <1>3, ItemsFit DEF Ready, Chain
  <2>2. items[2] = Direct(BackrunPayload)
    OBVIOUS
  <2>3. items[2].tx = BackrunPayload
    BY <2>2 DEF Direct
  <2>4. QED BY <2>1, <2>3
<1>5. PICK g : Paying(g, items) /\ BundleBlock(items).storage = g[2]
  BY <1>4, IncludedBundle
<1>6. Sold(g[1], g[0], SwapAmount, QuoteAForB(Pool1, SwapAmount)) /\ Alike(g[0], anvil.storage)
  <2>1. Len(items) > 0 /\ Paying(g, items)
    BY <1>4, <1>5
  <2>2. QED BY <1>4, <2>1, VictimPaid, Zenon
<1>7. g[1] \in Storage /\ g[1] \in Loose /\ g[2].ok
      /\ g[2] = ExecuteBackrun(g[1], Pool1, Pool2, BackrunAmount, minA, minB, MinProfit)
  <2>1. 2 \in 1..Len(items) /\ 2 - 1 = 1
    BY <1>4
  <2>2. g[1] \in Storage /\ g[2] = Apply(g[1], items[2].tx.from, items[2].tx.call) /\ g[2].ok
    BY <1>5, <2>1 DEF Paying
  <2>3. items[2].tx.call = <<"backrun", Pool1, Pool2, BackrunAmount, minA, minB, MinProfit>>
    BY <1>3, <1>4
  <2>4. Apply(g[1], items[2].tx.from, items[2].tx.call)
           = ExecuteBackrun(g[1], Pool1, Pool2, BackrunAmount, minA, minB, MinProfit)
    <3>1. \A c : c = <<"backrun", Pool1, Pool2, BackrunAmount, minA, minB, MinProfit>>
             => Apply(g[1], items[2].tx.from, c)
                   = ExecuteBackrun(g[1], Pool1, Pool2, BackrunAmount, minA, minB, MinProfit)
      BY BackrunCalled
    <3>2. QED BY <2>3, <3>1
  <2>5. QED BY <2>2, <2>4, StorageIsLoose
<1>8. Profited(g[2], g[1], Pool1, Pool2, BackrunAmount)
  BY <1>1, <1>2, <1>7, BackrunPays
<1> DEFINE q    == g[1].reserve
           outA == AmountOut(BackrunAmount, q[Pool1][TokenB], q[Pool1][TokenA])
           outB == AmountOut(outA, q[Pool2][TokenA], q[Pool2][TokenB])
<1>9. /\ g[2].balance[TokenB][Backrun] = (g[1].balance[TokenB][Backrun] - BackrunAmount) + outB
      /\ g[2].balance[TokenB][Victim] = g[1].balance[TokenB][Victim]
      /\ BackrunAmount > 0 /\ outA > 0
      /\ q[Pool1][TokenA] > 0 /\ q[Pool1][TokenB] > 0 /\ q[Pool2][TokenA] > 0 /\ q[Pool2][TokenB] > 0
  BY <1>1, <1>8 DEF Profited
<1>10. /\ anvil.storage \in Loose
       /\ \A p \in Pool, t \in Token : r[p][t] \in Int /\ q[p][t] \in Int
       /\ \A t \in Token, a \in Account : b[t][a] \in Int
  <2>1. anvil.storage \in Loose
    BY StorageIsLoose DEF Chain, Sound, Node
  <2>2. QED BY <1>7, <2>1 DEF Loose
<1>11. outA \in Int /\ outB \in Int
  <2>1. outA \in Int
    BY <1>1, <1>10, AmountOutIsInt
  <2> HIDE DEF outA, q, r
  <2>2. QED BY <1>1, <1>10, <2>1, AmountOutIsInt
<1>12. /\ SwapAmount > 0 /\ r[Pool1][TokenA] > 0 /\ r[Pool1][TokenB] > 0
       /\ q[Pool1][TokenA] = r[Pool1][TokenA] + SwapAmount
       /\ q[Pool1][TokenB] = r[Pool1][TokenB] - QuoteAForB(Pool1, SwapAmount)
       /\ q[Pool2][TokenA] = r[Pool2][TokenA] /\ q[Pool2][TokenB] = r[Pool2][TokenB]
       /\ g[1].balance[TokenB][Victim] = b[TokenB][Victim] + QuoteAForB(Pool1, SwapAmount)
       /\ g[1].balance[TokenB][Backrun] = b[TokenB][Backrun]
       /\ Priced(SwapAmount, r[Pool1][TokenA], r[Pool1][TokenB])
  BY <1>1, <1>6 DEF Sold, Alike
<1>13. QuoteAForB(Pool1, SwapAmount) = AmountOut(SwapAmount, r[Pool1][TokenA], r[Pool1][TokenB])
  BY <1>12 DEF QuoteAForB
<1> HIDE DEF outA, outB, q, r, b
<1>14. Route.victimB = QuoteAForB(Pool1, SwapAmount)
  <2>1. Route.victimB = SandboxAmountOut(SwapAmount, r[Pool1][TokenA], r[Pool1][TokenB])
    BY RouteFromReserves DEF r
  <2>2. QED BY <1>1, <1>10, <1>12, <1>13, <2>1, FormulasAgree
<1>15. Route.outA = outA
  <2>1. Route.outA = SandboxAmountOut(BackrunAmount, r[Pool1][TokenB] - Route.victimB, r[Pool1][TokenA] + SwapAmount)
    BY RouteFromReserves DEF r
  <2>2. Route.outA = SandboxAmountOut(BackrunAmount, q[Pool1][TokenB], q[Pool1][TokenA])
    BY <1>12, <1>14, <2>1
  <2>3. QED BY <1>1, <1>9, <1>10, <2>2, FormulasAgree DEF outA
<1>16. Route.outB = outB
  <2>1. Route.outB = SandboxAmountOut(Route.outA, r[Pool2][TokenA], r[Pool2][TokenB])
    BY RouteFromReserves DEF r
  <2>2. Route.outB = SandboxAmountOut(outA, q[Pool2][TokenA], q[Pool2][TokenB])
    BY <1>12, <1>15, <2>1
  <2>3. QED BY <1>1, <1>9, <1>10, <1>11, <2>2, FormulasAgree DEF outB
<1>17. Route.profit = outB - BackrunAmount
  BY <1>16, RouteFromReserves
<1>18. b[TokenB][Victim] \in Int /\ b[TokenB][Backrun] \in Int
  BY <1>1, <1>10
<1>19. g[2].balance[TokenB][Victim] - b[TokenB][Victim] = Route.victimB
  BY <1>2, <1>9, <1>12, <1>14, <1>18
<1>20. g[2].balance[TokenB][Backrun] - b[TokenB][Backrun] = Route.profit
  BY <1>1, <1>9, <1>11, <1>12, <1>17, <1>18
<1>21. QED BY <1>5, <1>19, <1>20 DEF BackPaid, Earned, b
-----------------------------------------------------------------------------
(***************************************************************************)
(* Which statement stands where.                                            *)
(***************************************************************************)

(* m has n statements; it begins with k statements of b; n statements of b  *)
(* stand in it, after the first o.                                          *)
Listing(m, n)      == n \in Nat /\ Len(m) = n /\ \E S : m \in Seq(S)
Begins(m, b, k)    == \A i \in 1..k : m[i] = b[i]
Stands(m, o, b, n) == \A i \in 1..n : m[o + i] = b[i]

(* What is remembered of a pool's reserves stays, and, of a quiet           *)
(* statement, they stay themselves.                                         *)
Keeps(x, p) == x.op = "read" /\ "reserves" \in DOMAIN x.arg => x.arg.reserves[p] = seen.reserves[p]
Quiet(x, p) ==
    /\ x.op \notin {"ensure deployment", "bundle", "simulate"}
    /\ x.op = "read" /\ "seeded" \in DOMAIN x.arg => x.arg.seeded[p] = seen.seeded[p]
    /\ x.op = "cast send" => "chain" \in x.needs /\ Mild(x.arg.call, p)
Kind(x, kind, p)      == Keeps(x, p) /\ (kind = "quiet" => Quiet(x, p))
AllOf(m, n, kind, p) == Listing(m, n) /\ \A k \in 1..n : Kind(m[k], kind, p)

(* Programs put together. *)
LEMMA ListingsJoin ==
  ASSUME NEW m, NEW b, NEW k, NEW n, Listing(m, k), Listing(b, n)
  PROVE  /\ Listing(m \o b, k + n) /\ k \in Nat /\ n \in Nat
         /\ Begins(m \o b, m, k) /\ Stands(m \o b, k, b, n)
<1>1. PICK S : m \in Seq(S)
  BY DEF Listing
<1>2. PICK T : b \in Seq(T)
  BY DEF Listing
<1> DEFINE U == S \cup T
<1>3. m \in Seq(U) /\ b \in Seq(U) /\ Len(m) = k /\ Len(b) = n /\ k \in Nat /\ n \in Nat
  BY <1>1, <1>2 DEF Listing
<1> HIDE DEF U
<1>4. /\ m \o b \in Seq(U) /\ Len(m \o b) = k + n
      /\ \A i \in 1..k : (m \o b)[i] = m[i]
      /\ \A i \in 1..n : (m \o b)[k + i] = b[i]
  BY <1>3
<1>5. QED BY <1>3, <1>4 DEF Listing, Begins, Stands

(* What stood in the first one still does. *)
LEMMA StandsOn ==
  ASSUME NEW m, NEW b, NEW k, NEW n, Listing(m, k), Listing(b, n),
         NEW o \in Nat, NEW c, NEW l \in Nat, Stands(m, o, c, l), o + l <= k
  PROVE  Stands(m \o b, o, c, l)
<1>1. Begins(m \o b, m, k) /\ k \in Nat
  BY ListingsJoin
<1>2. ASSUME NEW i \in 1..l
      PROVE  (m \o b)[o + i] = c[i]
  <2>1. o + i \in 1..k
    BY <1>1, <1>2
  <2>2. m[o + i] = c[i]
    BY <1>2 DEF Stands
  <2>3. QED BY <1>1, <2>1, <2>2 DEF Begins
<1>3. QED BY <1>2 DEF Stands

(* The kinds of two programs put together. *)
LEMMA KindsJoin ==
  ASSUME NEW m, NEW b, NEW k, NEW n, NEW kind, NEW p, AllOf(m, k, kind, p), AllOf(b, n, kind, p)
  PROVE  AllOf(m \o b, k + n, kind, p)
<1>1. /\ Listing(m \o b, k + n) /\ k \in Nat /\ n \in Nat
      /\ Begins(m \o b, m, k) /\ Stands(m \o b, k, b, n)
  BY ListingsJoin DEF AllOf
<1>2. ASSUME NEW i \in 1..k + n
      PROVE  Kind((m \o b)[i], kind, p)
  <2>1. CASE i \in 1..k
    BY <1>1, <2>1 DEF AllOf, Begins
  <2>2. CASE i \notin 1..k
    <3>1. PICK j \in 1..n : i = k + j
      <4>1. i - k \in 1..n /\ i = k + (i - k)
        BY <1>1, <2>2
      <4>2. QED BY <4>1
    <3>2. QED BY <1>1, <3>1 DEF AllOf, Stands
  <2>3. QED BY <2>1, <2>2
<1>3. QED BY <1>1, <1>2 DEF AllOf

(* Short programs. *)
LEMMA ShortListings ==
  ASSUME NEW a, NEW b
  PROVE  /\ Listing(<<a>>, 1) /\ <<a>>[1] = a
         /\ Listing(<<a, b>>, 2) /\ <<a, b>>[1] = a /\ <<a, b>>[2] = b
<1>1. <<a>> \in Seq({a}) /\ Len(<<a>>) = 1
  OBVIOUS
<1>2. <<a, b>> \in Seq({a, b}) /\ Len(<<a, b>>) = 2
  OBVIOUS
<1>3. QED BY <1>1, <1>2 DEF Listing

(* The kinds of short programs. *)
LEMMA ShortKinds ==
  ASSUME NEW a, NEW b, NEW kind, NEW p, Kind(a, kind, p)
  PROVE  /\ AllOf(<<a>>, 1, kind, p)
         /\ Kind(b, kind, p) => AllOf(<<a, b>>, 2, kind, p)
<1>1. \A k \in 1..1 : k = 1
  OBVIOUS
<1>2. \A k \in 1..2 : k = 1 \/ k = 2
  OBVIOUS
<1>3. QED BY <1>1, <1>2, ShortListings DEF AllOf

(* The kinds of the statements. *)
LEMMA StatementKinds ==
  ASSUME NEW needs, NEW arg, NEW kind, NEW p
  PROVE  /\ Kind(StartBlockBuilder, kind, p) /\ Kind(SetAutomine(arg), kind, p)
         /\ Kind(SubmitPublic(arg), kind, p) /\ Kind(Check(arg), kind, p)
         /\ DOMAIN arg \cap {"reserves", "seeded"} = {} => Kind(Read(needs, arg), kind, p)
         /\ Kind(EnsureDeployment, "any", p) /\ Kind(MineBundle(arg), "any", p)
<1> USE DEF Kind, Keeps, Quiet, Statement
<1>1. Kind(StartBlockBuilder, kind, p)
  BY DEF StartBlockBuilder
<1>2. Kind(SetAutomine(arg), kind, p)
  BY DEF SetAutomine
<1>3. Kind(SubmitPublic(arg), kind, p)
  BY DEF SubmitPublic
<1>4. Kind(Check(arg), kind, p)
  BY DEF Check
<1>5. DOMAIN arg \cap {"reserves", "seeded"} = {} => Kind(Read(needs, arg), kind, p)
  BY DEF Read
<1>6. Kind(EnsureDeployment, "any", p)
  BY DEF EnsureDeployment
<1>7. Kind(MineBundle(arg), "any", p)
  BY DEF MineBundle
<1>8. QED BY <1>1, <1>2, <1>3, <1>4, <1>5, <1>6, <1>7

(* The kinds of cast send. *)
LEMMA SendKinds ==
  ASSUME NEW from, NEW call, NEW kind, NEW p, kind = "quiet" => Mild(call, p)
  PROVE  AllOf(<<SendContractTransaction(from, call)>>, 1, kind, p)
<1> DEFINE tx == [from |-> from, nonce |-> anvil.nonce[from], call |-> call]
           x  == SendContractTransaction(from, call)
<1>1. x = [op |-> "cast send", needs |-> {"chain"}, arg |-> tx, try |-> FALSE]
  BY DEF SendContractTransaction, Statement
<1>2. tx.call = call
  OBVIOUS
<1> HIDE DEF tx, x
<1>3. x.op = "cast send" /\ x.needs = {"chain"} /\ x.arg.call = call
  BY <1>1, <1>2
<1>4. Kind(x, kind, p)
  BY <1>3 DEF Kind, Keeps, Quiet
<1>5. QED BY <1>4, ShortKinds DEF x

(* mint_and_approve and mint_token are quiet. *)
LEMMA MintKinds ==
  ASSUME NEW owner \in Account, NEW t \in Token, NEW spender \in Account, NEW x \in Uint,
         NEW kind, NEW p
  PROVE  /\ AllOf(MintToken(t, owner, x), 1, kind, p)
         /\ AllOf(MintAndApprove(owner, t, spender, x), 2, kind, p)
<1>1. Mild(<<"mint", t, owner, x>>, p) /\ Mild(<<"approve", t, spender, x>>, p)
  BY DEF Mild
<1>2. AllOf(MintToken(t, owner, x), 1, kind, p)
  BY <1>1, SendKinds DEF MintToken
<1>3. AllOf(<<SendContractTransaction(owner, <<"approve", t, spender, x>>)>>, 1, kind, p)
  BY <1>1, SendKinds
<1>4. AllOf(MintAndApprove(owner, t, spender, x), 1 + 1, kind, p)
  BY <1>2, <1>3, KindsJoin DEF MintAndApprove
<1>5. QED BY <1>2, <1>4

(* add_pool_liquidity is quiet for the other pool. *)
LEMMA AddLiquidityKinds ==
  ASSUME NEW q \in Pool, NEW x \in Uint, NEW kind, NEW p, kind = "quiet" => p # q
  PROVE  AllOf(AddPoolLiquidity(q, x), 5, kind, p)
<1>1. AllOf(MintAndApprove(Deployer, TokenA, q, x), 2, kind, p)
      /\ AllOf(MintAndApprove(Deployer, TokenB, q, x), 2, kind, p)
  BY MintKinds, Cast DEF Account
<1>2. kind = "quiet" => Mild(<<"seed", q, x>>, p)
  BY DEF Mild
<1>3. AllOf(<<SendContractTransaction(Deployer, <<"seed", q, x>>)>>, 1, kind, p)
  BY <1>2, SendKinds
<1>4. AllOf(MintAndApprove(Deployer, TokenA, q, x) \o MintAndApprove(Deployer, TokenB, q, x), 2 + 2, kind, p)
  BY <1>1, KindsJoin
<1>5. AllOf(AddPoolLiquidity(q, x), 2 + 2 + 1, kind, p)
  BY <1>3, <1>4, KindsJoin DEF AddPoolLiquidity
<1>6. QED BY <1>5

(* So is the block around calls that are. *)
LEMMA ManagedKinds ==
  ASSUME NEW m, NEW n, NEW kind, NEW p, Body(m, n), AllOf(m, n, kind, p)
  PROVE  AllOf(Managed(m), n + 2, kind, p)
<1> DEFINE inner == [k \in DOMAIN m |-> [m[k] EXCEPT !.try = TRUE]]
           on    == SetAutomine(TRUE)
           off   == SetAutomine(FALSE)
<1>1. PICK S : m \in Seq(S)
  BY DEF Body
<1>2. n \in Nat /\ Len(m) = n /\ DOMAIN m = 1..n
  BY <1>1 DEF Body
<1>3. ASSUME NEW k \in 1..n
      PROVE  Kind(inner[k], kind, p)
  <2> DEFINE x == m[k]
             T == [op : {"cast send"}, needs : {x.needs}, arg : {x.arg}, try : {x.try, TRUE}]
             y == [x EXCEPT !.try = TRUE]
  <2>1. Sending(x) /\ Kind(x, kind, p)
    BY <1>3 DEF Body, AllOf
  <2>2. x \in T
    <3> DEFINE z == [op |-> "cast send", needs |-> x.needs, arg |-> x.arg, try |-> x.try]
    <3>1. x = z
      BY <2>1 DEF Sending
    <3>2. z \in T
      OBVIOUS
    <3> HIDE DEF z, T
    <3>3. QED BY <3>1, <3>2
  <2>3. y.op = x.op /\ y.arg = x.arg /\ y.needs = x.needs
    BY <2>2
  <2>4. inner[k] = y
    BY <1>2, <1>3
  <2> HIDE DEF x, y
  <2>5. Kind(y, kind, p)
    BY <2>1, <2>3 DEF Kind, Keeps, Quiet
  <2>6. QED BY <2>4, <2>5
<1>4. \E T : inner \in Seq(T)
  <2> DEFINE T == {inner[k] : k \in 1..n}
  <2>1. inner \in [1..n -> T]
    BY <1>2
  <2>2. inner \in Seq(T)
    BY <1>2, <2>1
  <2>3. QED BY <2>2
<1>5. Len(inner) = n
  BY <1>2
<1>6. Managed(m) = <<on>> \o inner \o <<off>>
  BY DEF Managed
<1>7. Kind(on, kind, p) /\ Kind(off, kind, p)
  BY StatementKinds
<1> HIDE DEF inner, on, off
<1>8. AllOf(inner, n, kind, p)
  BY <1>2, <1>3, <1>4, <1>5 DEF AllOf, Listing
<1>9. AllOf(<<on>>, 1, kind, p) /\ AllOf(<<off>>, 1, kind, p)
  BY <1>7, ShortKinds
<1>10. AllOf(<<on>> \o inner, 1 + n, kind, p)
  BY <1>8, <1>9, KindsJoin
<1>11. AllOf(Managed(m), (1 + n) + 1, kind, p)
  BY <1>6, <1>9, <1>10, KindsJoin
<1>12. (1 + n) + 1 = n + 2
  BY <1>2
<1>13. QED BY <1>11, <1>12

(* The readings of the reserves of one pool, and the other one. *)
LEMMA ReservesKinds ==
  ASSUME NEW p \in Pool, NEW q \in Pool, NEW kind
  PROVE  /\ p # q => Kind(ReadReserves({p}), kind, q) /\ Kind(ReadReservesAgain({p}), kind, q)
         /\ Kind(ReadReservesAgain({p}), "any", p)
         /\ ReadReserves({p}).op = "read" /\ "chain" \in ReadReserves({p}).needs
         /\ DOMAIN ReadReserves({p}).arg = {"reserves"}
         /\ ReadReserves({p}).arg.reserves[p] = PoolReserves(p)
         /\ ReadReservesAgain({p}).op = "read" /\ "chain" \in ReadReservesAgain({p}).needs
         /\ DOMAIN ReadReservesAgain({p}).arg = {"seeded"}
         /\ ReadReservesAgain({p}).arg.seeded[p] = PoolReserves(p)
<1> DEFINE a == [o \in Pool |-> IF o \in {p} THEN PoolReserves(o) ELSE seen.reserves[o]]
           b == [o \in Pool |-> IF o \in {p} THEN PoolReserves(o) ELSE seen.seeded[o]]
<1>1. /\ a[p] = PoolReserves(p) /\ b[p] = PoolReserves(p)
      /\ p # q => a[q] = seen.reserves[q] /\ b[q] = seen.seeded[q]
  OBVIOUS
<1>2. /\ ReadReserves({p}) = [op |-> "read", needs |-> {"chain"}, arg |-> [reserves |-> a], try |-> FALSE]
      /\ ReadReservesAgain({p}) = [op |-> "read", needs |-> {"chain"}, arg |-> [seeded |-> b], try |-> FALSE]
  BY DEF ReadReserves, ReadReservesAgain, Read, Statement
<1> HIDE DEF a, b
<1>3. /\ ReadReserves({p}).op = "read" /\ "chain" \in ReadReserves({p}).needs
      /\ DOMAIN ReadReserves({p}).arg = {"reserves"} /\ ReadReserves({p}).arg.reserves = a
  BY <1>2
<1>4. /\ ReadReservesAgain({p}).op = "read" /\ "chain" \in ReadReservesAgain({p}).needs
      /\ DOMAIN ReadReservesAgain({p}).arg = {"seeded"} /\ ReadReservesAgain({p}).arg.seeded = b
  BY <1>2
<1>5. p # q => Kind(ReadReserves({p}), kind, q)
  BY <1>1, <1>3 DEF Kind, Keeps, Quiet
<1>6. p # q => Kind(ReadReservesAgain({p}), kind, q)
  BY <1>1, <1>4 DEF Kind, Keeps, Quiet
<1>7. Kind(ReadReservesAgain({p}), "any", p)
  BY <1>4 DEF Kind, Keeps
<1>8. QED BY <1>1, <1>3, <1>4, <1>5, <1>6, <1>7

(* ensure_exact_pool_liquidity brings one pool to its liquidity and leaves  *)
(* the other one alone.                                                     *)
LEMMA ExactRows ==
  ASSUME Ready, NEW p \in Pool, NEW q \in Pool, p # q,
         NEW e, e = EnsureExactPoolLiquidity(p, ExactSeedAmount)
  PROVE  /\ AllOf(e, Rows(p), "quiet", q)
         /\ \A k \in 2..Rows(p) : Kind(e[k], "any", p)
         /\ Kind(e[Rows(p)], "quiet", p)
         /\ e[1] = ReadReserves({p})
         /\ Empty(p) => e[9] = ReadReservesAgain({p})
<1> DEFINE first == <<ReadReserves({p})>>
           fill  == Managed(AddPoolLiquidity(p, ExactSeedAmount))
           check == Check(seen.seeded[p] = <<ExactSeedAmount, ExactSeedAmount>>)
           same  == Check(seen.reserves[p] = <<ExactSeedAmount, ExactSeedAmount>>)
           again == <<ReadReservesAgain({p}), check>>
<1>1. ExactSeedAmount \in Uint
  BY Cast DEF Amount
<1>2. e = first \o IF Empty(p) THEN fill \o again ELSE <<same>>
  BY DEF EnsureExactPoolLiquidity, Empty
<1>3. AllOf(first, 1, "quiet", q) /\ Listing(first, 1) /\ first[1] = ReadReserves({p})
  BY ReservesKinds, ShortKinds, ShortListings
<1>4. Kind(check, "quiet", q) /\ Kind(same, "quiet", q) /\ Kind(check, "any", p) /\ Kind(same, "any", p)
      /\ Kind(check, "quiet", p) /\ Kind(same, "quiet", p)
  BY StatementKinds
<1>5. AllOf(fill, 5 + 2, "quiet", q) /\ AllOf(fill, 5 + 2, "any", p)
  <2>1. Body(AddPoolLiquidity(p, ExactSeedAmount), 5)
    BY <1>1, AddLiquidityFits
  <2>2. AllOf(AddPoolLiquidity(p, ExactSeedAmount), 5, "quiet", q)
        /\ AllOf(AddPoolLiquidity(p, ExactSeedAmount), 5, "any", p)
    BY <1>1, AddLiquidityKinds
  <2>3. QED BY <2>1, <2>2, ManagedKinds
<1> HIDE DEF check, same, fill
<1>6. /\ AllOf(again, 2, "quiet", q) /\ AllOf(again, 2, "any", p)
      /\ again[1] = ReadReservesAgain({p}) /\ again[2] = check
  BY <1>4, ReservesKinds, ShortKinds, ShortListings
<1>7. AllOf(<<same>>, 1, "quiet", q) /\ Listing(<<same>>, 1) /\ <<same>>[1] = same
  BY <1>4, ShortKinds, ShortListings
<1> HIDE DEF first, again
<1>8. CASE ~Empty(p)
  <2>1. e = first \o <<same>> /\ Rows(p) = 2
    BY <1>2, <1>8 DEF Rows
  <2>2. AllOf(e, 1 + 1, "quiet", q)
    BY <1>3, <1>7, <2>1, KindsJoin
  <2>3. Begins(e, first, 1) /\ Stands(e, 1, <<same>>, 1)
    BY <1>3, <1>7, <2>1, ListingsJoin
  <2>4. e[1] = ReadReserves({p}) /\ e[2] = same
    <3>1. 1 \in 1..1 /\ 1 + 1 = 2
      OBVIOUS
    <3>2. e[1] = first[1] /\ e[1 + 1] = <<same>>[1]
      BY <2>3, <3>1 DEF Begins, Stands
    <3>3. QED BY <1>3, <1>7, <3>1, <3>2
  <2>5. \A k \in 2..2 : k = 2
    OBVIOUS
  <2>6. \A k \in 2..2 : Kind(e[k], "any", p)
    BY <1>4, <2>4, <2>5
  <2>7. AllOf(e, 2, "quiet", q) /\ Kind(e[2], "quiet", p)
    <3>1. 1 + 1 = 2
      OBVIOUS
    <3>2. QED BY <1>4, <2>2, <2>4, <3>1
  <2>8. QED BY <1>8, <2>1, <2>4, <2>6, <2>7
<1>9. CASE Empty(p)
  <2> DEFINE rest == fill \o again
  <2>1. e = first \o rest /\ Rows(p) = 10
    BY <1>2, <1>9 DEF Rows
  <2>2. Listing(fill, 7) /\ Listing(again, 2)
    <3>1. 5 + 2 = 7
      OBVIOUS
    <3>2. QED BY <1>5, <1>6, <3>1 DEF AllOf
  <2>3. Listing(rest, 9) /\ Stands(rest, 7, again, 2)
    <3>1. 7 + 2 = 9
      OBVIOUS
    <3>2. Listing(rest, 7 + 2) /\ Stands(rest, 7, again, 2)
      BY <2>2, ListingsJoin
    <3>3. QED BY <3>1, <3>2
  <2>4. AllOf(rest, 9, "quiet", q) /\ AllOf(rest, 9, "any", p)
    <3>1. AllOf(rest, (5 + 2) + 2, "quiet", q) /\ AllOf(rest, (5 + 2) + 2, "any", p)
      BY <1>5, <1>6, KindsJoin
    <3>2. (5 + 2) + 2 = 9
      OBVIOUS
    <3>3. QED BY <3>1, <3>2
  <2> HIDE DEF rest
  <2>5. AllOf(e, 10, "quiet", q)
    <3>1. AllOf(e, 1 + 9, "quiet", q)
      BY <1>3, <2>1, <2>4, KindsJoin
    <3>2. 1 + 9 = 10
      OBVIOUS
    <3>3. QED BY <3>1, <3>2
  <2>6. Begins(e, first, 1) /\ Stands(e, 1, rest, 9)
    BY <1>3, <2>1, <2>3, ListingsJoin
  <2>7. e[1] = ReadReserves({p})
    <3>1. 1 \in 1..1
      OBVIOUS
    <3>2. QED BY <1>3, <2>6, <3>1 DEF Begins
  <2>8. \A k \in 2..10 : Kind(e[k], "any", p)
    <3>1. ASSUME NEW k \in 2..10
          PROVE  Kind(e[k], "any", p)
      <4>1. PICK j \in 1..9 : k = 1 + j
        <5>1. k - 1 \in 1..9 /\ k = 1 + (k - 1)
          OBVIOUS
        <5>2. QED BY <5>1
      <4>2. QED BY <2>4, <2>6, <4>1 DEF Stands, AllOf
    <3>2. QED BY <3>1
  <2>9. e[9] = again[1] /\ e[10] = again[2]
    <3>1. 8 \in 1..9 /\ 9 \in 1..9 /\ 1 \in 1..2 /\ 2 \in 1..2
          /\ 1 + 8 = 9 /\ 1 + 9 = 10 /\ 7 + 1 = 8 /\ 7 + 2 = 9
      OBVIOUS
    <3>2. e[1 + 8] = rest[8] /\ e[1 + 9] = rest[9] /\ rest[7 + 1] = again[1] /\ rest[7 + 2] = again[2]
      BY <2>3, <2>6, <3>1 DEF Stands
    <3>3. QED BY <3>1, <3>2
  <2>10. QED BY <1>4, <1>6, <2>1, <2>5, <2>7, <2>8, <2>9
<1>10. QED BY <1>8, <1>9

(* The last statements of backrun. *)
BackrunDone ==
    /\ seen.reply.status = "included"
    /\ seen.reply.txs[1] = "included" /\ seen.reply.txs[Len(BackrunBundle)] = "included"
    /\ seen.record = "included"
    /\ Gained(TokenA, Victim) = -SwapAmount
    /\ Gained(TokenB, Victim) >= Worst(Route.victimB)
    /\ seen.after[TokenA][Backrun] = 0
    /\ Gained(TokenB, Backrun) >= MinProfit
VictimPayload(min) == TransactionPayload(Victim, <<"swapAForB", Pool1, SwapAmount, min>>)
BackrunEnd ==
    <<Read({"chain"}, BeforeReadings),
      Check(seen.before[TokenB][Backrun] = BackrunAmount), Check(Route.profit >= MinProfit),
      SubmitPublic(VictimPayload(Worst(Route.victimB))),
      Read({"chain"}, NonceReadings), MineBundle(BackrunBundle),
      Read({"builder"}, RecordReadings), Read({"chain"}, AfterReadings), Check(BackrunDone)>>

(* They are nine, and the first five of them are quiet. *)
LEMMA BackrunEndKinds ==
  ASSUME NEW p
  PROVE  /\ Listing(BackrunEnd, 9)
         /\ \A k \in 1..9 : Kind(BackrunEnd[k], "any", p)
         /\ \A k \in 1..5 : Kind(BackrunEnd[k], "quiet", p)
<1> DEFINE a == Read({"chain"}, BeforeReadings)
           b == Check(seen.before[TokenB][Backrun] = BackrunAmount)
           c == Check(Route.profit >= MinProfit)
           d == SubmitPublic(VictimPayload(Worst(Route.victimB)))
           e == Read({"chain"}, NonceReadings)
           f == MineBundle(BackrunBundle)
           g == Read({"builder"}, RecordReadings)
           h == Read({"chain"}, AfterReadings)
           i == Check(BackrunDone)
<1>1. /\ DOMAIN BeforeReadings \cap {"reserves", "seeded"} = {}
      /\ DOMAIN NonceReadings \cap {"reserves", "seeded"} = {}
      /\ DOMAIN RecordReadings \cap {"reserves", "seeded"} = {}
      /\ DOMAIN AfterReadings \cap {"reserves", "seeded"} = {}
  BY DEF BeforeReadings, NonceReadings, RecordReadings, AfterReadings
<1>2. \A kind \in {"any", "quiet"} :
         /\ Kind(a, kind, p) /\ Kind(b, kind, p) /\ Kind(c, kind, p) /\ Kind(d, kind, p) /\ Kind(e, kind, p)
         /\ Kind(g, kind, p) /\ Kind(h, kind, p) /\ Kind(i, kind, p)
  BY <1>1, StatementKinds
<1>3. Kind(f, "any", p)
  BY StatementKinds
<1>4. BackrunEnd = <<a, b, c, d, e, f, g, h, i>>
  BY DEF BackrunEnd
<1> HIDE DEF a, b, c, d, e, f, g, h, i
<1>5. /\ BackrunEnd \in Seq({a, b, c, d, e, f, g, h, i}) /\ Len(BackrunEnd) = 9
      /\ BackrunEnd[1] = a /\ BackrunEnd[2] = b /\ BackrunEnd[3] = c /\ BackrunEnd[4] = d
      /\ BackrunEnd[5] = e /\ BackrunEnd[6] = f /\ BackrunEnd[7] = g /\ BackrunEnd[8] = h
      /\ BackrunEnd[9] = i
  BY <1>4
<1>6. \A k \in 1..9 : k = 1 \/ k = 2 \/ k = 3 \/ k = 4 \/ k = 5 \/ k = 6 \/ k = 7 \/ k = 8 \/ k = 9
  OBVIOUS
<1>7. \A k \in 1..5 : k = 1 \/ k = 2 \/ k = 3 \/ k = 4 \/ k = 5
  OBVIOUS
<1>8. \A k \in 1..9 : Kind(BackrunEnd[k], "any", p)
  BY <1>2, <1>3, <1>5, <1>6
<1>9. \A k \in 1..5 : Kind(BackrunEnd[k], "quiet", p)
  BY <1>2, <1>5, <1>7
<1>10. Listing(BackrunEnd, 9)
  BY <1>5 DEF Listing
<1>11. QED BY <1>8, <1>9, <1>10

(* What stands where in backrun: how a pool is looked at, and that it is    *)
(* left alone from there to the bundle.                                     *)
LEMMA BackrunRows ==
  ASSUME Ready, NEW m, m = BackrunScenario, NEW n, n = Rows(Pool1) + Rows(Pool2) + 20
  PROVE  /\ Listing(m, n) /\ Stands(m, n - 9, BackrunEnd, 9)
         /\ \A p \in Pool : m[Before(p) + 1] = ReadReserves({p})
         /\ \A p \in Pool : Empty(p) => m[Before(p) + 9] = ReadReservesAgain({p})
         /\ \A p \in Pool, k \in 1..n : k # Before(p) + 1 => Kind(m[k], "any", p)
         /\ \A p \in Pool, k \in 1..n - 4 : k >= Before(p) + Rows(p) => Kind(m[k], "quiet", p)
<1> DEFINE begin == <<EnsureDeployment, StartBlockBuilder>>
           one   == EnsureExactPoolLiquidity(Pool1, ExactSeedAmount)
           two   == EnsureExactPoolLiquidity(Pool2, ExactSeedAmount)
           none  == <<Read({"chain"}, AfterReadings),
                      Check(\A t \in Token : seen.after[t][Backrun] = 0)>>
           body  == MintAndApprove(Victim, TokenA, Pool1, SwapAmount)
           body2 == MintToken(TokenB, Backrun, BackrunAmount)
           i     == Rows(Pool1)
           j     == Rows(Pool2)
<1>1. i \in {2, 10} /\ j \in {2, 10}
  BY DEF Rows
<1>2. Pool1 \in Pool /\ Pool2 \in Pool /\ Pool1 # Pool2 /\ \A p \in Pool : p = Pool1 \/ p = Pool2
  BY DeploymentAssumption
<1>3. Before(Pool1) = 2 /\ Before(Pool2) = i + 2
  BY <1>2 DEF Before
<1>4. m = begin \o one \o two \o none \o Managed(body) \o Managed(body2) \o BackrunEnd
  BY DEF BackrunScenario, BackrunEnd, VictimPayload, BackrunDone
<1>5. \A p : AllOf(begin, 2, "any", p)
  BY StatementKinds, ShortKinds
<1>6. /\ AllOf(one, i, "quiet", Pool2) /\ AllOf(two, j, "quiet", Pool1)
      /\ \A k \in 2..i : Kind(one[k], "any", Pool1)
      /\ \A k \in 2..j : Kind(two[k], "any", Pool2)
      /\ Kind(one[i], "quiet", Pool1) /\ Kind(two[j], "quiet", Pool2)
      /\ one[1] = ReadReserves({Pool1}) /\ two[1] = ReadReserves({Pool2})
      /\ Empty(Pool1) => one[9] = ReadReservesAgain({Pool1})
      /\ Empty(Pool2) => two[9] = ReadReservesAgain({Pool2})
  BY <1>2, ExactRows
<1>7. \A p : AllOf(none, 2, "quiet", p)
  <2>1. DOMAIN AfterReadings \cap {"reserves", "seeded"} = {}
    BY DEF AfterReadings
  <2>2. QED BY <2>1, StatementKinds, ShortKinds
<1>8. \A p : AllOf(Managed(body), 4, "quiet", p)
  <2>1. Body(body, 2) /\ \A p : AllOf(body, 2, "quiet", p)
    BY MintAndApproveFits, MintKinds, Cast DEF Amount
  <2>2. \A p : AllOf(Managed(body), 2 + 2, "quiet", p)
    BY <2>1, ManagedKinds
  <2>3. QED BY <2>2
<1>9. \A p : AllOf(Managed(body2), 3, "quiet", p)
  <2>1. Body(body2, 1) /\ \A p : AllOf(body2, 1, "quiet", p)
    BY MintFits, MintKinds, Cast DEF Amount
  <2>2. \A p : AllOf(Managed(body2), 1 + 2, "quiet", p)
    BY <2>1, ManagedKinds
  <2>3. QED BY <2>2
<1> HIDE DEF begin, one, two, none, body, body2
<1>10. /\ Listing(begin, 2) /\ Listing(one, i) /\ Listing(two, j) /\ Listing(none, 2)
       /\ Listing(Managed(body), 4) /\ Listing(Managed(body2), 3) /\ Listing(BackrunEnd, 9)
  BY <1>5, <1>6, <1>7, <1>8, <1>9, BackrunEndKinds DEF AllOf
<1> DEFINE u == Managed(body)
           v == Managed(body2)
<1>11. m = begin \o one \o two \o none \o u \o v \o BackrunEnd
  BY <1>4
<1> HIDE DEF u, v, i, j
<1>12. /\ Listing(m, 2 + i + j + 2 + 4 + 3 + 9)
       /\ Stands(m, 0, begin, 2) /\ Stands(m, 2, one, i) /\ Stands(m, 2 + i, two, j)
       /\ Stands(m, 2 + i + j, none, 2) /\ Stands(m, 2 + i + j + 2, u, 4)
       /\ Stands(m, 2 + i + j + 2 + 4, v, 3) /\ Stands(m, 2 + i + j + 2 + 4 + 3, BackrunEnd, 9)
  <2>1. i \in Nat /\ j \in Nat /\ Listing(u, 4) /\ Listing(v, 3)
    BY <1>10 DEF Listing, u, v
  <2> DEFINE m2 == begin \o one
             m3 == m2 \o two
             m4 == m3 \o none
             m5 == m4 \o u
             m6 == m5 \o v
  <2>2. m = m6 \o BackrunEnd
    BY <1>11
  <2>3. Stands(begin, 0, begin, 2)
    BY <2>1 DEF Stands
  <2>4. /\ Listing(m2, 2 + i) /\ Stands(m2, 0, begin, 2) /\ Stands(m2, 2, one, i)
    <3>1. 0 + 2 <= 2 /\ 0 \in Nat
      BY <2>1
    <3>2. QED BY <1>10, <2>1, <2>3, <3>1, StandsOn, ListingsJoin
  <2> HIDE DEF m2
  <2>5. /\ Listing(m3, 2 + i + j) /\ Stands(m3, 0, begin, 2) /\ Stands(m3, 2, one, i) /\ Stands(m3, 2 + i, two, j)
    <3>1. 0 + 2 <= 2 + i /\ 2 + i <= 2 + i /\ 0 \in Nat
      BY <2>1
    <3>2. QED BY <1>10, <2>1, <2>4, <3>1, StandsOn, ListingsJoin
  <2> HIDE DEF m3
  <2>6. /\ Listing(m4, 2 + i + j + 2) /\ Stands(m4, 0, begin, 2) /\ Stands(m4, 2, one, i) /\ Stands(m4, 2 + i, two, j)
        /\ Stands(m4, 2 + i + j, none, 2)
    <3>1. 0 + 2 <= 2 + i + j /\ 2 + i <= 2 + i + j /\ (2 + i) + j <= 2 + i + j /\ 0 \in Nat /\ 2 + i \in Nat
      BY <2>1
    <3>2. QED BY <1>10, <2>1, <2>5, <3>1, StandsOn, ListingsJoin
  <2> HIDE DEF m4
  <2>7. /\ Listing(m5, 2 + i + j + 2 + 4) /\ Stands(m5, 0, begin, 2) /\ Stands(m5, 2, one, i) /\ Stands(m5, 2 + i, two, j)
        /\ Stands(m5, 2 + i + j, none, 2) /\ Stands(m5, 2 + i + j + 2, u, 4)
    <3>1. /\ 0 + 2 <= 2 + i + j + 2 /\ 2 + i <= 2 + i + j + 2 /\ (2 + i) + j <= 2 + i + j + 2
          /\ (2 + i + j) + 2 <= 2 + i + j + 2 /\ 0 \in Nat /\ 2 + i \in Nat /\ 2 + i + j \in Nat
      BY <2>1
    <3>2. QED BY <1>10, <2>1, <2>6, <3>1, StandsOn, ListingsJoin
  <2> HIDE DEF m5
  <2>8. /\ Listing(m6, 2 + i + j + 2 + 4 + 3) /\ Stands(m6, 0, begin, 2) /\ Stands(m6, 2, one, i)
        /\ Stands(m6, 2 + i, two, j) /\ Stands(m6, 2 + i + j, none, 2) /\ Stands(m6, 2 + i + j + 2, u, 4)
        /\ Stands(m6, 2 + i + j + 2 + 4, v, 3)
    <3>1. /\ 0 + 2 <= 2 + i + j + 2 + 4 /\ 2 + i <= 2 + i + j + 2 + 4 /\ (2 + i) + j <= 2 + i + j + 2 + 4
          /\ (2 + i + j) + 2 <= 2 + i + j + 2 + 4 /\ (2 + i + j + 2) + 4 <= 2 + i + j + 2 + 4
          /\ 0 \in Nat /\ 2 + i \in Nat /\ 2 + i + j \in Nat /\ 2 + i + j + 2 \in Nat
      BY <2>1
    <3>2. QED BY <1>10, <2>1, <2>7, <3>1, StandsOn, ListingsJoin
  <2> HIDE DEF m6
  <2>9. /\ 0 + 2 <= 2 + i + j + 2 + 4 + 3 /\ 2 + i <= 2 + i + j + 2 + 4 + 3 /\ (2 + i) + j <= 2 + i + j + 2 + 4 + 3
        /\ (2 + i + j) + 2 <= 2 + i + j + 2 + 4 + 3 /\ (2 + i + j + 2) + 4 <= 2 + i + j + 2 + 4 + 3
        /\ (2 + i + j + 2 + 4) + 3 <= 2 + i + j + 2 + 4 + 3
        /\ 0 \in Nat /\ 2 + i \in Nat /\ 2 + i + j \in Nat /\ 2 + i + j + 2 \in Nat /\ 2 + i + j + 2 + 4 \in Nat
    BY <2>1
  <2>10. Listing(m, 2 + i + j + 2 + 4 + 3 + 9) /\ Stands(m, 2 + i + j + 2 + 4 + 3, BackrunEnd, 9)
    BY <1>10, <2>2, <2>8, ListingsJoin
  <2>11. /\ Stands(m, 0, begin, 2) /\ Stands(m, 2, one, i) /\ Stands(m, 2 + i, two, j)
         /\ Stands(m, 2 + i + j, none, 2) /\ Stands(m, 2 + i + j + 2, u, 4)
         /\ Stands(m, 2 + i + j + 2 + 4, v, 3)
    BY <1>10, <2>1, <2>2, <2>8, <2>9, StandsOn
  <2>12. QED BY <2>10, <2>11
<1>13. n = 2 + i + j + 2 + 4 + 3 + 9 /\ n - 9 = 2 + i + j + 2 + 4 + 3
  BY <1>1 DEF i, j
<1>14. /\ m[2 + 1] = ReadReserves({Pool1}) /\ m[(2 + i) + 1] = ReadReserves({Pool2})
       /\ Empty(Pool1) => m[2 + 9] = ReadReservesAgain({Pool1})
       /\ Empty(Pool2) => m[(2 + i) + 9] = ReadReservesAgain({Pool2})
  <2>1. 1 \in 1..i /\ 1 \in 1..j /\ (Empty(Pool1) => 9 \in 1..i) /\ (Empty(Pool2) => 9 \in 1..j)
    BY <1>1 DEF i, j, Rows
  <2>2. QED BY <1>6, <1>12, <2>1 DEF Stands
<1>15. ASSUME NEW k \in 1..n
       PROVE  \/ \E l \in 1..2 : k = 0 + l /\ m[k] = begin[l]
              \/ \E l \in 1..i : k = 2 + l /\ m[k] = one[l]
              \/ \E l \in 1..j : k = (2 + i) + l /\ m[k] = two[l]
              \/ \E l \in 1..2 : k = (2 + i + j) + l /\ m[k] = none[l]
              \/ \E l \in 1..4 : k = (2 + i + j + 2) + l /\ m[k] = u[l]
              \/ \E l \in 1..3 : k = (2 + i + j + 2 + 4) + l /\ m[k] = v[l]
              \/ \E l \in 1..9 : k = (2 + i + j + 2 + 4 + 3) + l /\ m[k] = BackrunEnd[l]
  <2>1. \/ \E l \in 1..2 : k = 0 + l
        \/ \E l \in 1..i : k = 2 + l
        \/ \E l \in 1..j : k = (2 + i) + l
        \/ \E l \in 1..2 : k = (2 + i + j) + l
        \/ \E l \in 1..4 : k = (2 + i + j + 2) + l
        \/ \E l \in 1..3 : k = (2 + i + j + 2 + 4) + l
        \/ \E l \in 1..9 : k = (2 + i + j + 2 + 4 + 3) + l
    <3>1. CASE k <= 2
      <4>1. k \in 1..2 /\ k = 0 + k
        BY <3>1
      <4>2. QED BY <4>1
    <3>2. CASE k > 2 /\ k <= 2 + i
      <4>1. k - 2 \in 1..i /\ k = 2 + (k - 2)
        BY <1>1, <3>2
      <4>2. QED BY <4>1
    <3>3. CASE k > 2 + i /\ k <= 2 + i + j
      <4>1. k - (2 + i) \in 1..j /\ k = (2 + i) + (k - (2 + i))
        BY <1>1, <3>3
      <4>2. QED BY <4>1
    <3>4. CASE k > 2 + i + j /\ k <= 2 + i + j + 2
      <4>1. k - (2 + i + j) \in 1..2 /\ k = (2 + i + j) + (k - (2 + i + j))
        BY <1>1, <3>4
      <4>2. QED BY <4>1
    <3>5. CASE k > 2 + i + j + 2 /\ k <= 2 + i + j + 2 + 4
      <4>1. k - (2 + i + j + 2) \in 1..4 /\ k = (2 + i + j + 2) + (k - (2 + i + j + 2))
        BY <1>1, <3>5
      <4>2. QED BY <4>1
    <3>6. CASE k > 2 + i + j + 2 + 4 /\ k <= 2 + i + j + 2 + 4 + 3
      <4>1. k - (2 + i + j + 2 + 4) \in 1..3 /\ k = (2 + i + j + 2 + 4) + (k - (2 + i + j + 2 + 4))
        BY <1>1, <3>6
      <4>2. QED BY <4>1
    <3>7. CASE k > 2 + i + j + 2 + 4 + 3
      <4>1. /\ k - (2 + i + j + 2 + 4 + 3) \in 1..9
            /\ k = (2 + i + j + 2 + 4 + 3) + (k - (2 + i + j + 2 + 4 + 3))
        BY <1>1, <1>13, <3>7
      <4>2. QED BY <4>1
    <3>8. QED BY <1>1, <3>1, <3>2, <3>3, <3>4, <3>5, <3>6, <3>7
  <2>2. QED BY <1>12, <2>1 DEF Stands
<1>16. ASSUME NEW k \in 1..n
       PROVE  /\ k # 2 + 1 => Kind(m[k], "any", Pool1)
              /\ k # (2 + i) + 1 => Kind(m[k], "any", Pool2)
  <2>1. \A x, p : Kind(x, "quiet", p) => Kind(x, "any", p)
    BY DEF Kind
  <2>2. ASSUME NEW l \in 1..2, m[k] = begin[l]
        PROVE  Kind(m[k], "any", Pool1) /\ Kind(m[k], "any", Pool2)
    BY <1>5, <2>2 DEF AllOf
  <2>3. ASSUME NEW l \in 1..i, k = 2 + l, m[k] = one[l]
        PROVE  (k # 2 + 1 => Kind(m[k], "any", Pool1)) /\ Kind(m[k], "any", Pool2)
    <3>1. k # 2 + 1 => l \in 2..i
      BY <1>1, <2>3
    <3>2. QED BY <1>6, <2>1, <2>3, <3>1 DEF AllOf
  <2>4. ASSUME NEW l \in 1..j, k = (2 + i) + l, m[k] = two[l]
        PROVE  Kind(m[k], "any", Pool1) /\ (k # (2 + i) + 1 => Kind(m[k], "any", Pool2))
    <3>1. k # (2 + i) + 1 => l \in 2..j
      BY <1>1, <2>4
    <3>2. QED BY <1>6, <2>1, <2>4, <3>1 DEF AllOf
  <2>5. ASSUME NEW l \in 1..2, m[k] = none[l]
        PROVE  Kind(m[k], "any", Pool1) /\ Kind(m[k], "any", Pool2)
    BY <1>7, <2>1, <2>5 DEF AllOf
  <2>6. ASSUME NEW l \in 1..4, m[k] = u[l]
        PROVE  Kind(m[k], "any", Pool1) /\ Kind(m[k], "any", Pool2)
    BY <1>8, <2>1, <2>6 DEF AllOf, u
  <2>7. ASSUME NEW l \in 1..3, m[k] = v[l]
        PROVE  Kind(m[k], "any", Pool1) /\ Kind(m[k], "any", Pool2)
    BY <1>9, <2>1, <2>7 DEF AllOf, v
  <2>8. ASSUME NEW l \in 1..9, m[k] = BackrunEnd[l]
        PROVE  Kind(m[k], "any", Pool1) /\ Kind(m[k], "any", Pool2)
    BY <2>8, BackrunEndKinds
  <2>9. QED BY <1>15, <2>2, <2>3, <2>4, <2>5, <2>6, <2>7, <2>8
<1>17. ASSUME NEW k \in 1..n - 4
       PROVE  /\ k >= 2 + i => Kind(m[k], "quiet", Pool1)
              /\ k >= (2 + i) + j => Kind(m[k], "quiet", Pool2)
  <2>1. k \in 1..n
    BY <1>1, <1>13
  <2>2. ASSUME NEW l \in 1..2, k = 0 + l
        PROVE  ~ (k >= 2 + i) /\ ~ (k >= (2 + i) + j)
    BY <1>1, <2>2
  <2>3. ASSUME NEW l \in 1..i, k = 2 + l, m[k] = one[l]
        PROVE  (k >= 2 + i => Kind(m[k], "quiet", Pool1)) /\ ~ (k >= (2 + i) + j)
    <3>1. k >= 2 + i => l = i
      BY <1>1, <2>3
    <3>2. ~ (k >= (2 + i) + j)
      BY <1>1, <2>3
    <3>3. QED BY <1>6, <2>3, <3>1, <3>2
  <2>4. ASSUME NEW l \in 1..j, k = (2 + i) + l, m[k] = two[l]
        PROVE  Kind(m[k], "quiet", Pool1) /\ (k >= (2 + i) + j => Kind(m[k], "quiet", Pool2))
    <3>1. k >= (2 + i) + j => l = j
      BY <1>1, <2>4
    <3>2. QED BY <1>6, <2>4, <3>1 DEF AllOf
  <2>5. ASSUME NEW l \in 1..2, m[k] = none[l]
        PROVE  Kind(m[k], "quiet", Pool1) /\ Kind(m[k], "quiet", Pool2)
    BY <1>7, <2>5 DEF AllOf
  <2>6. ASSUME NEW l \in 1..4, m[k] = u[l]
        PROVE  Kind(m[k], "quiet", Pool1) /\ Kind(m[k], "quiet", Pool2)
    BY <1>8, <2>6 DEF AllOf, u
  <2>7. ASSUME NEW l \in 1..3, m[k] = v[l]
        PROVE  Kind(m[k], "quiet", Pool1) /\ Kind(m[k], "quiet", Pool2)
    BY <1>9, <2>7 DEF AllOf, v
  <2>8. ASSUME NEW l \in 1..9, k = (2 + i + j + 2 + 4 + 3) + l, m[k] = BackrunEnd[l]
        PROVE  Kind(m[k], "quiet", Pool1) /\ Kind(m[k], "quiet", Pool2)
    <3>1. l \in 1..5
      BY <1>1, <1>13, <2>8
    <3>2. QED BY <2>8, <3>1, BackrunEndKinds
  <2>9. QED BY <1>15, <2>1, <2>2, <2>3, <2>4, <2>5, <2>6, <2>7, <2>8
<1>18. Before(Pool1) + 1 = 2 + 1 /\ Before(Pool2) + 1 = (2 + i) + 1
       /\ Before(Pool1) + 9 = 2 + 9 /\ Before(Pool2) + 9 = (2 + i) + 9
       /\ Before(Pool1) + Rows(Pool1) = 2 + i /\ Before(Pool2) + Rows(Pool2) = (2 + i) + j
  BY <1>1, <1>3 DEF i, j
<1>19. \A p \in Pool : /\ m[Before(p) + 1] = ReadReserves({p})
                       /\ Empty(p) => m[Before(p) + 9] = ReadReservesAgain({p})
  BY <1>2, <1>14, <1>18
<1>20. \A p \in Pool, k \in 1..n : k # Before(p) + 1 => Kind(m[k], "any", p)
  BY <1>2, <1>16, <1>18
<1>21. \A p \in Pool, k \in 1..n - 4 : k >= Before(p) + Rows(p) => Kind(m[k], "quiet", p)
  BY <1>2, <1>17, <1>18
<1>22. Listing(m, n) /\ Stands(m, n - 9, BackrunEnd, 9)
  BY <1>12, <1>13
<1>23. QED BY <1>19, <1>20, <1>21, <1>22

(* The last statements of victim-swap. *)
QuoteReadings == [quote |-> QuoteAForB(Pool1, SwapAmount),
                  nonce |-> anvil.nonce, before |-> anvil.storage.balance]
SwapEnd(min, final) ==
    <<Read({"chain"}, QuoteReadings), SubmitPublic(VictimPayload(min)),
      MineBundle(<<Reference(seen.id)>>),
      Read({"builder"}, RecordReadings), Read({"chain"}, AfterReadings), Check(final)>>

(* They are six. *)
LEMMA SwapEndKinds ==
  ASSUME NEW min, NEW final, NEW p
  PROVE  /\ Listing(SwapEnd(min, final), 6)
         /\ \A k \in 1..6 : Kind(SwapEnd(min, final)[k], "any", p)
<1> DEFINE s == SwapEnd(min, final)
           a == Read({"chain"}, QuoteReadings)
           b == SubmitPublic(VictimPayload(min))
           c == MineBundle(<<Reference(seen.id)>>)
           d == Read({"builder"}, RecordReadings)
           e == Read({"chain"}, AfterReadings)
           f == Check(final)
<1>1. /\ DOMAIN QuoteReadings \cap {"reserves", "seeded"} = {}
      /\ DOMAIN RecordReadings \cap {"reserves", "seeded"} = {}
      /\ DOMAIN AfterReadings \cap {"reserves", "seeded"} = {}
  BY DEF QuoteReadings, RecordReadings, AfterReadings
<1>2. /\ Kind(a, "any", p) /\ Kind(b, "any", p) /\ Kind(c, "any", p) /\ Kind(d, "any", p)
      /\ Kind(e, "any", p) /\ Kind(f, "any", p)
  BY <1>1, StatementKinds
<1>3. s = <<a, b, c, d, e, f>>
  BY DEF SwapEnd
<1> HIDE DEF s, a, b, c, d, e, f
<1>4. /\ s \in Seq({a, b, c, d, e, f}) /\ Len(s) = 6
      /\ s[1] = a /\ s[2] = b /\ s[3] = c /\ s[4] = d /\ s[5] = e /\ s[6] = f
  BY <1>3
<1>5. \A k \in 1..6 : k = 1 \/ k = 2 \/ k = 3 \/ k = 4 \/ k = 5 \/ k = 6
  OBVIOUS
<1>6. \A k \in 1..6 : Kind(s[k], "any", p)
  BY <1>2, <1>4, <1>5
<1>7. Listing(s, 6)
  BY <1>4 DEF Listing
<1>8. QED BY <1>6, <1>7 DEF s

(* The statement at k is a call of cast send. *)
Sends(m, k) == m[k].op = "cast send"

(* What stands where in victim-swap: the reserves are read once, and a call *)
(* of cast send and the end of its block come before the last statements.   *)
LEMMA SwapRows ==
  ASSUME Ready, NEW min, NEW final, NEW m, m = SwapWith(min, final),
         NEW n, n = IF Positive(Pool1) THEN 13 ELSE 20
  PROVE  /\ Listing(m, n) /\ Stands(m, n - 6, SwapEnd(min, final), 6)
         /\ Sends(m, n - 7)
         /\ \A p \in Pool, k \in 1..n : k # 3 => Kind(m[k], "any", p)
<1> DEFINE begin  == <<EnsureDeployment, StartBlockBuilder>>
           ensure == EnsurePoolLiquidity(Pool1, PoolSeedAmount)
           first  == <<ReadReserves({Pool1})>>
           rest   == IF Positive(Pool1) THEN <<>> ELSE Managed(AddPoolLiquidity(Pool1, PoolSeedAmount))
           l      == IF Positive(Pool1) THEN 0 ELSE 7
           body   == MintAndApprove(Victim, TokenA, Pool1, SwapAmount)
           end    == SwapEnd(min, final)
<1>1. n = l + 13 /\ l \in Nat /\ PoolSeedAmount \in Uint /\ SwapAmount \in Uint
  BY Cast DEF Amount
<1>2. m = begin \o ensure \o Managed(body) \o end
  BY DEF SwapWith, SwapEnd, VictimPayload, QuoteReadings
<1>3. \A p : AllOf(begin, 2, "any", p)
  BY StatementKinds, ShortKinds
<1>4. ensure = first \o rest
  BY DEF EnsurePoolLiquidity, Positive
<1>5. \A p : AllOf(rest, l, "any", p)
  <2>1. CASE Positive(Pool1)
    <3>1. <<>> \in Seq({}) /\ Len(<<>>) = 0 /\ 1..0 = {}
      OBVIOUS
    <3>2. QED BY <2>1, <3>1 DEF AllOf, Listing
  <2>2. CASE ~Positive(Pool1)
    <3>1. Body(AddPoolLiquidity(Pool1, PoolSeedAmount), 5)
          /\ \A p : AllOf(AddPoolLiquidity(Pool1, PoolSeedAmount), 5, "any", p)
      BY <1>1, AddLiquidityFits, AddLiquidityKinds, Cast
    <3>2. \A p : AllOf(Managed(AddPoolLiquidity(Pool1, PoolSeedAmount)), 5 + 2, "any", p)
      BY <3>1, ManagedKinds
    <3>3. QED BY <2>2, <3>2
  <2>3. QED BY <2>1, <2>2
<1>6. Listing(first, 1)
  BY ShortListings
<1>7. Body(body, 2) /\ \A p : AllOf(Managed(body), 4, "any", p)
  <2>1. Body(body, 2) /\ \A p : AllOf(body, 2, "any", p)
    BY <1>1, MintAndApproveFits, MintKinds, Cast
  <2>2. \A p : AllOf(Managed(body), 2 + 2, "any", p)
    BY <2>1, ManagedKinds
  <2>3. QED BY <2>1, <2>2
<1>8. Managed(body)[3].op = "cast send" /\ Managed(body)[4].op = "set automine"
  <2>1. Shaped(Managed(body), Span(2))
    <3>1. 2 > 0
      OBVIOUS
    <3>2. QED BY <1>7, <3>1, ManagedFits
  <2>2. Len(Span(2)) = 4 /\ Span(2)[3] = "send" /\ Span(2)[4] = "close"
    BY DEF Span
  <2>3. HasTag(Managed(body)[3], "send") /\ HasTag(Managed(body)[4], "close")
    BY <2>1, <2>2 DEF Shaped, Fits
  <2>4. QED BY <2>3 DEF HasTag
<1> HIDE DEF begin, ensure, first, rest, l, body, end
<1> DEFINE u == Managed(body)
           m2 == begin \o ensure
           m3 == m2 \o u
<1>9. Listing(begin, 2) /\ Listing(rest, l) /\ Listing(u, 4) /\ Listing(end, 6)
  BY <1>3, <1>5, <1>7, SwapEndKinds DEF AllOf, end
<1>10. m = m3 \o end
  BY <1>2
<1> HIDE DEF u
<1>11. Listing(ensure, 1 + l) /\ Stands(ensure, 1, rest, l)
  BY <1>4, <1>6, <1>9, ListingsJoin
<1>12. Listing(m2, 2 + (1 + l)) /\ Begins(m2, begin, 2) /\ Stands(m2, 2, ensure, 1 + l)
  BY <1>9, <1>11, ListingsJoin
<1> HIDE DEF m2
<1>13. Listing(m3, 2 + (1 + l) + 4) /\ Begins(m3, m2, 2 + (1 + l)) /\ Stands(m3, 2 + (1 + l), u, 4)
  BY <1>9, <1>12, ListingsJoin
<1> HIDE DEF m3
<1>14. /\ Listing(m, 2 + (1 + l) + 4 + 6) /\ Begins(m, m3, 2 + (1 + l) + 4)
       /\ Stands(m, 2 + (1 + l) + 4, end, 6)
  BY <1>9, <1>10, <1>13, ListingsJoin
<1>15. 2 + (1 + l) + 4 + 6 = n /\ 2 + (1 + l) + 4 = n - 6 /\ n - 6 = l + 7
  BY <1>1
<1>16. m[l + 6] = u[3] /\ m[l + 7] = u[4]
  <2>1. /\ 3 \in 1..4 /\ 4 \in 1..4 /\ 2 + (1 + l) + 3 = l + 6 /\ 2 + (1 + l) + 4 = l + 7
        /\ l + 6 \in 1..2 + (1 + l) + 4 /\ l + 7 \in 1..2 + (1 + l) + 4
    BY <1>1
  <2>2. m3[l + 6] = u[3] /\ m3[l + 7] = u[4]
    BY <1>13, <2>1 DEF Stands
  <2>3. QED BY <1>14, <2>1, <2>2 DEF Begins
<1>17. ASSUME NEW p \in Pool, NEW k \in 1..n, k # 3
       PROVE  Kind(m[k], "any", p)
  <2>1. CASE k \in 1..2
    <3>1. k \in 1..2 + (1 + l) /\ k \in 1..2 + (1 + l) + 4
      BY <1>1, <2>1
    <3>2. m[k] = begin[k]
      BY <1>12, <1>13, <1>14, <2>1, <3>1 DEF Begins
    <3>3. QED BY <1>3, <2>1, <3>2 DEF AllOf
  <2>2. CASE k > 3 /\ k <= 3 + l
    <3>1. PICK j \in 1..l : k = 2 + (1 + j)
      <4>1. k - 3 \in 1..l /\ k = 2 + (1 + (k - 3))
        BY <1>1, <2>2
      <4>2. QED BY <4>1
    <3>2. 1 + j \in 1..1 + l /\ k \in 1..2 + (1 + l) /\ k \in 1..2 + (1 + l) + 4
      BY <1>1, <2>2, <3>1
    <3>3. m2[k] = rest[j]
      BY <1>11, <1>12, <3>1, <3>2 DEF Stands
    <3>4. m[k] = rest[j]
      BY <1>13, <1>14, <3>2, <3>3 DEF Begins
    <3>5. QED BY <1>5, <3>4 DEF AllOf
  <2>3. CASE k > 3 + l /\ k <= 7 + l
    <3>1. PICK j \in 1..4 : k = 2 + (1 + l) + j
      <4>1. k - (3 + l) \in 1..4 /\ k = 2 + (1 + l) + (k - (3 + l))
        BY <1>1, <2>3
      <4>2. QED BY <4>1
    <3>2. k \in 1..2 + (1 + l) + 4
      BY <1>1, <2>3
    <3>3. m[k] = u[j]
      BY <1>13, <1>14, <3>1, <3>2 DEF Stands, Begins
    <3>4. QED BY <1>7, <3>3 DEF AllOf, u
  <2>4. CASE k > 7 + l
    <3>1. PICK j \in 1..6 : k = 2 + (1 + l) + 4 + j
      <4>1. k - (7 + l) \in 1..6 /\ k = 2 + (1 + l) + 4 + (k - (7 + l))
        BY <1>1, <2>4
      <4>2. QED BY <4>1
    <3>2. m[k] = end[j]
      BY <1>14, <3>1 DEF Stands
    <3>3. QED BY <3>2, SwapEndKinds DEF end
  <2>5. QED BY <1>1, <1>17, <2>1, <2>2, <2>3, <2>4
<1>18. Listing(m, n) /\ Stands(m, n - 6, end, 6)
  BY <1>14, <1>15
<1>19. n - 7 = l + 6
  BY <1>1
<1>20. Sends(m, n - 7)
  BY <1>8, <1>16, <1>19 DEF u, Sends
<1>21. QED BY <1>17, <1>18, <1>20 DEF end
-----------------------------------------------------------------------------
(***************************************************************************)
(* A statement that returns, and one that does not.                         *)
(***************************************************************************)

(* What the statement st has done, having read r. *)
Did(st, r) ==
    /\ st.op = "ensure deployment" => EnsureDeploymentEffect
    /\ st.op \in {"start builder", "restart builder"} => anvil' = anvil
    /\ st.op = "set automine" => SetAutomineEffect(st.arg)
    /\ st.op = "cast send" => \E txs \in CastOrders(st.arg) : CastSendEffect(txs)
    /\ st.op = "read" => UNCHANGED worldVars /\ r = st.arg
    /\ st.op = "submit" => \E q \in Request : SubmitEffect(q, st.arg) /\ r = [id |-> q, seqNum |-> lastSeqNum']
    /\ st.op = "bundle" => /\ BundleFound(st.arg) /\ MineBundleEffect(st.arg, BundleBlock(st.arg))
                           /\ r = [reply |-> BundleReply(st.arg, BundleBlock(st.arg))]
    /\ st.op = "simulate" => SimulateEffect /\ r = [reply |-> BundleReply(st.arg, BundleBlock(st.arg))]
    /\ st.op = "check" => st.arg /\ UNCHANGED worldVars
    /\ st.op \notin {"read", "submit", "bundle", "simulate"} => DOMAIN r = {}
    /\ st.op \notin {"ensure deployment", "start builder", "restart builder", "check"}
          => st.needs \subseteq Services

(* The statement that is executed is one of the program. *)
LEMMA RunningIsMain ==
  ASSUME Inv, NEW st \in Running
  PROVE  /\ at \in 1..Len(Main) /\ st.op = Main[at].op /\ st.needs = Main[at].needs
         /\ st.arg = Main[at].arg /\ st.last = (at = Len(Main))
<1> DEFINE main == Main
           clauses == {k \in at + 1..Len(main) : main[k].op = "set automine" /\ ~main[k].arg}
<1>1. at # 0 /\ at \in 1..Len(Shape) /\ scenario \in Names
  BY RunningFacts DEF Running
<1>2. Len(main) = Len(Shape)
  BY <1>1, InvIsReady, MainFits DEF Shaped
<1>3. st = [op |-> main[at].op, needs |-> main[at].needs, arg |-> main[at].arg,
            try |-> main[at].try, last |-> at = Len(main),
            finally |-> IF main[at].try THEN Min(clauses) ELSE 0]
  BY <1>1 DEF Running
<1> HIDE DEF main, clauses
<1>4. /\ st.op = main[at].op /\ st.needs = main[at].needs /\ st.arg = main[at].arg
      /\ st.last = (at = Len(main))
  BY <1>3
<1>5. QED BY <1>1, <1>2, <1>4 DEF main

(* A step of a run: the statement raises, or returns what it has read. *)
LEMMA StepsOfARun ==
  ASSUME NEW st \in Running,
         \/ Prepares(st) \/ SetsAutomine(st) \/ CastSends(st) \/ CastRefused(st)
         \/ Reads(st) \/ Submits(st) \/ Bundles(st) \/ Simulates(st) \/ BundleRefused(st)
         \/ Checks(st) \/ Unreachable(st)
         \/ CallFails(st) \/ ResponseLost(st) \/ BundlePartly(st)
  PROVE  /\ fit' = fit /\ interfered' = interfered
         /\ (\E hit : Raise(st, hit)) \/ \E r : Proceed(st, r) /\ Did(st, r)
<1> DEFINE none  == [x \in {} |-> x]
           reply == [reply |-> BundleReply(st.arg, BundleBlock(st.arg))]
<1>1. DOMAIN none = {}
  OBVIOUS
<1>2. Returns(st) <=> Proceed(st, none)
  BY DEF Returns
<1> HIDE DEF none
<1>3. fit' = fit /\ interfered' = interfered
  BY DEF pastVars, Prepares, SetsAutomine, CastSends, CastRefused, Reads, Submits, Bundles, Simulates,
         BundleRefused, Checks, Unreachable, CallFails, ResponseLost, BundlePartly, Fault, Incident
<1>4. CASE Prepares(st)
  <2>1. Proceed(st, none) /\ st.op \in {"ensure deployment", "start builder", "restart builder"}
    BY <1>2, <1>4 DEF Prepares
  <2>2. /\ st.op = "ensure deployment" => EnsureDeploymentEffect
        /\ st.op \in {"start builder", "restart builder"} => anvil' = anvil
    BY <1>4 DEF Prepares, StartEffect, RestartEffect
  <2>3. Did(st, none)
    BY <1>1, <2>1, <2>2 DEF Did
  <2>4. QED BY <1>3, <2>1, <2>3
<1>5. CASE SetsAutomine(st)
  <2>1. /\ Proceed(st, none) /\ st.op = "set automine" /\ SetAutomineEffect(st.arg)
        /\ st.needs \subseteq Services
    BY <1>2, <1>5 DEF SetsAutomine
  <2>2. Did(st, none)
    BY <1>1, <2>1 DEF Did
  <2>3. QED BY <1>3, <2>1, <2>2
<1>6. CASE CastSends(st)
  <2>1. PICK txs \in CastOrders(st.arg) :
            CastSendEffect(txs) /\ (Returns(st) \/ Raise(st, disturbed))
    BY <1>6 DEF CastSends
  <2>2. st.op = "cast send" /\ st.needs \subseteq Services
    BY <1>6 DEF CastSends
  <2>3. Did(st, none)
    BY <1>1, <2>1, <2>2 DEF Did
  <2>4. QED BY <1>2, <1>3, <2>1, <2>3
<1>7. CASE Reads(st)
  <2>1. /\ Proceed(st, st.arg) \/ Raise(st, disturbed)
        /\ st.op = "read" /\ UNCHANGED worldVars /\ st.needs \subseteq Services
    BY <1>7 DEF Reads
  <2>2. Did(st, st.arg)
    BY <2>1 DEF Did
  <2>3. QED BY <1>3, <2>1, <2>2
<1>8. CASE Submits(st)
  <2>1. PICK q \in Request : SubmitEffect(q, st.arg) /\ Proceed(st, [id |-> q, seqNum |-> lastSeqNum'])
    BY <1>8 DEF Submits
  <2>2. st.op = "submit" /\ st.needs \subseteq Services
    BY <1>8 DEF Submits
  <2>3. Did(st, [id |-> q, seqNum |-> lastSeqNum'])
    BY <2>1, <2>2 DEF Did
  <2>4. QED BY <1>3, <2>1, <2>3
<1>9. CASE Bundles(st)
  <2>1. /\ st.op = "bundle" /\ BundleFound(st.arg) /\ MineBundleEffect(st.arg, BundleBlock(st.arg))
        /\ Proceed(st, reply) /\ st.needs \subseteq Services
    BY <1>9 DEF Bundles, Accepted
  <2>2. Did(st, reply)
    BY <2>1 DEF Did
  <2>3. QED BY <1>3, <2>1, <2>2
<1>10. CASE Simulates(st)
  <2>1. /\ st.op = "simulate" /\ SimulateEffect /\ Proceed(st, reply) /\ st.needs \subseteq Services
    BY <1>10 DEF Simulates, Accepted
  <2>2. Did(st, reply)
    BY <2>1 DEF Did
  <2>3. QED BY <1>3, <2>1, <2>2
<1>11. CASE Checks(st) /\ st.arg
  <2>1. st.op = "check" /\ Proceed(st, none) /\ UNCHANGED worldVars
    BY <1>2, <1>11 DEF Checks
  <2>2. Did(st, none)
    BY <1>1, <1>11, <2>1 DEF Did
  <2>3. QED BY <1>3, <2>1, <2>2
<1>12. CASE \/ CastRefused(st) \/ BundleRefused(st) \/ (Checks(st) /\ ~st.arg) \/ Unreachable(st)
            \/ CallFails(st) \/ ResponseLost(st) \/ BundlePartly(st)
  <2>1. \E hit : Raise(st, hit)
    BY <1>12 DEF CastRefused, BundleRefused, Checks, Unreachable, CallFails, ResponseLost, BundlePartly
  <2>2. QED BY <1>3, <2>1
<1>13. CASE Checks(st)
  BY <1>11, <1>12, <1>13
<1>14. QED BY <1>4, <1>5, <1>6, <1>7, <1>8, <1>9, <1>10, <1>12, <1>13, Zenon

(* What is remembered after a reading. *)
LEMMA Remembers ==
  ASSUME WellSeen(seen), NEW r,
         seen' = [x \in DOMAIN seen |-> IF x \in DOMAIN r THEN r[x] ELSE seen[x]]
  PROVE  /\ seen'.reserves = IF "reserves" \in DOMAIN r THEN r.reserves ELSE seen.reserves
         /\ seen'.seeded = IF "seeded" \in DOMAIN r THEN r.seeded ELSE seen.seeded
         /\ seen'.before = IF "before" \in DOMAIN r THEN r.before ELSE seen.before
         /\ seen'.after = IF "after" \in DOMAIN r THEN r.after ELSE seen.after
         /\ seen'.quote = IF "quote" \in DOMAIN r THEN r.quote ELSE seen.quote
         /\ seen'.id = IF "id" \in DOMAIN r THEN r.id ELSE seen.id
         /\ seen'.reply = IF "reply" \in DOMAIN r THEN r.reply ELSE seen.reply
<1>1. DOMAIN seen = DOMAIN NothingSeen
  BY DEF WellSeen
<1>2. {"reserves", "seeded", "before", "after", "quote", "id", "reply"} \subseteq DOMAIN seen
  BY <1>1 DEF NothingSeen
<1>3. QED BY <1>2

(* Only a reading remembers more than a record or a reply. *)
LEMMA WhatIsRead ==
  ASSUME NEW st, st.op \in Operation, NEW r, Did(st, r),
         DOMAIN r \cap {"reserves", "seeded", "before", "after", "quote"} # {}
  PROVE  st.op = "read" /\ r = st.arg /\ UNCHANGED worldVars
<1>1. st.op = "submit" => DOMAIN r = {"id", "seqNum"}
  BY DEF Did
<1>2. st.op \in {"bundle", "simulate"} => DOMAIN r = {"reply"}
  BY DEF Did
<1>3. st.op \notin {"read", "submit", "bundle", "simulate"} => DOMAIN r = {}
  BY DEF Did
<1>4. st.op = "read"
  BY <1>1, <1>2, <1>3
<1>5. QED BY <1>4 DEF Did

(* A bundle that is mined empties the pool and leaves the records' bodies. *)
LEMMA BundleMines ==
  ASSUME Chain, NEW items \in Seq(Item), MineBundleEffect(items, BundleBlock(items))
  PROVE  anvil'.pool = <<>> /\ anvil'.storage = BundleBlock(items).storage
<1> DEFINE a == SentUpTo(items, Len(items))
<1>1. Sound(a) /\ BundleBlock(items) = Mined(a)
  <2>1. Len(items) \in 0..Len(items)
    OBVIOUS
  <2>2. QED BY <2>1, SentFacts DEF BundleBlock
<1>2. anvil' = [BundleBlock(items) EXCEPT !.receipts = <<>>]
  BY DEF MineBundleEffect
<1> HIDE DEF a
<1>3. Sound(Mined(a)) /\ Mined(a).pool = <<>>
  BY <1>1, MinedFacts DEF Blocked
<1>4. QED BY <1>1, <1>2, <1>3 DEF Sound, Node

(* A chain with nothing but idle transactions in its pool stays so. *)
LEMMA StillKept ==
  ASSUME Inv, NEW st \in Running, NEW r, Did(st, r), anvil.up => Still(anvil), anvil'.up
  PROVE  Still(anvil')
<1>1. /\ Chain /\ anvil \in Node /\ st.op \in Operation
      /\ st.op = "cast send" => st.arg \in Tx
      /\ st.op = "bundle" => st.arg \in Seq(Item)
  BY TagFacts DEF Inv, Chain, Sound
<1>2. CASE anvil'.pool = <<>>
  BY <1>2 DEF Still
<1>3. CASE anvil' = anvil
  BY <1>3
<1>4. CASE st.op = "ensure deployment"
  <2>1. anvil' = anvil \/ anvil' = Deployed
    BY <1>4 DEF Did, EnsureDeploymentEffect
  <2>2. Deployed.pool = <<>>
    BY DEF Deployed
  <2>3. QED BY <1>2, <1>3, <2>1, <2>2
<1>5. CASE st.op = "set automine"
  <2>1. anvil' = [anvil EXCEPT !.automine = st.arg]
    BY <1>5 DEF Did, SetAutomineEffect
  <2>2. anvil'.pool = anvil.pool /\ anvil'.up = anvil.up
    BY <1>1, <2>1 DEF Node
  <2>3. QED BY <2>2 DEF Still
<1>6. CASE st.op = "cast send"
  <2>1. anvil'.pool = <<>>
    BY <1>1, <1>6, CastPays DEF Did
  <2>2. QED BY <1>2, <2>1
<1>7. CASE st.op = "bundle"
  <2>1. anvil'.pool = <<>>
    BY <1>1, <1>7, BundleMines DEF Did
  <2>2. QED BY <1>2, <2>1
<1>8. CASE st.op = "simulate"
  <2>1. anvil' = [anvil EXCEPT !.pool = <<>>]
    BY <1>8 DEF Did, SimulateEffect
  <2>2. anvil'.pool = <<>>
    BY <1>1, <2>1 DEF Node
  <2>3. QED BY <1>2, <2>2
<1>9. CASE st.op \in {"start builder", "restart builder", "read", "submit", "check"}
  <2>1. anvil' = anvil
    BY <1>9 DEF Did, SubmitEffect, worldVars
  <2>2. QED BY <1>3, <2>1
<1>10. QED BY <1>1, <1>4, <1>5, <1>6, <1>7, <1>8, <1>9 DEF Operation

(* What is remembered of a pool's reserves changes where they are read. *)
LEMMA KeepsReserves ==
  ASSUME Inv, NEW st \in Running, NEW r, Did(st, r), Proceed(st, r), NEW p, Kind(st, "any", p)
  PROVE  seen'.reserves[p] = seen.reserves[p]
<1>1. st.op \in Operation /\ WellSeen(seen)
  BY TagFacts DEF Inv
<1>2. seen'.reserves = IF "reserves" \in DOMAIN r THEN r.reserves ELSE seen.reserves
  BY <1>1, Remembers DEF Proceed
<1>3. "reserves" \in DOMAIN r => st.op = "read" /\ r = st.arg
  BY <1>1, WhatIsRead
<1>4. QED BY <1>2, <1>3 DEF Kind, Keeps

(* A quiet statement leaves a pool and what is remembered of it. *)
LEMMA QuietKeeps ==
  ASSUME Inv, NEW st \in Running, NEW r, Did(st, r), Proceed(st, r), NEW p \in Pool,
         Kind(st, "quiet", p), anvil.up => Still(anvil)
  PROVE  /\ seen'.reserves[p] = seen.reserves[p] /\ seen'.seeded[p] = seen.seeded[p]
         /\ PoolReserves(p)' = PoolReserves(p)
<1>1. /\ Chain /\ anvil \in Node /\ st.op \in Operation /\ WellSeen(seen)
      /\ st.op = "cast send" => st.arg \in Tx
  BY TagFacts DEF Inv, Chain, Sound
<1>2. Kind(st, "any", p) /\ Quiet(st, p)
  BY DEF Kind
<1>3. seen'.reserves[p] = seen.reserves[p]
  BY <1>2, KeepsReserves
<1>4. seen'.seeded[p] = seen.seeded[p]
  <2>1. seen'.seeded = IF "seeded" \in DOMAIN r THEN r.seeded ELSE seen.seeded
    BY <1>1, Remembers DEF Proceed
  <2>2. "seeded" \in DOMAIN r => st.op = "read" /\ r = st.arg
    BY <1>1, WhatIsRead
  <2>3. QED BY <1>2, <2>1, <2>2 DEF Quiet
<1>5. anvil'.storage.reserve[p] = anvil.storage.reserve[p]
  <2>1. CASE st.op = "set automine"
    <3>1. anvil' = [anvil EXCEPT !.automine = st.arg]
      BY <2>1 DEF Did, SetAutomineEffect
    <3>2. QED BY <1>1, <3>1 DEF Node
  <2>2. CASE st.op = "cast send"
    <3>1. (\E txs \in CastOrders(st.arg) : CastSendEffect(txs)) /\ st.needs \subseteq Services
      BY <2>2 DEF Did
    <3>2. Mild(st.arg.call, p) /\ "chain" \in st.needs
      BY <1>2, <2>2 DEF Quiet
    <3>3. anvil.up
      BY <3>1, <3>2 DEF Services
    <3>4. QED BY <1>1, <2>2, <3>1, <3>2, <3>3, CastPays
  <2>3. CASE st.op \in {"start builder", "restart builder", "read", "submit", "check"}
    <3>1. anvil' = anvil
      BY <2>3 DEF Did, SubmitEffect, worldVars
    <3>2. QED BY <3>1
  <2>4. QED BY <1>1, <1>2, <2>1, <2>2, <2>3 DEF Operation, Quiet
<1>6. QED BY <1>3, <1>4, <1>5 DEF PoolReserves
-----------------------------------------------------------------------------
(* The statement that is executed is that one. *)
Like(st, x) == st.op = x.op /\ st.needs = x.needs /\ st.arg = x.arg

(* What backrun executes next, by how far it is. *)
LEMMA BackrunNow ==
  ASSUME Inv, scenario = "backrun", NEW st \in Running
  PROVE  /\ Left = (Rows(Pool1) + Rows(Pool2) + 20) - at /\ Left \in Nat
         /\ Rows(Pool1) \in {2, 10} /\ Rows(Pool2) \in {2, 10}
         /\ at \in Nat /\ at > 0 /\ st.last = (Left = 0)
         /\ \A p \in Pool : at # Before(p) + 1 => Kind(st, "any", p)
         /\ \A p \in Pool : at = Before(p) + 1 => Like(st, ReadReserves({p}))
         /\ \A p \in Pool : Empty(p) /\ at = Before(p) + 9 => Like(st, ReadReservesAgain({p}))
         /\ \A p \in Pool : at >= Before(p) + Rows(p) /\ Left >= 4 => Kind(st, "quiet", p)
         /\ \A i \in 1..9 : Left = 9 - i => Like(st, BackrunEnd[i])
<1> DEFINE m == Main
           n == Rows(Pool1) + Rows(Pool2) + 20
<1>1. m = BackrunScenario
  BY DEF Main
<1>2. at \in 1..Len(m) /\ Like(st, m[at]) /\ st.last = (at = Len(m))
  BY RunningIsMain DEF Like
<1> HIDE DEF m
<1>3. /\ Listing(m, n) /\ Stands(m, n - 9, BackrunEnd, 9)
      /\ \A p \in Pool : m[Before(p) + 1] = ReadReserves({p})
      /\ \A p \in Pool : Empty(p) => m[Before(p) + 9] = ReadReservesAgain({p})
      /\ \A p \in Pool, k \in 1..n : k # Before(p) + 1 => Kind(m[k], "any", p)
      /\ \A p \in Pool, k \in 1..n - 4 : k >= Before(p) + Rows(p) => Kind(m[k], "quiet", p)
  BY <1>1, InvIsReady, BackrunRows
<1>4. Rows(Pool1) \in {2, 10} /\ Rows(Pool2) \in {2, 10} /\ n \in Nat
  BY DEF Rows
<1>5. Left = (Rows(Pool1) + Rows(Pool2) + 20) - at
  BY DEF Left, Finish
<1>6. Left = n - at
  BY <1>5
<1> HIDE DEF n
<1>7. at \in 1..n /\ st.last = (at = n)
  BY <1>2, <1>3 DEF Listing
<1>8. Left \in Nat /\ at \in Nat /\ at > 0 /\ st.last = (Left = 0)
  BY <1>4, <1>6, <1>7
<1>9. \A kind, p : Kind(m[at], kind, p) => Kind(st, kind, p)
  BY <1>2 DEF Like, Kind, Keeps, Quiet
<1>10. \A p \in Pool : at # Before(p) + 1 => Kind(st, "any", p)
  BY <1>3, <1>7, <1>9
<1>11. \A p \in Pool : at = Before(p) + 1 => Like(st, ReadReserves({p}))
  BY <1>2, <1>3
<1>12. \A p \in Pool : Empty(p) /\ at = Before(p) + 9 => Like(st, ReadReservesAgain({p}))
  BY <1>2, <1>3
<1>13. Left >= 4 => at \in 1..n - 4
  BY <1>4, <1>6, <1>7
<1>14. \A p \in Pool : at >= Before(p) + Rows(p) /\ Left >= 4 => Kind(st, "quiet", p)
  BY <1>3, <1>9, <1>13
<1>15. ASSUME NEW i \in 1..9, Left = 9 - i
       PROVE  Like(st, BackrunEnd[i])
  <2>1. (n - 9) + i = at
    BY <1>4, <1>6, <1>7, <1>15
  <2>2. m[(n - 9) + i] = BackrunEnd[i]
    BY <1>3 DEF Stands
  <2>3. QED BY <1>2, <2>1, <2>2
<1>16. QED BY <1>4, <1>5, <1>8, <1>10, <1>11, <1>12, <1>14, <1>15

(* Its last statements. *)
LEMMA BackrunEnding ==
  ASSUME Inv, scenario = "backrun", NEW st \in Running
  PROVE  /\ Left = 8 => st.op = "read" /\ st.arg = BeforeReadings
         /\ Left \in {6, 7} => st.op = "check"
         /\ Left = 5 => st.op = "submit" /\ st.arg = VictimPayload(Worst(Route.victimB))
         /\ Left = 4 => st.op = "read" /\ st.arg = NonceReadings
         /\ Left = 3 => st.op = "bundle" /\ st.arg = BackrunBundle /\ st.needs = {"builder", "chain"}
         /\ Left = 2 => st.op = "read" /\ st.arg = RecordReadings
         /\ Left = 1 => st.op = "read" /\ st.arg = AfterReadings
         /\ Left = 0 => st.op = "check" /\ st.arg = BackrunDone
<1> DEFINE b == BackrunEnd
<1>1. \A i \in 1..9 : Left = 9 - i => Like(st, b[i])
  BY BackrunNow
<1>2. /\ b[1] = Read({"chain"}, BeforeReadings) /\ b[2].op = "check" /\ b[3].op = "check"
      /\ b[4] = SubmitPublic(VictimPayload(Worst(Route.victimB)))
      /\ b[5] = Read({"chain"}, NonceReadings) /\ b[6] = MineBundle(BackrunBundle)
      /\ b[7] = Read({"builder"}, RecordReadings) /\ b[8] = Read({"chain"}, AfterReadings)
      /\ b[9] = Check(BackrunDone)
  BY DEF BackrunEnd, Check, Statement
<1> HIDE DEF b
<1>3. Left \in Nat
  BY BackrunNow
<1>4. /\ Left = 8 => Like(st, b[1])
      /\ Left = 7 => Like(st, b[2])
      /\ Left = 6 => Like(st, b[3])
      /\ Left = 5 => Like(st, b[4])
      /\ Left = 4 => Like(st, b[5])
      /\ Left = 3 => Like(st, b[6])
      /\ Left = 2 => Like(st, b[7])
      /\ Left = 1 => Like(st, b[8])
      /\ Left = 0 => Like(st, b[9])
  BY <1>1, <1>3
<1>5. /\ Left = 8 => st.op = "read" /\ st.arg = BeforeReadings
      /\ Left \in {6, 7} => st.op = "check"
      /\ Left = 5 => st.op = "submit" /\ st.arg = VictimPayload(Worst(Route.victimB))
      /\ Left = 4 => st.op = "read" /\ st.arg = NonceReadings
  BY <1>2, <1>4 DEF Like, Read, SubmitPublic, Statement
<1>6. Left = 3 => st.op = "bundle" /\ st.arg = BackrunBundle /\ st.needs = {"builder", "chain"}
  BY <1>2, <1>4 DEF Like, MineBundle, Statement
<1>7. /\ Left = 2 => st.op = "read" /\ st.arg = RecordReadings
      /\ Left = 1 => st.op = "read" /\ st.arg = AfterReadings
      /\ Left = 0 => st.op = "check" /\ st.arg = BackrunDone
  BY <1>2, <1>4 DEF Like, Read, Check, Statement
<1>8. QED BY <1>5, <1>6, <1>7

(* How far it is after a statement: the reserves of a pool decide how many  *)
(* are left, and they are read long before the last ones.                   *)
LEMMA BackrunMoves ==
  ASSUME Inv, scenario = "backrun", NEW st \in Running, NEW r, Did(st, r), Proceed(st, r),
         ~raised, ~st.last
  PROVE  /\ at' = at + 1 /\ scenario' = scenario /\ raised' = raised
         /\ \A p \in Pool : at # Before(p) + 1
               => seen'.reserves[p] = seen.reserves[p] /\ Empty(p)' = Empty(p) /\ Rows(p)' = Rows(p)
         /\ \A p \in Pool : at # 3 => Before(p)' = Before(p)
         /\ Left' \in Nat
         /\ Left' = Left - 1 \/ (Left' > 8 /\ Left > 8)
<1>1. at' = at + 1 /\ scenario' = scenario /\ raised' = raised
  BY DEF Proceed
<1>2. /\ Left = (Rows(Pool1) + Rows(Pool2) + 20) - at /\ Left \in Nat
      /\ Rows(Pool1) \in {2, 10} /\ Rows(Pool2) \in {2, 10}
      /\ at \in Nat /\ at > 0 /\ Left # 0
      /\ \A p \in Pool : at # Before(p) + 1 => Kind(st, "any", p)
  BY BackrunNow
<1>3. ASSUME NEW p \in Pool, at # Before(p) + 1
      PROVE  seen'.reserves[p] = seen.reserves[p] /\ Empty(p)' = Empty(p) /\ Rows(p)' = Rows(p)
  <2>1. seen'.reserves[p] = seen.reserves[p]
    BY <1>2, <1>3, KeepsReserves
  <2>2. Empty(p)' = Empty(p)
    BY <2>1 DEF Empty
  <2>3. QED BY <2>1, <2>2 DEF Rows
<1>4. /\ Pool1 \in Pool /\ Pool2 \in Pool /\ Pool1 # Pool2
      /\ Before(Pool1) = 2 /\ Before(Pool2) = Rows(Pool1) + 2
      /\ \A p \in Pool : p = Pool1 \/ p = Pool2
  BY DeploymentAssumption DEF Before
<1>5. at # 3 => Rows(Pool1)' = Rows(Pool1)
  BY <1>3, <1>4
<1>6. \A p \in Pool : at # 3 => Before(p)' = Before(p)
  BY <1>5 DEF Before
<1>7. Rows(Pool1)' \in {2, 10} /\ Rows(Pool2)' \in {2, 10}
  BY DEF Rows
<1>8. Left' = (Rows(Pool1)' + Rows(Pool2)' + 20) - at'
  BY <1>1 DEF Left, Finish
<1>9. at # Rows(Pool1) + 3 => Rows(Pool2)' = Rows(Pool2)
  BY <1>2, <1>3, <1>4
<1> DEFINE i == Rows(Pool1)
           j == Rows(Pool2)
           k == Rows(Pool1)'
           l == Rows(Pool2)'
<1> HIDE DEF i, j, k, l
<1>10. /\ i \in {2, 10} /\ j \in {2, 10} /\ k \in {2, 10} /\ l \in {2, 10}
       /\ Left = (i + j + 20) - at /\ Left' = (k + l + 20) - (at + 1)
       /\ at # 3 => k = i
       /\ at # i + 3 => l = j
  BY <1>1, <1>2, <1>5, <1>7, <1>8, <1>9 DEF i, j, k, l
<1>11. Left' \in Nat /\ (Left' = Left - 1 \/ (Left' > 8 /\ Left > 8))
  BY <1>2, <1>10
<1>12. QED BY <1>1, <1>3, <1>6, <1>11

(* What the route is computed from, after a statement. *)
LEMMA BackrunBelieves ==
  ASSUME Inv, scenario = "backrun", NEW st \in Running, NEW r, Did(st, r), Proceed(st, r),
         ~raised, ~st.last, anvil.up => Still(anvil), NEW p \in Pool,
         Left >= 3 /\ at >= Before(p) + Rows(p) => Believed(p) = PoolReserves(p)
  PROVE  (Left >= 3 /\ at >= Before(p) + Rows(p) => Believed(p) = PoolReserves(p))'
<1> SUFFICES ASSUME Left' >= 3, at' >= Before(p)' + Rows(p)'
             PROVE  Believed(p)' = PoolReserves(p)'
  OBVIOUS
<1>1. /\ at' = at + 1 /\ Left \in Nat /\ Left' \in Nat
      /\ at # Before(p) + 1
            => seen'.reserves[p] = seen.reserves[p] /\ Empty(p)' = Empty(p) /\ Rows(p)' = Rows(p)
      /\ at # 3 => Before(p)' = Before(p)
      /\ Left' = Left - 1 \/ (Left' > 8 /\ Left > 8)
  BY BackrunMoves, BackrunNow
<1>2. /\ at \in Nat /\ at > 0 /\ Rows(Pool1) \in {2, 10}
      /\ at = Before(p) + 1 => Like(st, ReadReserves({p}))
      /\ Empty(p) /\ at = Before(p) + 9 => Like(st, ReadReservesAgain({p}))
      /\ at >= Before(p) + Rows(p) /\ Left >= 4 => Kind(st, "quiet", p)
  BY BackrunNow
<1>3. /\ st.op \in Operation /\ WellSeen(seen)
      /\ seen' = [x \in DOMAIN seen |-> IF x \in DOMAIN r THEN r[x] ELSE seen[x]]
  BY TagFacts DEF Inv, Proceed
<1>4. Left >= 4
  BY <1>1
<1>5. Rows(p) = IF Empty(p) THEN 10 ELSE 2
  BY DEF Rows
<1>6. Rows(p)' = IF Empty(p)' THEN 10 ELSE 2
  BY DEF Rows
<1>7. /\ Before(p) \in Nat /\ Before(p)' \in Nat /\ Before(p) >= 2
      /\ p # Pool1 => Before(p) = Rows(Pool1) + 2 /\ Before(p)' >= 4
      /\ p = Pool1 => Before(p) = 2 /\ Before(p)' = 2
  <2>1. Rows(Pool1)' \in {2, 10}
    BY DEF Rows
  <2>2. QED BY <1>2, <2>1 DEF Before
<1>8. CASE at >= Before(p) + Rows(p)
  <2>1. Kind(st, "quiet", p) /\ Believed(p) = PoolReserves(p)
    BY <1>1, <1>2, <1>4, <1>8
  <2>2. /\ seen'.reserves[p] = seen.reserves[p] /\ seen'.seeded[p] = seen.seeded[p]
        /\ PoolReserves(p)' = PoolReserves(p)
    BY <2>1, QuietKeeps
  <2>3. Believed(p)' = Believed(p)
    BY <2>2 DEF Believed, Empty
  <2>4. QED BY <2>1, <2>2, <2>3
<1>9. CASE at = Before(p) + 1
  <2>1. Like(st, ReadReserves({p}))
    BY <1>2, <1>9
  <2>2. st.op = "read" /\ DOMAIN st.arg = {"reserves"} /\ st.arg.reserves[p] = PoolReserves(p)
    BY <2>1, ReservesKinds DEF Like
  <2>3. r = st.arg /\ anvil' = anvil
    BY <2>2 DEF Did, worldVars
  <2>4. seen'.reserves[p] = PoolReserves(p)
    BY <1>3, <2>2, <2>3, Remembers
  <2>5. PoolReserves(p)' = PoolReserves(p)
    BY <2>3 DEF PoolReserves
  <2>6. ~Empty(p)'
    <3>1. p # Pool1 => at # 3 
      BY <1>2, <1>7, <1>9
    <3>2. Before(p)' = Before(p)
      BY <1>1, <1>7, <3>1
    <3>3. QED BY <1>1, <1>2, <1>6, <1>7, <1>9, <3>2
  <2>7. QED BY <2>4, <2>5, <2>6 DEF Believed
<1>10. CASE at # Before(p) + 1 /\ at < Before(p) + Rows(p)
  <2>1. at # 3 \/ p = Pool1
    <3>1. ASSUME at = 3, p # Pool1
          PROVE  FALSE
      <4>1. Rows(p)' \in {2, 10}
        BY <1>6
      <4>2. QED BY <1>1, <1>7, <3>1, <4>1
    <3>2. QED BY <3>1
  <2>2. Before(p)' = Before(p)
    BY <1>1, <1>7, <2>1
  <2>3. at + 1 = Before(p) + Rows(p)
    BY <1>1, <1>2, <1>5, <1>7, <1>10, <2>2
  <2>4. Empty(p) /\ at = Before(p) + 9
    BY <1>2, <1>5, <1>7, <1>10, <2>3
  <2>5. Like(st, ReadReservesAgain({p}))
    BY <1>2, <2>4
  <2>6. st.op = "read" /\ DOMAIN st.arg = {"seeded"} /\ st.arg.seeded[p] = PoolReserves(p)
    BY <2>5, ReservesKinds DEF Like
  <2>7. r = st.arg /\ anvil' = anvil
    BY <2>6 DEF Did, worldVars
  <2>8. seen'.seeded[p] = PoolReserves(p)
    BY <1>3, <2>6, <2>7, Remembers
  <2>9. PoolReserves(p)' = PoolReserves(p)
    BY <2>7 DEF PoolReserves
  <2>10. Empty(p)'
    BY <1>1, <1>10, <2>4
  <2>11. QED BY <2>8, <2>9, <2>10 DEF Believed
<1>11. QED BY <1>2, <1>5, <1>7, <1>8, <1>9, <1>10

(* The route and what is paid depend on what is remembered alone. *)
LEMMA RouteStays ==
  ASSUME seen'.reserves = seen.reserves, seen'.seeded = seen.seeded, seen'.before = seen.before
  PROVE  Route' = Route /\ \A b : BackPaid(b)' = BackPaid(b)
<1>1. Route' = Route
  BY DEF Route
<1>2. QED BY <1>1 DEF BackPaid, Earned

(* A statement keeps the invariant of backrun, if it does not end it. *)
LEMMA BackrunReturns ==
  ASSUME Inv, scenario = "backrun", NEW st \in Running, NEW r, Did(st, r), Proceed(st, r),
         ~raised, ~st.last, anvil.up => Still(anvil), BackrunCore
  PROVE  BackrunCore'
<1>1. /\ Left \in Nat /\ Left' \in Nat
      /\ Left' = Left - 1 \/ (Left' > 8 /\ Left > 8)
  BY BackrunMoves, BackrunNow
<1>2. /\ st.op \in Operation /\ WellSeen(seen) /\ Chain /\ anvil \in Node
      /\ seen' = [x \in DOMAIN seen |-> IF x \in DOMAIN r THEN r[x] ELSE seen[x]]
      /\ st.op \in {"bundle", "simulate"} => st.arg \in Seq(Item)
  BY TagFacts DEF Inv, Proceed, Chain, Sound
<1>3. /\ seen'.reserves = IF "reserves" \in DOMAIN r THEN r.reserves ELSE seen.reserves
      /\ seen'.seeded = IF "seeded" \in DOMAIN r THEN r.seeded ELSE seen.seeded
      /\ seen'.before = IF "before" \in DOMAIN r THEN r.before ELSE seen.before
      /\ seen'.after = IF "after" \in DOMAIN r THEN r.after ELSE seen.after
      /\ seen'.id = IF "id" \in DOMAIN r THEN r.id ELSE seen.id
      /\ seen'.reply = IF "reply" \in DOMAIN r THEN r.reply ELSE seen.reply
  BY <1>2, Remembers
<1>4. /\ Left = 8 => st.op = "read" /\ st.arg = BeforeReadings
      /\ Left \in {6, 7} => st.op = "check"
      /\ Left = 5 => st.op = "submit" /\ st.arg = VictimPayload(Worst(Route.victimB))
      /\ Left = 4 => st.op = "read" /\ st.arg = NonceReadings
      /\ Left = 3 => st.op = "bundle" /\ st.arg = BackrunBundle /\ st.needs = {"builder", "chain"}
      /\ Left = 2 => st.op = "read" /\ st.arg = RecordReadings
      /\ Left = 1 => st.op = "read" /\ st.arg = AfterReadings
  BY BackrunEnding
<1>5. \A p \in Pool : (Left >= 3 /\ at >= Before(p) + Rows(p) => Believed(p) = PoolReserves(p))'
  <2>1. ASSUME NEW p \in Pool
        PROVE  (Left >= 3 /\ at >= Before(p) + Rows(p) => Believed(p) = PoolReserves(p))'
    <3>1. Left >= 3 /\ at >= Before(p) + Rows(p) => Believed(p) = PoolReserves(p)
      BY DEF BackrunCore
    <3>2. QED BY <3>1, BackrunBelieves
  <2>2. QED BY <2>1
<1>6. Left' \in {3, 4, 5, 6, 7} => seen'.before = anvil'.storage.balance
  <2>1. CASE Left = 8
    <3>1. r = BeforeReadings /\ anvil' = anvil
      BY <1>4, <2>1 DEF Did, worldVars
    <3>2. DOMAIN r = {"before", "nonce"} /\ r.before = anvil.storage.balance
      BY <3>1 DEF BeforeReadings
    <3>3. QED BY <1>3, <3>1, <3>2
  <2>2. CASE Left \in {4, 5, 6, 7}
    <3>1. anvil' = anvil /\ "before" \notin DOMAIN r
      <4>1. CASE Left \in {6, 7}
        BY <1>4, <4>1 DEF Did, worldVars
      <4>2. CASE Left = 5
        BY <1>4, <4>2 DEF Did, SubmitEffect
      <4>3. CASE Left = 4
        <5>1. r = NonceReadings /\ anvil' = anvil
          BY <1>4, <4>3 DEF Did, worldVars
        <5>2. DOMAIN NonceReadings = {"nonce"}
          BY DEF NonceReadings
        <5>3. QED BY <5>1, <5>2
      <4>4. QED BY <2>2, <4>1, <4>2, <4>3
    <3>2. seen.before = anvil.storage.balance
      BY <2>2 DEF BackrunCore
    <3>3. QED BY <1>3, <3>1, <3>2
  <2>3. QED BY <1>1, <2>1, <2>2
<1>7. Left' \in {3, 4} => Submitted'
  <2>1. CASE Left = 5
    <3>1. PICK q \in Request : /\ SubmitEffect(q, VictimPayload(Worst(Route.victimB)))
                               /\ r = [id |-> q, seqNum |-> lastSeqNum']
      BY <1>4, <2>1 DEF Did
    <3>2. seen'.id = q
      BY <1>3, <3>1
    <3>3. payload'[q] = VictimPayload(Worst(Route.victimB))
      BY <1>2, <3>1 DEF SubmitEffect, Chain
    <3>4. Worst(Route.victimB) \in Int
      <4>1. Route.victimB \in Int
        BY <1>2, RouteIsInts
      <4>2. QED BY <4>1, QuotientIsInt DEF Worst
    <3>5. /\ payload'[q].from = Victim
          /\ payload'[q].call = <<"swapAForB", Pool1, SwapAmount, Worst(Route.victimB)>>
      BY <3>3 DEF VictimPayload, TransactionPayload
    <3>6. QED BY <3>2, <3>4, <3>5 DEF Submitted
  <2>2. CASE Left = 4
    <3>1. UNCHANGED worldVars /\ "id" \notin DOMAIN r
      <4>1. UNCHANGED worldVars /\ r = NonceReadings
        BY <1>4, <2>2 DEF Did
      <4>2. DOMAIN NonceReadings = {"nonce"}
        BY DEF NonceReadings
      <4>3. QED BY <4>1, <4>2
    <3>2. seen'.id = seen.id /\ payload' = payload /\ status' = status
      BY <1>3, <3>1 DEF worldVars, mempoolVars
    <3>3. Submitted
      BY <2>2 DEF BackrunCore
    <3>4. QED BY <3>2, <3>3 DEF Submitted
  <2>3. QED BY <1>1, <2>1, <2>2
<1>8. ASSUME Left \in {1, 2}
      PROVE  /\ anvil' = anvil /\ \A b : BackPaid(b)' = BackPaid(b)
             /\ Reported' => BackPaid(anvil.storage.balance)
  <2>1. /\ UNCHANGED worldVars
        /\ DOMAIN r \cap {"reserves", "seeded", "before", "reply"} = {}
    <3>1. UNCHANGED worldVars /\ (r = RecordReadings \/ r = AfterReadings)
      BY <1>4, <1>8 DEF Did
    <3>2. DOMAIN RecordReadings = {"record"} /\ DOMAIN AfterReadings = {"after"}
      BY DEF RecordReadings, AfterReadings
    <3>3. QED BY <3>1, <3>2
  <2>2. /\ seen'.reserves = seen.reserves /\ seen'.seeded = seen.seeded
        /\ seen'.before = seen.before /\ seen'.reply = seen.reply
    BY <1>3, <2>1
  <2>3. \A b : BackPaid(b)' = BackPaid(b)
    BY <2>2, RouteStays
  <2>4. Reported => BackPaid(anvil.storage.balance)
    BY <1>8 DEF BackrunCore
  <2>5. QED BY <2>1, <2>2, <2>3, <2>4 DEF worldVars, Reported
<1>9. Left' \in {0, 1, 2} /\ Reported' => BackPaid(anvil.storage.balance)'
  <2>1. CASE Left \in {1, 2}
    BY <1>8, <2>1
  <2>2. CASE Left = 3
    <3> SUFFICES ASSUME Reported'
                 PROVE  BackPaid(anvil.storage.balance)'
      OBVIOUS
    <3>1. /\ st.arg = BackrunBundle /\ BundleFound(st.arg) /\ st.arg \in Seq(Item)
          /\ MineBundleEffect(st.arg, BundleBlock(st.arg))
          /\ r = [reply |-> BundleReply(st.arg, BundleBlock(st.arg))] /\ st.needs \subseteq Services
          /\ st.needs = {"builder", "chain"}
      BY <1>2, <1>4, <2>2 DEF Did
    <3>2. Still(anvil)
      BY <3>1 DEF Services
    <3>3. anvil'.storage = BundleBlock(st.arg).storage
      BY <1>2, <3>1, BundleMines
    <3>4. BundleReply(st.arg, BundleBlock(st.arg)).status = "included"
      BY <1>3, <3>1 DEF Reported
    <3>5. Submitted /\ seen.before = anvil.storage.balance
      BY <2>2 DEF BackrunCore
    <3>6. Believed(Pool1) = PoolReserves(Pool1) /\ Believed(Pool2) = PoolReserves(Pool2)
      <4>1. at >= Before(Pool1) + Rows(Pool1) /\ at >= Before(Pool2) + Rows(Pool2)
        <5>1. /\ Left = (Rows(Pool1) + Rows(Pool2) + 20) - at /\ at \in Nat
              /\ Rows(Pool1) \in {2, 10} /\ Rows(Pool2) \in {2, 10}
          BY BackrunNow
        <5>2. Before(Pool1) = 2 /\ Before(Pool2) = Rows(Pool1) + 2
          BY DeploymentAssumption DEF Before
        <5>3. QED BY <2>2, <5>1, <5>2
      <4>2. QED BY <2>2, <4>1, Cast DEF BackrunCore
    <3>7. BackPaid(BundleBlock(st.arg).storage.balance)
      BY <1>2, <3>1, <3>2, <3>4, <3>5, <3>6, BackBundlePays DEF BackrunBundle
    <3>8. /\ seen'.reserves = seen.reserves /\ seen'.seeded = seen.seeded /\ seen'.before = seen.before
      BY <1>3, <3>1
    <3>9. \A b : BackPaid(b)' = BackPaid(b)
      BY <3>8, RouteStays
    <3>10. QED BY <3>3, <3>7, <3>9
  <2>3. QED BY <1>1, <2>1, <2>2
<1>10. Left' = 0 /\ Reported' => BackPaid(seen.after)'
  <2>1. CASE Left = 1
    <3>1. r = AfterReadings
      BY <1>4, <2>1 DEF Did
    <3>2. seen'.after = anvil.storage.balance
      BY <1>3, <3>1 DEF AfterReadings
    <3>3. QED BY <1>8, <2>1, <3>2
  <2>2. QED BY <1>1, <2>1
<1>11. QED BY <1>5, <1>6, <1>7, <1>9, <1>10 DEF BackrunCore
-----------------------------------------------------------------------------
(* What victim-swap checks in the end. *)
SwapDone ==
    /\ seen.reply.status = "included"
    /\ seen.reply.txs[1] = "included"
    /\ seen.record = "included"
    /\ Gained(TokenA, Victim) = -SwapAmount
    /\ Gained(TokenB, Victim) >= VictimMinimum

(* What victim-swap executes next, by how far it is. *)
LEMMA SwapNow ==
  ASSUME Inv, scenario = "victim-swap", NEW st \in Running
  PROVE  /\ Left = (IF Positive(Pool1) THEN 13 ELSE 20) - at
         /\ Left \in Nat /\ at \in Nat /\ at > 0 /\ st.last = (Left = 0)
         /\ at # 3 => Kind(st, "any", Pool1)
         /\ Left = 7 => st.op = "cast send"
         /\ \A i \in 1..6 : Left = 6 - i => Like(st, SwapEnd(VictimMinimum, SwapDone)[i])
<1> DEFINE m == Main
           n == IF Positive(Pool1) THEN 13 ELSE 20
           end == SwapEnd(VictimMinimum, SwapDone)
<1>1. m = SwapWith(VictimMinimum, SwapDone)
  BY DEF Main, VictimSwap, SwapDone
<1>2. at \in 1..Len(m) /\ Like(st, m[at]) /\ st.last = (at = Len(m))
  BY RunningIsMain DEF Like
<1> HIDE DEF m
<1>3. /\ Listing(m, n) /\ Stands(m, n - 6, end, 6) /\ Sends(m, n - 7)
      /\ \A p \in Pool, k \in 1..n : k # 3 => Kind(m[k], "any", p)
  BY <1>1, InvIsReady, SwapRows
<1>4. n \in {13, 20} /\ Pool1 \in Pool
  BY Cast
<1>5. Left = n - at
  BY DEF Left, Finish
<1> HIDE DEF n, end
<1>6. at \in 1..n /\ st.last = (at = n)
  BY <1>2, <1>3 DEF Listing
<1>7. Left \in Nat /\ at \in Nat /\ at > 0 /\ st.last = (Left = 0)
  BY <1>4, <1>5, <1>6
<1>8. at # 3 => Kind(st, "any", Pool1)
  <2>1. at # 3 => Kind(m[at], "any", Pool1)
    BY <1>3, <1>4, <1>6
  <2>2. QED BY <1>2, <2>1 DEF Like, Kind, Keeps, Quiet
<1>9. Left = 7 => st.op = "cast send"
  <2>1. Left = 7 => at = n - 7
    BY <1>4, <1>5, <1>6
  <2>2. QED BY <1>2, <1>3, <2>1 DEF Like, Sends
<1>10. ASSUME NEW i \in 1..6, Left = 6 - i
       PROVE  Like(st, end[i])
  <2>1. (n - 6) + i = at
    BY <1>4, <1>5, <1>6, <1>10
  <2>2. m[(n - 6) + i] = end[i]
    BY <1>3 DEF Stands
  <2>3. QED BY <1>2, <2>1, <2>2
<1>11. QED BY <1>5, <1>7, <1>8, <1>9, <1>10 DEF n, end

(* Its last statements. *)
LEMMA SwapEnding ==
  ASSUME Inv, scenario = "victim-swap", NEW st \in Running
  PROVE  /\ Left = 5 => st.op = "read" /\ st.arg = QuoteReadings
         /\ Left = 4 => st.op = "submit" /\ st.arg = VictimPayload(VictimMinimum)
         /\ Left = 3 => /\ st.op = "bundle" /\ st.arg = <<Reference(seen.id)>>
                        /\ st.needs = {"builder", "chain"}
         /\ Left = 2 => st.op = "read" /\ st.arg = RecordReadings
         /\ Left = 1 => st.op = "read" /\ st.arg = AfterReadings
         /\ Left = 0 => st.op = "check" /\ st.arg = SwapDone
<1> DEFINE b == SwapEnd(VictimMinimum, SwapDone)
<1>1. \A i \in 1..6 : Left = 6 - i => Like(st, b[i])
  BY SwapNow
<1>2. /\ b[1] = Read({"chain"}, QuoteReadings) /\ b[2] = SubmitPublic(VictimPayload(VictimMinimum))
      /\ b[3] = MineBundle(<<Reference(seen.id)>>)
      /\ b[4] = Read({"builder"}, RecordReadings) /\ b[5] = Read({"chain"}, AfterReadings)
      /\ b[6] = Check(SwapDone)
  BY DEF SwapEnd
<1> HIDE DEF b
<1>3. Left \in Nat
  BY SwapNow
<1>4. /\ Left = 5 => Like(st, b[1])
      /\ Left = 4 => Like(st, b[2])
      /\ Left = 3 => Like(st, b[3])
      /\ Left = 2 => Like(st, b[4])
      /\ Left = 1 => Like(st, b[5])
      /\ Left = 0 => Like(st, b[6])
  BY <1>1, <1>3
<1>5. /\ Left = 5 => st.op = "read" /\ st.arg = QuoteReadings
      /\ Left = 4 => st.op = "submit" /\ st.arg = VictimPayload(VictimMinimum)
  BY <1>2, <1>4 DEF Like, Read, SubmitPublic, Statement
<1>6. Left = 3 => /\ st.op = "bundle" /\ st.arg = <<Reference(seen.id)>>
                  /\ st.needs = {"builder", "chain"}
  BY <1>2, <1>4 DEF Like, MineBundle, Statement
<1>7. /\ Left = 2 => st.op = "read" /\ st.arg = RecordReadings
      /\ Left = 1 => st.op = "read" /\ st.arg = AfterReadings
      /\ Left = 0 => st.op = "check" /\ st.arg = SwapDone
  BY <1>2, <1>4 DEF Like, Read, Check, Statement
<1>8. QED BY <1>5, <1>6, <1>7

(* How far it is after a statement. *)
LEMMA SwapMoves ==
  ASSUME Inv, scenario = "victim-swap", NEW st \in Running, NEW r, Did(st, r), Proceed(st, r),
         ~raised, ~st.last
  PROVE  /\ at' = at + 1 /\ scenario' = scenario /\ raised' = raised
         /\ Left' \in Nat /\ (Left' = Left - 1 \/ (Left' > 8 /\ Left > 8))
<1>1. at' = at + 1 /\ scenario' = scenario /\ raised' = raised
  BY DEF Proceed
<1>2. /\ Left = (IF Positive(Pool1) THEN 13 ELSE 20) - at
      /\ Left \in Nat /\ at \in Nat /\ at > 0 /\ Left # 0
      /\ at # 3 => Kind(st, "any", Pool1)
  BY SwapNow
<1>3. at # 3 => Positive(Pool1)' = Positive(Pool1)
  <2>1. at # 3 => seen'.reserves[Pool1] = seen.reserves[Pool1]
    BY <1>2, KeepsReserves
  <2>2. QED BY <2>1 DEF Positive
<1>4. Left' = (IF Positive(Pool1)' THEN 13 ELSE 20) - at'
  BY <1>1 DEF Left, Finish
<1>5. QED BY <1>1, <1>2, <1>3, <1>4

(* A statement keeps the invariant of victim-swap, if it does not end it. *)
LEMMA SwapReturns ==
  ASSUME Inv, scenario = "victim-swap", NEW st \in Running, NEW r, Did(st, r), Proceed(st, r),
         ~raised, ~st.last, Left <= 6 /\ anvil.up => Still(anvil), SwapCore
  PROVE  SwapCore' /\ (Left' <= 6 /\ anvil'.up => Still(anvil'))
<1>1. /\ Left \in Nat /\ Left' \in Nat
      /\ Left' = Left - 1 \/ (Left' > 8 /\ Left > 8)
  BY SwapMoves, SwapNow
<1>2. /\ st.op \in Operation /\ WellSeen(seen) /\ Chain /\ anvil \in Node
      /\ seen' = [x \in DOMAIN seen |-> IF x \in DOMAIN r THEN r[x] ELSE seen[x]]
      /\ st.op \in {"bundle", "simulate"} => st.arg \in Seq(Item)
      /\ st.op = "cast send" => st.arg \in Tx
  BY TagFacts DEF Inv, Proceed, Chain, Sound
<1>3. /\ seen'.before = IF "before" \in DOMAIN r THEN r.before ELSE seen.before
      /\ seen'.after = IF "after" \in DOMAIN r THEN r.after ELSE seen.after
      /\ seen'.quote = IF "quote" \in DOMAIN r THEN r.quote ELSE seen.quote
      /\ seen'.id = IF "id" \in DOMAIN r THEN r.id ELSE seen.id
      /\ seen'.reply = IF "reply" \in DOMAIN r THEN r.reply ELSE seen.reply
  BY <1>2, Remembers
<1>4. /\ Left = 5 => st.op = "read" /\ st.arg = QuoteReadings
      /\ Left = 4 => st.op = "submit" /\ st.arg = VictimPayload(VictimMinimum)
      /\ Left = 3 => /\ st.op = "bundle" /\ st.arg = <<Reference(seen.id)>>
                     /\ st.needs = {"builder", "chain"}
      /\ Left = 2 => st.op = "read" /\ st.arg = RecordReadings
      /\ Left = 1 => st.op = "read" /\ st.arg = AfterReadings
  BY SwapEnding
<1>5. Left' \in {3, 4} => /\ seen'.before = anvil'.storage.balance
                          /\ seen'.quote = QuoteAForB(Pool1, SwapAmount)'
  <2>1. CASE Left = 5
    <3>1. r = QuoteReadings /\ anvil' = anvil
      BY <1>4, <2>1 DEF Did, worldVars
    <3>2. /\ DOMAIN QuoteReadings = {"quote", "nonce", "before"}
          /\ QuoteReadings.before = anvil.storage.balance
          /\ QuoteReadings.quote = QuoteAForB(Pool1, SwapAmount)
      BY DEF QuoteReadings
    <3>3. QuoteAForB(Pool1, SwapAmount)' = QuoteAForB(Pool1, SwapAmount)
      BY <3>1 DEF QuoteAForB
    <3>4. QED BY <1>3, <3>1, <3>2, <3>3
  <2>2. CASE Left = 4
    <3>1. anvil' = anvil /\ DOMAIN r = {"id", "seqNum"}
      BY <1>4, <2>2 DEF Did, SubmitEffect
    <3>2. /\ seen.before = anvil.storage.balance
          /\ seen.quote = QuoteAForB(Pool1, SwapAmount)
      BY <2>2 DEF SwapCore
    <3>3. QuoteAForB(Pool1, SwapAmount)' = QuoteAForB(Pool1, SwapAmount)
      BY <3>1 DEF QuoteAForB
    <3>4. QED BY <1>3, <3>1, <3>2, <3>3
  <2>3. QED BY <1>1, <2>1, <2>2
<1>6. Left' = 3 => Submitted'
  <2>1. CASE Left = 4
    <3>1. PICK q \in Request : /\ SubmitEffect(q, VictimPayload(VictimMinimum))
                               /\ r = [id |-> q, seqNum |-> lastSeqNum']
      BY <1>4, <2>1 DEF Did
    <3>2. seen'.id = q
      BY <1>3, <3>1
    <3>3. payload'[q] = VictimPayload(VictimMinimum)
      BY <1>2, <3>1 DEF SubmitEffect, Chain
    <3>4. VictimMinimum \in Int
      <4>1. seen.quote \in Int
        BY <1>2 DEF WellSeen
      <4>2. QED BY <4>1, QuotientIsInt DEF VictimMinimum
    <3>5. /\ payload'[q].from = Victim
          /\ payload'[q].call = <<"swapAForB", Pool1, SwapAmount, VictimMinimum>>
      BY <3>3 DEF VictimPayload, TransactionPayload
    <3>6. QED BY <3>2, <3>4, <3>5 DEF Submitted
  <2>2. QED BY <1>1, <2>1
<1>7. ASSUME Left \in {1, 2}
      PROVE  /\ anvil' = anvil /\ \A b : SwapPaid(b)' = SwapPaid(b)
             /\ Reported' => SwapPaid(anvil.storage.balance)
  <2>1. /\ UNCHANGED worldVars
        /\ DOMAIN r \cap {"quote", "before", "reply"} = {}
    <3>1. UNCHANGED worldVars /\ (r = RecordReadings \/ r = AfterReadings)
      BY <1>4, <1>7 DEF Did
    <3>2. DOMAIN RecordReadings = {"record"} /\ DOMAIN AfterReadings = {"after"}
      BY DEF RecordReadings, AfterReadings
    <3>3. QED BY <3>1, <3>2
  <2>2. seen'.quote = seen.quote /\ seen'.before = seen.before /\ seen'.reply = seen.reply
    BY <1>3, <2>1
  <2>3. \A b : SwapPaid(b)' = SwapPaid(b)
    BY <2>2 DEF SwapPaid, Earned
  <2>4. Reported => SwapPaid(anvil.storage.balance)
    BY <1>7 DEF SwapCore
  <2>5. QED BY <2>1, <2>2, <2>3, <2>4 DEF worldVars, Reported
<1>8. Left' \in {0, 1, 2} /\ Reported' => SwapPaid(anvil.storage.balance)'
  <2>1. CASE Left \in {1, 2}
    BY <1>7, <2>1
  <2>2. CASE Left = 3
    <3> SUFFICES ASSUME Reported'
                 PROVE  SwapPaid(anvil.storage.balance)'
      OBVIOUS
    <3>1. /\ st.arg = <<Reference(seen.id)>> /\ BundleFound(st.arg) /\ st.arg \in Seq(Item)
          /\ MineBundleEffect(st.arg, BundleBlock(st.arg))
          /\ r = [reply |-> BundleReply(st.arg, BundleBlock(st.arg))] /\ st.needs \subseteq Services
          /\ st.needs = {"builder", "chain"}
      BY <1>2, <1>4, <2>2 DEF Did
    <3>2. Still(anvil)
      BY <2>2, <3>1 DEF Services
    <3>3. anvil'.storage = BundleBlock(st.arg).storage
      BY <1>2, <3>1, BundleMines
    <3>4. BundleReply(st.arg, BundleBlock(st.arg)).status = "included"
      BY <1>3, <3>1 DEF Reported
    <3>5. /\ Submitted /\ seen.before = anvil.storage.balance
          /\ seen.quote = QuoteAForB(Pool1, SwapAmount)
      BY <2>2 DEF SwapCore
    <3>6. BundleBlock(st.arg).storage.balance[TokenB][Victim]
              - anvil.storage.balance[TokenB][Victim] = QuoteAForB(Pool1, SwapAmount)
      BY <1>2, <3>1, <3>2, <3>4, <3>5, SwapBundlePays
    <3>7. seen'.quote = seen.quote /\ seen'.before = seen.before
      BY <1>3, <3>1
    <3>8. QED BY <3>3, <3>5, <3>6, <3>7 DEF SwapPaid, Earned
  <2>3. QED BY <1>1, <2>1, <2>2
<1>9. Left' = 0 /\ Reported' => SwapPaid(seen.after)'
  <2>1. CASE Left = 1
    <3>1. r = AfterReadings
      BY <1>4, <2>1 DEF Did
    <3>2. seen'.after = anvil.storage.balance
      BY <1>3, <3>1 DEF AfterReadings
    <3>3. QED BY <1>7, <2>1, <3>2
  <2>2. QED BY <1>1, <2>1
<1>10. ASSUME Left' <= 6, anvil'.up
       PROVE  Still(anvil')
  <2>1. CASE Left = 7
    <3>1. st.op = "cast send"
      BY <2>1, SwapNow
    <3>2. anvil'.pool = <<>>
      BY <1>2, <3>1, CastPays DEF Did
    <3>3. QED BY <3>2 DEF Still
  <2>2. CASE Left <= 6
    <3>1. anvil.up => Still(anvil)
      BY <2>2
    <3>2. QED BY <1>10, <3>1, StillKept
  <2>3. QED BY <1>1, <1>10, <2>1, <2>2
<1>11. QED BY <1>5, <1>6, <1>8, <1>9, <1>10 DEF SwapCore
-----------------------------------------------------------------------------
(***************************************************************************)
(* The invariant holds along a run, whatever else happens.                  *)
(***************************************************************************)

(* A run that completes has been paid. *)
LEMMA CompletionPays ==
  ASSUME Inv, Core, NEW st \in Running, NEW r, Did(st, r), Proceed(st, r), ~raised, st.last,
         ~interfered
  PROVE  QuotedIsPaid'
<1>1. at > 0 /\ WellSeen(seen)
  BY RunningFacts DEF Inv
<1>2. verdict'.scenario = scenario /\ verdict'.fit = fit
  BY DEF Proceed, Ends
<1>3. DOMAIN r = {}
         => /\ seen'.reserves = seen.reserves /\ seen'.seeded = seen.seeded
            /\ seen'.before = seen.before /\ seen'.after = seen.after /\ seen'.quote = seen.quote
  BY <1>1, Remembers DEF Proceed
<1>4. st.op = "check" => st.arg /\ DOMAIN r = {}
  BY DEF Did
<1>5. ASSUME scenario = "backrun", fit
      PROVE  (Gained(TokenB, Victim) = Route.victimB /\ Gained(TokenB, Backrun) = Route.profit)'
  <2>1. Left = 0
    BY <1>5, BackrunNow
  <2>2. BackrunDone /\ DOMAIN r = {}
    <3>1. st.op = "check" /\ st.arg = BackrunDone
      BY <1>5, <2>1, BackrunEnding
    <3>2. QED BY <1>4, <3>1
  <2>3. BackrunCore /\ Reported
    BY <1>1, <1>5, <2>2 DEF Core, BackrunDone, Reported
  <2>4. BackPaid(seen.after)
    BY <2>1, <2>3 DEF BackrunCore
  <2>5. Route' = Route
    BY <1>3, <2>2, RouteStays
  <2>6. QED BY <1>3, <2>2, <2>4, <2>5 DEF BackPaid, Earned, Gained
<1>6. ASSUME scenario = "victim-swap"
      PROVE  (Gained(TokenB, Victim) = seen.quote)'
  <2>1. Left = 0
    BY <1>6, SwapNow
  <2>2. SwapDone /\ DOMAIN r = {}
    <3>1. st.op = "check" /\ st.arg = SwapDone
      BY <1>6, <2>1, SwapEnding
    <3>2. QED BY <1>4, <3>1
  <2>3. SwapCore /\ Reported
    BY <1>1, <1>6, <2>2 DEF Core, SwapDone, Reported
  <2>4. SwapPaid(seen.after)
    BY <2>1, <2>3 DEF SwapCore
  <2>5. QED BY <1>3, <2>2, <2>4 DEF SwapPaid, Earned, Gained
<1>7. QED BY <1>2, <1>5, <1>6 DEF QuotedIsPaid

(* A run that goes on, or ends with an exception, has nothing to be paid. *)
LEMMA NothingToPay ==
  ASSUME at' # 0 \/ verdict'.outcome # "complete"
  PROVE  QuotedIsPaid'
  BY DEF QuotedIsPaid

(* A statement returns. *)
LEMMA CoreReturns ==
  ASSUME Inv, Core, NEW st \in Running, NEW r, Did(st, r), Proceed(st, r), fit' = fit,
         interfered' = interfered
  PROVE  Core' /\ QuotedIsPaid'
<1>1. at > 0 /\ at \in Nat /\ raised \in BOOLEAN
  BY RunningFacts DEF Inv, Confined
<1>2. CASE raised
  <2>1. at' = 0 /\ verdict'.outcome = "failed"
    BY <1>2 DEF Proceed, Ends
  <2>2. QED BY <2>1, NothingToPay DEF Core
<1>3. CASE ~raised /\ st.last
  <2>1. at' = 0
    BY <1>3 DEF Proceed, Ends
  <2>2. ~interfered => QuotedIsPaid'
    BY <1>3, CompletionPays
  <2>3. interfered => QuotedIsPaid'
    BY DEF QuotedIsPaid
  <2>4. QED BY <2>1, <2>2, <2>3 DEF Core
<1>4. CASE ~raised /\ ~st.last
  <2>1. at' = at + 1 /\ scenario' = scenario /\ raised' = raised
    BY <1>4 DEF Proceed
  <2>2. QuotedIsPaid'
    BY <1>1, <2>1, NothingToPay
  <2>3. ASSUME scenario = "backrun", fit, ~interfered
        PROVE  BackrunCore' /\ (anvil'.up => Still(anvil'))
    <3>1. BackrunCore /\ (anvil.up => Still(anvil))
      BY <1>1, <1>4, <2>3 DEF Core, Trusted
    <3>2. BackrunCore'
      BY <1>4, <2>3, <3>1, BackrunReturns
    <3>3. QED BY <3>1, <3>2, StillKept
  <2>4. ASSUME scenario = "victim-swap", ~interfered
        PROVE  SwapCore' /\ (Left' <= 6 /\ anvil'.up => Still(anvil'))
    <3>1. SwapCore /\ (Left <= 6 /\ anvil.up => Still(anvil))
      BY <1>1, <1>4, <2>4 DEF Core, Trusted
    <3>2. QED BY <1>4, <2>4, <3>1, SwapReturns
  <2>5. Core'
    BY <2>1, <2>3, <2>4 DEF Core, Trusted
  <2>6. QED BY <2>2, <2>5
<1>5. QED BY <1>1, <1>2, <1>3, <1>4

(* A statement raises. *)
LEMMA CoreRaises ==
  ASSUME Inv, NEW st \in Running, NEW hit, Raise(st, hit)
  PROVE  Core' /\ QuotedIsPaid'
<1>1. at > 0 /\ at \in Nat /\ (st.try => st.finally \in at + 1..Len(Shape))
  BY RunningFacts DEF Inv, Confined
<1>2. CASE st.try
  <2>1. at' = st.finally /\ raised' = TRUE
    BY <1>2 DEF Raise
  <2>2. at' # 0
    BY <1>1, <1>2, <2>1
  <2>3. QED BY <2>1, <2>2, NothingToPay DEF Core
<1>3. CASE ~st.try
  <2>1. at' = 0 /\ verdict'.outcome = "failed"
    BY <1>3 DEF Raise, Ends
  <2>2. QED BY <2>1, NothingToPay DEF Core
<1>4. QED BY <1>2, <1>3

(* A run begins. *)
LEMMA CoreBegins ==
  ASSUME Inv, NEW name \in Scenario, Begin(name)
  PROVE  Core' /\ QuotedIsPaid'
<1>1. /\ scenario' = name /\ at' = 1 /\ seen' = NothingSeen /\ fit' = Fit(name) /\ anvil' = anvil
  BY DEF Begin, worldVars
<1>2. QuotedIsPaid'
  BY <1>1, NothingToPay
<1>3. Pool1 \in Pool /\ Pool2 \in Pool /\ Pool1 # Pool2 /\ \A p \in Pool : p = Pool1 \/ p = Pool2
  BY DeploymentAssumption
<1>4. \A p \in Pool : seen'.reserves[p] = <<0, 0>>
  BY <1>1 DEF NothingSeen
<1>5. \A p \in Pool : Rows(p)' = 10
  BY <1>4 DEF Rows, Empty
<1>6. \A p \in Pool : Before(p)' \in {2, 12}
  BY <1>3, <1>5 DEF Before
<1>7. name = "backrun" => Left' = 39
  <2>1. ASSUME name = "backrun"
        PROVE  Left' = (Rows(Pool1)' + Rows(Pool2)' + 20) - at'
    BY <1>1, <2>1 DEF Left, Finish
  <2>2. QED BY <1>1, <1>3, <1>5, <2>1
<1>8. name = "victim-swap" => Left' \in {12, 19}
  BY <1>1 DEF Left, Finish
<1>9. ASSUME name = "victim-swap"
      PROVE  SwapCore' /\ ~(Left' <= 6)
  BY <1>8, <1>9 DEF SwapCore
<1>10. ASSUME name = "backrun", fit'
       PROVE  BackrunCore' /\ (anvil'.up => Still(anvil'))
  <2>1. BackrunCore'
    BY <1>1, <1>5, <1>6, <1>7, <1>10 DEF BackrunCore
  <2>2. anvil'.up => anvil'.pool = <<>>
    BY <1>1, <1>10 DEF Fit
  <2>3. QED BY <2>1, <2>2 DEF Still
<1>11. Core'
  BY <1>1, <1>9, <1>10 DEF Core, Trusted
<1>12. QED BY <1>2, <1>11

(* What happens outside of the run leaves the accounts what they hold, as   *)
(* long as nothing but idle transactions is in Anvil's pool, and the record *)
(* of the victim what it is.                                                *)
LEMMA CoreDepends ==
  ASSUME Core, QuotedIsPaid, UNCHANGED runVars, fit' = fit, interfered' = interfered,
         (anvil.up => Still(anvil))
            => Alike(anvil'.storage, anvil.storage) /\ (anvil'.up => Still(anvil')),
         Submitted => Submitted'
  PROVE  Core' /\ QuotedIsPaid'
<1>1. /\ scenario' = scenario /\ at' = at /\ raised' = raised /\ verdict' = verdict /\ seen' = seen
  BY DEF runVars
<1>2. Route' = Route
  BY <1>1, RouteStays
<1>3. QuotedIsPaid'
  BY <1>1, <1>2 DEF QuotedIsPaid, Gained
<1>4. Left' = Left /\ (Trusted' <=> Trusted) /\ (Reported' <=> Reported)
  BY <1>1 DEF Left, Finish, Rows, Empty, Positive, Trusted, Reported
<1>5. \A p : Rows(p)' = Rows(p) /\ Before(p)' = Before(p) /\ Believed(p)' = Believed(p)
  BY <1>1 DEF Rows, Before, Believed, Empty
<1>6. SUFFICES ASSUME at > 0, ~raised, ~interfered
               PROVE  Core'
  BY <1>1, <1>3 DEF Core
<1>7. Trusted => Alike(anvil'.storage, anvil.storage) /\ (anvil'.up => Still(anvil'))
  BY <1>6 DEF Core
<1>8. ASSUME scenario = "victim-swap"
      PROVE  SwapCore'
  <2>1. SwapCore
    BY <1>6, <1>8 DEF Core
  <2>2. CASE Left \in {0, 1, 2, 3, 4}
    <3>1. Trusted
      BY <1>8, <2>2 DEF Trusted
    <3>2. /\ anvil'.storage.balance = anvil.storage.balance
          /\ anvil'.storage.reserve = anvil.storage.reserve
      BY <1>7, <3>1 DEF Alike
    <3>3. QuoteAForB(Pool1, SwapAmount)' = QuoteAForB(Pool1, SwapAmount)
      BY <3>2 DEF QuoteAForB
    <3>4. SwapPaid(anvil.storage.balance)' = SwapPaid(anvil.storage.balance)
          /\ SwapPaid(seen.after)' = SwapPaid(seen.after)
      BY <1>1, <3>2 DEF SwapPaid, Earned
    <3>5. QED BY <1>1, <1>4, <2>1, <3>2, <3>3, <3>4 DEF SwapCore
  <2>3. CASE Left \notin {0, 1, 2, 3, 4}
    BY <1>4, <2>3 DEF SwapCore
  <2>4. QED BY <2>2, <2>3
<1>9. ASSUME scenario = "backrun", fit
      PROVE  BackrunCore'
  <2>1. BackrunCore
    BY <1>6, <1>9 DEF Core
  <2>2. Trusted
    BY <1>9 DEF Trusted
  <2>3. /\ anvil'.storage.balance = anvil.storage.balance
        /\ anvil'.storage.reserve = anvil.storage.reserve
    BY <1>7, <2>2 DEF Alike
  <2>4. \A p : PoolReserves(p)' = PoolReserves(p)
    BY <2>3 DEF PoolReserves
  <2>5. BackPaid(anvil.storage.balance)' = BackPaid(anvil.storage.balance)
        /\ BackPaid(seen.after)' = BackPaid(seen.after)
    BY <1>1, <1>2, <2>3 DEF BackPaid, Earned
  <2>6. QED BY <1>1, <1>4, <1>5, <2>1, <2>3, <2>4, <2>5 DEF BackrunCore
<1>10. QED BY <1>1, <1>4, <1>7, <1>8, <1>9 DEF Core

(* The record of the victim stays what it is, unless it is settled. *)
LEMMA OthersSubmit ==
  ASSUME Chain, Submitted, OtherSubmits \/ OtherRestarts, seen' = seen
  PROVE  Submitted'
<1>1. status \in [Request -> {"absent", "pending"} \cup Terminal] /\ payload \in [Request -> Tx]
  BY DEF Chain, MempoolTypeOK
<1>2. CASE OtherSubmits
  <2>1. PICK q \in Request : SubmitEffect(q, NoTx)
    BY <1>2 DEF OtherSubmits
  <2>2. /\ q # seen.id /\ status' = [status EXCEPT ![q] = "pending"]
        /\ payload' = [payload EXCEPT ![q] = NoTx]
    BY <2>1 DEF SubmitEffect, AddTransaction
  <2>3. seen.id \in Request
    BY DEF Submitted
  <2>4. status'[seen.id] = status[seen.id] /\ payload'[seen.id] = payload[seen.id]
    BY <1>1, <2>2, <2>3
  <2>5. QED BY <2>4 DEF Submitted
<1>3. CASE OtherRestarts
  <2>1. status' = [q \in Request |-> "absent"]
    BY <1>3 DEF OtherRestarts, RestartEffect, ForgetMempool
  <2>2. seen'.id \in Request
    BY DEF Submitted
  <2>3. status'[seen'.id] # "pending"
    BY <2>1, <2>2
  <2>4. QED BY <2>2, <2>3 DEF Submitted
<1>4. QED BY <1>2, <1>3

(* What happens outside of the run. *)
LEMMA CoreOutside ==
  ASSUME Inv, Core, QuotedIsPaid,
         \/ BuilderStops \/ AnvilStops \/ OtherSubmits \/ OtherRestarts \/ OtherSends \/ UNCHANGED vars
  PROVE  Core' /\ QuotedIsPaid'
<1>1. UNCHANGED runVars /\ fit' = fit /\ interfered' = interfered /\ seen' = seen
  BY DEF BuilderStops, AnvilStops, OtherSubmits, OtherRestarts, OtherSends, Fault, Incident,
         vars, pastVars, runVars
<1>2. Chain /\ anvil \in Node
  BY DEF Inv, Chain, Sound
<1>3. ASSUME anvil.up => Still(anvil)
      PROVE  Alike(anvil'.storage, anvil.storage) /\ (anvil'.up => Still(anvil'))
  <2>1. CASE OtherSends
    <3>1. anvil.up
      BY <2>1 DEF OtherSends
    <3>2. QED BY <1>2, <1>3, <2>1, <3>1, OthersPayNothing
  <2>2. CASE AnvilStops
    <3>1. anvil' = [anvil EXCEPT !.up = FALSE]
      BY <2>2 DEF AnvilStops
    <3>2. anvil'.storage = anvil.storage /\ ~anvil'.up
      BY <1>2, <3>1 DEF Node
    <3>3. QED BY <3>2 DEF Alike
  <2>3. CASE BuilderStops \/ OtherSubmits \/ OtherRestarts \/ UNCHANGED vars
    <3>1. anvil' = anvil
      BY <2>3 DEF BuilderStops, OtherSubmits, SubmitEffect, OtherRestarts, RestartEffect, vars, worldVars
    <3>2. QED BY <1>3, <3>1 DEF Alike
  <2>4. QED BY <2>1, <2>2, <2>3
<1>4. ASSUME Submitted
      PROVE  Submitted'
  <2>1. CASE OtherSubmits \/ OtherRestarts
    BY <1>1, <1>2, <1>4, <2>1, OthersSubmit
  <2>2. CASE BuilderStops \/ AnvilStops \/ OtherSends \/ UNCHANGED vars
    <3>1. status' = status /\ payload' = payload
      BY <2>2 DEF BuilderStops, AnvilStops, OtherSends, Leave, vars, worldVars, mempoolVars
    <3>2. QED BY <1>1, <1>4, <3>1 DEF Submitted
  <2>3. QED BY <2>1, <2>2
<1>5. QED BY <1>1, <1>3, <1>4, CoreDepends

(* Once somebody has interfered with a run, nothing is said of it; between  *)
(* runs nobody interferes with one.                                         *)
LEMMA CoreInterfered ==
  ASSUME Inv, QuotedIsPaid, OtherInterferes
  PROVE  Core' /\ QuotedIsPaid'
<1>1. UNCHANGED runVars /\ fit' = fit /\ interfered' = (interfered \/ at > 0)
  BY DEF OtherInterferes, Incident
<1>2. scenario' = scenario /\ at' = at /\ verdict' = verdict /\ seen' = seen
  BY <1>1 DEF runVars
<1>3. Core'
  BY <1>1, <1>2 DEF Core
<1>4. Route' = Route
  BY <1>2, RouteStays
<1>5. QuotedIsPaid'
  BY <1>1, <1>2, <1>4 DEF QuotedIsPaid, Gained
<1>6. QED BY <1>3, <1>5

(* Every step keeps it. *)
LEMMA CoreNext == Inv /\ Core /\ QuotedIsPaid /\ [Next]_vars => Core' /\ QuotedIsPaid'
<1> SUFFICES ASSUME Inv, Core, QuotedIsPaid, [Next]_vars
             PROVE  Core' /\ QuotedIsPaid'
  OBVIOUS
<1>1. ASSUME NEW name \in Scenario, Begin(name)
      PROVE  Core' /\ QuotedIsPaid'
  BY <1>1, CoreBegins
<1>2. ASSUME NEW st \in Running,
             \/ Prepares(st) \/ SetsAutomine(st) \/ CastSends(st) \/ CastRefused(st)
             \/ Reads(st) \/ Submits(st) \/ Bundles(st) \/ Simulates(st) \/ BundleRefused(st)
             \/ Checks(st) \/ Unreachable(st)
             \/ CallFails(st) \/ ResponseLost(st) \/ BundlePartly(st)
      PROVE  Core' /\ QuotedIsPaid'
  <2>1. /\ fit' = fit /\ interfered' = interfered
        /\ (\E hit : Raise(st, hit)) \/ \E r : Proceed(st, r) /\ Did(st, r)
    BY <1>2, StepsOfARun
  <2>2. CASE \E hit : Raise(st, hit)
    BY <2>2, CoreRaises
  <2>3. CASE \E r : Proceed(st, r) /\ Did(st, r)
    BY <2>1, <2>3, CoreReturns
  <2>4. QED BY <2>1, <2>2, <2>3
<1>3. CASE Kill
  <2>1. at' = 0 /\ verdict'.outcome = "killed"
    BY <1>3 DEF Kill, Ends
  <2>2. QED BY <2>1, NothingToPay DEF Core
<1>4. CASE \/ BuilderStops \/ AnvilStops \/ OtherSubmits \/ OtherRestarts \/ OtherSends \/ UNCHANGED vars
  BY <1>4, CoreOutside
<1>5. CASE OtherInterferes
  BY <1>5, CoreInterfered
<1>6. QED BY <1>1, <1>2, <1>3, <1>4, <1>5 DEF Next, Rest

(* The scenarios' own copy of the pricing formula (sandbox_amount_out) and  *)
(* the contracts agree: a run of victim-swap or of backrun that completes   *)
(* was paid exactly what it was quoted or had computed, for every amount,   *)
(* whatever reserves victim-swap meets, unless somebody else moved tokens   *)
(* while it ran, in a pool or to the accounts it reads.                     *)
THEOREM QuotesArePaid == Spec => []QuotedIsPaid
<1>1. Init => Core /\ QuotedIsPaid
  BY DEF Init, Core, QuotedIsPaid
<1>2. Inv /\ Core /\ QuotedIsPaid /\ [Next]_vars => (Core /\ QuotedIsPaid)'
  BY CoreNext
<1>3. QED BY <1>1, <1>2, Disciplines, PTL DEF Spec
=============================================================================
