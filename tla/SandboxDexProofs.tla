--------------------------- MODULE SandboxDexProofs ---------------------------
(***************************************************************************)
(* Lemmas about the contracts, for every set of pools and users and every   *)
(* width of integers.                                                       *)
(*                                                                          *)
(* The calls are functions on storages.  Each gets a lemma that says what   *)
(* it does to every field of a storage whose numbers are any integers; the  *)
(* bounds follow at the end, from the field ok of what is committed.        *)
(*                                                                          *)
(* What is added up over all accounts needs an induction over finite sets.  *)
(* Induction is stated here over the members of a set, and comes from the   *)
(* fact that < is well-founded on the natural numbers.                      *)
(***************************************************************************)
EXTENDS SandboxDex, Functions, FiniteSetTheorems, WellFoundedInduction, TLAPS

(* Induction over the natural numbers, for the members of a set.            *)
LEMMA SetInduction ==
  ASSUME NEW S, 0 \in S, \A n \in Nat : n \in S => n + 1 \in S
  PROVE  \A n \in Nat : n \in S
<1> DEFINE T == {n \in Nat : n \notin S}
<1>1. CASE T = {}
  BY <1>1
<1>2. CASE T # {}
  <2>1. IsWellFoundedOn(OpToRel(<, Nat), Nat)
    BY NatLessThanWellFounded
  <2>2. PICK x \in T : \A y \in T : ~ (<<y, x>> \in OpToRel(<, Nat))
    BY <1>2, <2>1, WFMin, T \subseteq Nat
  <2>3. x # 0 /\ x \in Nat
    OBVIOUS
  <2>4. x - 1 \notin S
    BY <2>3
  <2>5. x - 1 \in T /\ x - 1 < x
    BY <2>3, <2>4
  <2>6. <<x - 1, x>> \in OpToRel(<, Nat)
    BY <2>3, <2>5 DEF OpToRel
  <2>7. QED BY <2>2, <2>5, <2>6
<1>3. QED BY <1>1, <1>2

(* Induction over the subsets of a finite set: a set has the property when  *)
(* it has it after the removal of any one element.                          *)
LEMMA SubsetInduction ==
  ASSUME NEW A, IsFiniteSet(A), NEW P, {} \in P,
         \A s \in SUBSET A : s # {} /\ (\A x \in s : s \ {x} \in P) => s \in P
  PROVE  \A s \in SUBSET A : s \in P
<1> DEFINE Q == {n \in Nat : \A s \in SUBSET A : Cardinality(s) = n => s \in P}
<1>1. \A s \in SUBSET A : IsFiniteSet(s) /\ Cardinality(s) \in Nat
  BY FS_Subset, FS_CardinalityType
<1>2. 0 \in Q
  BY <1>1, FS_EmptySet
<1>3. ASSUME NEW n \in Nat, n \in Q
      PROVE  n + 1 \in Q
  <2> SUFFICES ASSUME NEW s \in SUBSET A, Cardinality(s) = n + 1
               PROVE  s \in P
    OBVIOUS
  <2>1. s # {}
    <3>1. ASSUME s = {}
          PROVE  Cardinality(s) = 0
      BY <3>1, FS_EmptySet
    <3>2. n + 1 # 0
      OBVIOUS
    <3>3. QED BY <3>1, <3>2
  <2>2. ASSUME NEW x \in s
        PROVE  s \ {x} \in P
    <3>1. IsFiniteSet(s)
      BY <1>1
    <3>2. Cardinality(s \ {x}) = Cardinality(s) - 1
      BY <3>1, FS_RemoveElement
    <3>3. Cardinality(s \ {x}) = n
      BY <3>2
    <3>4. QED BY <1>3, <3>3
  <2>3. QED BY <2>1, <2>2
<1>4. \A n \in Nat : n \in Q
  <2> HIDE DEF Q
  <2>1. QED BY <1>2, <1>3, SetInduction
<1>5. QED BY <1>1, <1>4

(* One round of SumFunctionOnSet, and a function that makes its rounds on   *)
(* the sets S.                                                              *)
Some(s) == CHOOSE x \in s : TRUE
Round(f, g, s) == IF s = {} THEN 0 ELSE f[Some(s)] + g[s \ {Some(s)}]
Sums(g, f, S) == g = [s \in S |-> Round(f, g, s)]

(* The sum over a finite set is what its rounds say: there is a function    *)
(* that makes them, which is built from the small sets to the large ones.   *)
LEMMA SumIsDefined ==
  ASSUME NEW A, IsFiniteSet(A), NEW f
  PROVE  \E g : Sums(g, f, SUBSET A) /\ SumFunctionOnSet(f, A) = g[A]
<1> DEFINE Small(n) == {s \in SUBSET A : Cardinality(s) <= n}
           Q == {n \in Nat : \E g : Sums(g, f, Small(n))}
<1>1. \A s \in SUBSET A : IsFiniteSet(s) /\ Cardinality(s) \in Nat
  BY FS_Subset, FS_CardinalityType
<1>2. ASSUME NEW n \in Nat, NEW s \in Small(n + 1), s # {}
      PROVE  s \ {Some(s)} \in Small(n)
  <2>1. Some(s) \in s
    BY <1>2 DEF Some
  <2>2. Cardinality(s \ {Some(s)}) = Cardinality(s) - 1
    BY <1>1, <2>1, FS_RemoveElement
  <2>3. QED BY <1>1, <2>2
<1>3. 0 \in Q
  <2>1. ASSUME NEW s \in Small(0)
        PROVE  s = {}
    BY <1>1, FS_EmptySet
  <2>2. Sums([s \in Small(0) |-> 0], f, Small(0))
    BY <2>1 DEF Sums, Round
  <2>3. QED BY <2>2
<1>4. ASSUME NEW n \in Nat, n \in Q
      PROVE  n + 1 \in Q
  <2>1. PICK g : Sums(g, f, Small(n))
    BY <1>4
  <2> DEFINE h == [s \in Small(n + 1) |-> Round(f, g, s)]
  <2>2. Small(n) \subseteq Small(n + 1)
    BY <1>1
  <2>3. \A s \in Small(n) : h[s] = g[s]
    BY <2>1, <2>2 DEF Sums
  <2>4. \A s \in Small(n + 1) : Round(f, g, s) = Round(f, h, s)
    BY <1>2, <2>3 DEF Round
  <2>5. Sums(h, f, Small(n + 1))
    BY <2>4 DEF Sums
  <2> HIDE DEF h, Small
  <2>6. QED BY <2>5
<1>5. \A n \in Nat : n \in Q
  <2> HIDE DEF Q
  <2>1. QED BY <1>3, <1>4, SetInduction
<1>6. Cardinality(A) \in Nat
  BY <1>1
<1>7. Small(Cardinality(A)) = SUBSET A
  BY <1>1, FS_Subset
<1>8. \E g : Sums(g, f, SUBSET A)
  BY <1>5, <1>6, <1>7
<1> DEFINE G == CHOOSE g : Sums(g, f, SUBSET A)
<1>9. Sums(G, f, SUBSET A)
  BY <1>8
<1>10. SumFunctionOnSet(f, A) = G[A]
  BY DEF SumFunctionOnSet, FoldFunctionOnSet, MapThenFoldSet, Sums, Round, Some
<1>11. QED BY <1>9, <1>10

(* When two functions differ in one place, their sums differ by as much.    *)
LEMMA SumChanges ==
  ASSUME NEW A, IsFiniteSet(A), NEW f \in [A -> Int], NEW g \in [A -> Int],
         NEW a \in A, \A b \in A \ {a} : g[b] = f[b]
  PROVE  /\ SumFunctionOnSet(f, A) \in Int
         /\ SumFunctionOnSet(g, A) = SumFunctionOnSet(f, A) + (g[a] - f[a])
<1>1. PICK F : Sums(F, f, SUBSET A) /\ SumFunctionOnSet(f, A) = F[A]
  BY SumIsDefined
<1>2. PICK G : Sums(G, g, SUBSET A) /\ SumFunctionOnSet(g, A) = G[A]
  BY SumIsDefined
<1> DEFINE P == {s \in SUBSET A :
                    /\ F[s] \in Int
                    /\ G[s] = F[s] + (IF a \in s THEN g[a] - f[a] ELSE 0)}
<1>3. {} \in P
  BY <1>1, <1>2 DEF Sums, Round
<1>4. ASSUME NEW s \in SUBSET A, s # {}, \A x \in s : s \ {x} \in P
      PROVE  s \in P
  <2>1. PICK x \in s : x = Some(s)
    BY <1>4 DEF Some
  <2>2. F[s] = f[x] + F[s \ {x}] /\ G[s] = g[x] + G[s \ {x}]
    BY <1>1, <1>2, <1>4, <2>1 DEF Sums, Round
  <2>3. /\ F[s \ {x}] \in Int
        /\ G[s \ {x}] = F[s \ {x}] + (IF a \in s \ {x} THEN g[a] - f[a] ELSE 0)
    BY <1>4
  <2>4. f[x] \in Int /\ g[x] \in Int /\ f[a] \in Int /\ g[a] \in Int /\ x \in A
    OBVIOUS
  <2>5. CASE x = a
    BY <2>2, <2>3, <2>4, <2>5
  <2>6. CASE x # a
    BY <2>2, <2>3, <2>4, <2>6
  <2>7. QED BY <2>5, <2>6
<1>5. \A s \in SUBSET A : s \in P
  <2> HIDE DEF P
  <2>1. QED BY <1>3, <1>4, SubsetInduction
<1>6. QED BY <1>1, <1>2, <1>5

(* A function that is zero everywhere adds up to zero.                      *)
LEMMA SumOfZeros ==
  ASSUME NEW A, IsFiniteSet(A), NEW f, \A a \in A : f[a] = 0
  PROVE  SumFunctionOnSet(f, A) = 0
<1>1. PICK F : Sums(F, f, SUBSET A) /\ SumFunctionOnSet(f, A) = F[A]
  BY SumIsDefined
<1> DEFINE P == {s \in SUBSET A : F[s] = 0}
<1>2. {} \in P
  BY <1>1 DEF Sums, Round
<1>3. ASSUME NEW s \in SUBSET A, s # {}, \A x \in s : s \ {x} \in P
      PROVE  s \in P
  <2>1. PICK x \in s : x = Some(s)
    BY <1>3 DEF Some
  <2>2. F[s] = f[x] + F[s \ {x}]
    BY <1>1, <1>3, <2>1 DEF Sums, Round
  <2>3. QED BY <1>3, <2>2
<1>4. \A s \in SUBSET A : s \in P
  <2> HIDE DEF P
  <2>1. QED BY <1>2, <1>3, SubsetInduction
<1>5. QED BY <1>1, <1>4
-----------------------------------------------------------------------------
(* The storages, and SandboxERC20. *)

Loose ==
    [supply    : [Token -> Int],
     balance   : [Token -> [Account -> Int]],
     allowance : [Token -> [Account -> [Account -> Int]]],
     reserve   : [Pool -> [Token -> Int]],
     ok        : BOOLEAN]

(* A storage of unsigned words is a storage of integers, which is what a   *)
(* call computes with before its checks.                                   *)
LEMMA StorageIsLoose == Storage \subseteq Loose
  BY DEF Storage, Loose, Uint

(* Require changes nothing but ok. *)
LEMMA RequireFacts ==
  ASSUME NEW s \in Loose, NEW c \in BOOLEAN
  PROVE  /\ Require(s, c) \in Loose
         /\ Require(s, c).supply = s.supply /\ Require(s, c).balance = s.balance
         /\ Require(s, c).allowance = s.allowance /\ Require(s, c).reserve = s.reserve
         /\ Require(s, c).ok = (s.ok /\ c)
  BY DEF Require, Loose

(* Approve changes one allowance. *)
Approved(r, s, t, owner, spender, x) ==
    /\ r \in Loose
    /\ r.supply = s.supply /\ r.balance = s.balance /\ r.reserve = s.reserve
    /\ r.ok = s.ok
    /\ \A u \in Token, a \in Account, b \in Account :
          r.allowance[u][a][b] = IF u = t /\ a = owner /\ b = spender THEN x
                                 ELSE s.allowance[u][a][b]

(* approve() writes one cell of one token's allowance table.               *)
LEMMA ApproveFacts ==
  ASSUME NEW s \in Loose, NEW t \in Token, NEW owner \in Account, NEW spender \in Account,
         NEW x \in Int
  PROVE  Approved(Approve(s, t, owner, spender, x), s, t, owner, spender, x)
<1> DEFINE r     == Approve(s, t, owner, spender, x)
           row   == [s.allowance[t][owner] EXCEPT ![spender] = x]
           table == [s.allowance[t] EXCEPT ![owner] = row]
           all   == [s.allowance EXCEPT ![t] = table]
<1>1. s.allowance \in [Token -> [Account -> [Account -> Int]]]
  BY DEF Loose
<1>2. /\ row \in [Account -> Int]
      /\ \A b \in Account : row[b] = IF b = spender THEN x ELSE s.allowance[t][owner][b]
  BY <1>1
<1>3. /\ table \in [Account -> [Account -> Int]]
      /\ \A a \in Account : table[a] = IF a = owner THEN row ELSE s.allowance[t][a]
  <2> HIDE DEF row
  <2> QED BY <1>1, <1>2
<1>4. /\ all \in [Token -> [Account -> [Account -> Int]]]
      /\ \A u \in Token : all[u] = IF u = t THEN table ELSE s.allowance[u]
  <2> HIDE DEF row, table
  <2> QED BY <1>1, <1>3
<1>5. r = [s EXCEPT !.allowance = all]
  BY DEF Approve
<1> HIDE DEF row, table, all, r
<1>6. /\ r \in Loose /\ r.allowance = all
      /\ r.supply = s.supply /\ r.balance = s.balance /\ r.reserve = s.reserve /\ r.ok = s.ok
  BY <1>4, <1>5 DEF Loose
<1>7. Approved(r, s, t, owner, spender, x)
  BY <1>2, <1>3, <1>4, <1>6 DEF Approved
<1>8. QED
  BY <1>7 DEF r

(* An amount added to one balance. *)
Credit(s, t, to, x) == [s EXCEPT !.balance[t][to] = @ + x]

Credited(r, s, t, to, x) ==
    /\ r \in Loose
    /\ r.supply = s.supply /\ r.allowance = s.allowance /\ r.reserve = s.reserve
    /\ r.ok = s.ok
    /\ \A u \in Token, a \in Account :
          r.balance[u][a] = IF u = t /\ a = to THEN s.balance[u][a] + x ELSE s.balance[u][a]

(* What adding to one balance does to the table of balances.               *)
LEMMA CreditFacts ==
  ASSUME NEW s \in Loose, NEW t \in Token, NEW to \in Account, NEW x \in Int
  PROVE  Credited(Credit(s, t, to, x), s, t, to, x)
<1> DEFINE r   == Credit(s, t, to, x)
           row == [s.balance[t] EXCEPT ![to] = @ + x]
           all == [s.balance EXCEPT ![t] = row]
<1>1. s.balance \in [Token -> [Account -> Int]]
  BY DEF Loose
<1>2. /\ row \in [Account -> Int]
      /\ \A a \in Account : row[a] = IF a = to THEN s.balance[t][a] + x ELSE s.balance[t][a]
  BY <1>1
<1>3. /\ all \in [Token -> [Account -> Int]]
      /\ \A u \in Token : all[u] = IF u = t THEN row ELSE s.balance[u]
  <2> HIDE DEF row
  <2> QED BY <1>1, <1>2
<1>4. r = [s EXCEPT !.balance = all]
  BY DEF Loose, Credit
<1> HIDE DEF row, all, r
<1>5. /\ r \in Loose /\ r.balance = all
      /\ r.supply = s.supply /\ r.allowance = s.allowance /\ r.reserve = s.reserve /\ r.ok = s.ok
  BY <1>3, <1>4 DEF Loose
<1>6. Credited(r, s, t, to, x)
  BY <1>2, <1>3, <1>5 DEF Credited
<1>7. QED
  BY <1>6 DEF r

(* What a transfer of x does to the balances. *)
Moved(r, s, t, from, to, x) ==
    \A u \in Token, a \in Account :
        r.balance[u][a] = IF u # t \/ from = to THEN s.balance[u][a]
                          ELSE IF a = from THEN s.balance[u][a] - x
                          ELSE IF a = to THEN s.balance[u][a] + x
                          ELSE s.balance[u][a]

(* Transfer moves x from one account to another, which may be the same. *)
Sent(r, s, t, from, to, x) ==
    /\ r \in Loose
    /\ r.supply = s.supply /\ r.allowance = s.allowance /\ r.reserve = s.reserve
    /\ r.ok => s.ok /\ s.balance[t][from] >= x /\ r.balance[t][to] \in Uint
    /\ Moved(r, s, t, from, to, x)

(* What all accounts together hold of a token. *)
Held(s, t) == SumFunctionOnSet(s.balance[t], Account)

(* There are finitely many accounts, each holds a number, and what all hold *)
(* is a number.                                                             *)
LEMMA HeldFacts ==
  ASSUME NEW s \in Loose, NEW t \in Token
  PROVE  /\ IsFiniteSet(Account) /\ s.balance[t] \in [Account -> Int]
         /\ Held(s, t) \in Int
<1>1. IsFiniteSet(Account)
  <2>1. IsFiniteSet(Pool \cup User)
    BY ContractsAssumption, FS_Union
  <2>2. IsFiniteSet({Backrun})
    BY FS_Singleton
  <2>3. QED BY <2>1, <2>2, FS_Union DEF Account
<1>2. s.balance[t] \in [Account -> Int] /\ Backrun \in Account
  BY DEF Loose, Account
<1>3. QED BY <1>1, <1>2, SumChanges DEF Held

(* The balances g after a payment out of the balances f. *)
Paid(g, f, from, to, x) ==
    \A a \in Account :
        g[a] = IF a = from THEN f[a] - x ELSE IF a = to THEN f[a] + x ELSE f[a]

(* A payment changes nothing of what all hold together.                     *)
LEMMA PaymentKeepsHeld ==
  ASSUME NEW s \in Loose, NEW r \in Loose, NEW t \in Token, NEW from \in Account,
         NEW to \in Account, from # to, NEW x \in Int,
         Paid(r.balance[t], s.balance[t], from, to, x)
  PROVE  Held(r, t) = Held(s, t)
<1> DEFINE h == [s.balance[t] EXCEPT ![from] = @ - x]
<1>1. /\ IsFiniteSet(Account) /\ Held(s, t) \in Int
      /\ s.balance[t] \in [Account -> Int] /\ r.balance[t] \in [Account -> Int]
  BY HeldFacts
<1>2. h \in [Account -> Int] /\ \A a \in Account \ {from} : h[a] = s.balance[t][a]
  BY <1>1
<1>3. \A a \in Account \ {to} : r.balance[t][a] = h[a]
  BY <1>1 DEF Paid
<1>4. h[from] - s.balance[t][from] = -x /\ r.balance[t][to] - h[to] = x
  BY <1>1 DEF Paid
<1> HIDE DEF h
<1>5. /\ SumFunctionOnSet(s.balance[t], Account) \in Int
      /\ SumFunctionOnSet(h, Account)
            = SumFunctionOnSet(s.balance[t], Account) + (h[from] - s.balance[t][from])
  BY <1>1, <1>2, SumChanges
<1>6. SumFunctionOnSet(r.balance[t], Account)
         = SumFunctionOnSet(h, Account) + (r.balance[t][to] - h[to])
  BY <1>1, <1>2, <1>3, SumChanges
<1>7. QED BY <1>4, <1>5, <1>6 DEF Held

(* Equal balances add up to the same.                                       *)
LEMMA SameHeld ==
  ASSUME NEW s \in Loose, NEW r \in Loose, NEW t \in Token,
         \A a \in Account : r.balance[t][a] = s.balance[t][a]
  PROVE  Held(r, t) = Held(s, t)
<1>1. r.balance[t] = s.balance[t]
  BY HeldFacts
<1>2. QED BY <1>1 DEF Held

(* What moves of one token leaves the holdings of every token as they were. *)
LEMMA MovedKeepsHeld ==
  ASSUME NEW s \in Loose, NEW r \in Loose, NEW t \in Token, NEW from \in Account,
         NEW to \in Account, NEW x \in Int, Moved(r, s, t, from, to, x)
  PROVE  \A u \in Token : Held(r, u) = Held(s, u)
<1> SUFFICES ASSUME NEW u \in Token
             PROVE  Held(r, u) = Held(s, u)
  OBVIOUS
<1>1. CASE u # t \/ from = to
  BY <1>1, SameHeld DEF Moved
<1>2. CASE u = t /\ from # to
  <2>1. Paid(r.balance[t], s.balance[t], from, to, x)
    BY <1>2 DEF Moved, Paid
  <2>2. QED BY <1>2, <2>1, PaymentKeepsHeld
<1>3. QED BY <1>1, <1>2

(* transfer(): the sender pays, the receiver gets, a transfer to oneself   *)
(* leaves both as they were, and a call that fails its require has moved   *)
(* nothing.                                                                *)
LEMMA TransferFacts ==
  ASSUME NEW s \in Loose, NEW t \in Token, NEW from \in Account, NEW to \in Account, NEW x \in Int
  PROVE  Sent(Transfer(s, t, from, to, x), s, t, from, to, x)
<1> DEFINE r == Transfer(s, t, from, to, x)
<1> DEFINE debited == [s EXCEPT !.balance[t][from] = @ - x]
           moved   == [debited EXCEPT !.balance[t][to] = @ + x]
           enough  == s.balance[t][from] >= x /\ debited.balance[t][to] + x \in Uint
<1>a. PICK minus \in Int : minus = -x
  OBVIOUS
<1>1. debited = Credit(s, t, from, minus)
  <2>1. s.balance[t][from] - x = s.balance[t][from] + minus
    BY <1>a DEF Loose
  <2>2. QED BY <2>1 DEF Credit
<1>2. r = Require(moved, enough)
  BY DEF Transfer
<1>3. enough \in BOOLEAN
  OBVIOUS
<1>0. moved = Credit(debited, t, to, x)
  BY DEF Credit
<1> HIDE DEF debited, moved, r
<1>4. Credited(debited, s, t, from, minus)
  BY <1>1, CreditFacts
<1>b. debited \in Loose
  BY <1>4 DEF Credited
<1>5. Credited(moved, debited, t, to, x)
  BY <1>0, <1>b, CreditFacts
<1>6. /\ r \in Loose
      /\ r.supply = moved.supply /\ r.balance = moved.balance
      /\ r.allowance = moved.allowance /\ r.reserve = moved.reserve
      /\ r.ok = (moved.ok /\ enough)
  <2>1. moved \in Loose
    BY <1>5 DEF Credited
  <2> HIDE DEF enough
  <2>2. QED BY <1>2, <1>3, <2>1, RequireFacts
<1>7. \A u \in Token, a \in Account : s.balance[u][a] \in Int
  BY DEF Loose
<1>8. Moved(r, s, t, from, to, x)
  BY <1>4, <1>5, <1>6, <1>7, <1>a DEF Moved, Credited
<1>9. r.balance[t][to] = debited.balance[t][to] + x
  BY <1>5, <1>6 DEF Credited
<1>10. Sent(r, s, t, from, to, x)
  BY <1>4, <1>5, <1>6, <1>8, <1>9 DEF Credited, Sent
<1>11. QED
  BY <1>10 DEF r

(* TransferFrom also uses up the allowance, unless it is unlimited. *)
Pulled(r, s, t, spender, from, to, x) ==
    /\ r \in Loose
    /\ r.supply = s.supply /\ r.reserve = s.reserve
    /\ r.ok => /\ s.ok /\ s.balance[t][from] >= x /\ r.balance[t][to] \in Uint
               /\ s.allowance[t][from][spender] >= x
    /\ Moved(r, s, t, from, to, x)
    /\ \A u \in Token, a \in Account, b \in Account :
          r.allowance[u][a][b] =
             IF u = t /\ a = from /\ b = spender /\ s.allowance[u][a][b] # MaxUint
             THEN s.allowance[u][a][b] - x ELSE s.allowance[u][a][b]

(* transferFrom(): the allowance goes down by the amount unless it is      *)
(* unlimited, and the balances move as in transfer().                      *)
LEMMA TransferFromFacts ==
  ASSUME NEW s \in Loose, NEW t \in Token, NEW spender \in Account,
         NEW from \in Account, NEW to \in Account, NEW x \in Int
  PROVE  Pulled(TransferFrom(s, t, spender, from, to, x), s, t, spender, from, to, x)
<1> DEFINE r       == TransferFrom(s, t, spender, from, to, x)
           allowed == s.allowance[t][from][spender]
           spent   == IF allowed = MaxUint THEN s ELSE Approve(s, t, from, spender, allowed - x)
           asked   == Require(spent, allowed >= x)
<1>1. allowed \in Int
  BY DEF Loose
<1>2. /\ spent \in Loose
      /\ spent.supply = s.supply /\ spent.balance = s.balance /\ spent.reserve = s.reserve
      /\ spent.ok = s.ok
      /\ \A u \in Token, a \in Account, b \in Account :
            spent.allowance[u][a][b] =
               IF u = t /\ a = from /\ b = spender /\ s.allowance[u][a][b] # MaxUint
               THEN s.allowance[u][a][b] - x ELSE s.allowance[u][a][b]
  <2>1. CASE allowed = MaxUint
    BY <2>1
  <2>2. CASE allowed # MaxUint
    <3>1. allowed - x \in Int /\ spent = Approve(s, t, from, spender, allowed - x)
      BY <1>1, <2>2
    <3> HIDE DEF spent
    <3>2. /\ spent \in Loose
          /\ spent.supply = s.supply /\ spent.balance = s.balance /\ spent.reserve = s.reserve
          /\ spent.ok = s.ok
          /\ \A u \in Token, a \in Account, b \in Account :
                spent.allowance[u][a][b] =
                   IF u = t /\ a = from /\ b = spender THEN allowed - x
                   ELSE s.allowance[u][a][b]
      <4>a. PICK left \in Int : left = allowed - x
        BY <3>1
      <4>1. spent = Approve(s, t, from, spender, left)
        BY <3>1, <4>a
      <4>2. Approved(spent, s, t, from, spender, left)
        BY <4>1, ApproveFacts
      <4>3. QED BY <4>2, <4>a DEF Approved
    <3>3. QED BY <2>2, <3>2
  <2>3. QED BY <2>1, <2>2
<1> HIDE DEF spent
<1>3. (allowed >= x) \in BOOLEAN
  OBVIOUS
<1> HIDE DEF allowed
<1>4. /\ asked \in Loose
      /\ asked.supply = spent.supply /\ asked.balance = spent.balance
      /\ asked.allowance = spent.allowance /\ asked.reserve = spent.reserve
      /\ asked.ok = (spent.ok /\ allowed >= x)
  BY <1>2, <1>3, RequireFacts
<1>5. r = Transfer(asked, t, from, to, x)
  BY DEF TransferFrom, allowed, spent, asked
<1> HIDE DEF asked, r
<1>6. Sent(r, asked, t, from, to, x)
  BY <1>4, <1>5, TransferFacts
<1>7. Moved(r, s, t, from, to, x)
  BY <1>2, <1>4, <1>6 DEF Moved, Sent
<1>8. r.ok => /\ s.ok /\ s.balance[t][from] >= x /\ r.balance[t][to] \in Uint
              /\ s.allowance[t][from][spender] >= x
  BY <1>2, <1>4, <1>6 DEF allowed, Sent
<1>9. Pulled(r, s, t, spender, from, to, x)
  BY <1>2, <1>4, <1>6, <1>7, <1>8 DEF Sent, Pulled
<1>10. QED
  BY <1>9 DEF r

-----------------------------------------------------------------------------
(* SandboxDex *)

(* The defining inequalities of integer division.                          *)
LEMMA QuotientFacts ==
  ASSUME NEW a \in Nat, NEW b \in Nat, b > 0
  PROVE  a \div b \in Nat /\ (a \div b) * b <= a
  OBVIOUS

(* The amount is rounded down from the price that takes the fee. *)
LEMMA AmountOutFacts ==
  ASSUME NEW x \in Nat, NEW reserveIn \in Nat, NEW reserveOut \in Nat,
         x > 0, reserveIn > 0, NEW m, m = AmountOut(x, reserveIn, reserveOut)
  PROVE  /\ m \in Nat
         /\ m * (reserveIn * 1000 + x * 997) <= (x * 997) * reserveOut
<1> DEFINE a == (x * 997) * reserveOut
           b == reserveIn * 1000 + x * 997
<1>1. a \in Nat /\ b \in Nat /\ b > 0
  OBVIOUS
<1>2. m = a \div b
  BY DEF AmountOut, FeeNumerator, FeeDenominator
<1>3. a \div b \in Nat /\ (a \div b) * b <= a
  <2> HIDE DEF a, b
  <2> QED BY <1>1, QuotientFacts
<1>4. QED
  BY <1>2, <1>3

(* The heart of the matter: a swap at that price does not lose liquidity. *)
LEMMA PriceKeepsProduct ==
  ASSUME NEW reserveIn \in Nat, NEW reserveOut \in Nat, NEW x \in Nat, NEW m \in Nat,
         m * (reserveIn * 1000 + x * 997) <= (x * 997) * reserveOut
  PROVE  (reserveIn + x) * (reserveOut - m) >= reserveIn * reserveOut
<1> DEFINE gain == x * reserveOut
           lost == m * reserveIn
           both == m * x
<1>1. gain \in Nat /\ lost \in Nat /\ both \in Nat
  OBVIOUS
<1>2. m * (reserveIn * 1000 + x * 997) = 1000 * lost + 997 * both
  OBVIOUS
<1>3. (x * 997) * reserveOut = 997 * gain
  OBVIOUS
<1>4. gain >= lost + both
  <2> HIDE DEF gain, lost, both
  <2> QED BY <1>1, <1>2, <1>3
<1>5. (reserveIn + x) * (reserveOut - m) = reserveIn * reserveOut + gain - lost - both
  OBVIOUS
<1>6. reserveIn * reserveOut \in Nat
  OBVIOUS
<1>7. QED
  <2> HIDE DEF gain, lost, both
  <2> QED BY <1>1, <1>4, <1>5, <1>6

(* An amount added to one reserve. *)
Reserved(r, s, p, t, x) ==
    /\ r \in Loose
    /\ r.supply = s.supply /\ r.balance = s.balance /\ r.allowance = s.allowance
    /\ r.ok = s.ok
    /\ \A q \in Pool, u \in Token :
          r.reserve[q][u] = IF q = p /\ u = t THEN s.reserve[q][u] + x ELSE s.reserve[q][u]

(* Adding to a reserve changes that reserve of that pool only.             *)
LEMMA AddReserveFacts ==
  ASSUME NEW s \in Loose, NEW p \in Pool, NEW t \in Token, NEW x \in Int
  PROVE  Reserved(AddReserve(s, p, t, x), s, p, t, x)
<1> DEFINE r   == AddReserve(s, p, t, x)
           row == [s.reserve[p] EXCEPT ![t] = @ + x]
           all == [s.reserve EXCEPT ![p] = row]
<1>1. s.reserve \in [Pool -> [Token -> Int]]
  BY DEF Loose
<1>2. /\ row \in [Token -> Int]
      /\ \A u \in Token : row[u] = IF u = t THEN s.reserve[p][u] + x ELSE s.reserve[p][u]
  BY <1>1
<1>3. /\ all \in [Pool -> [Token -> Int]]
      /\ \A q \in Pool : all[q] = IF q = p THEN row ELSE s.reserve[q]
  <2> HIDE DEF row
  <2> QED BY <1>1, <1>2
<1>4. r = [s EXCEPT !.reserve = all]
  BY DEF Loose, AddReserve
<1> HIDE DEF row, all, r
<1>5. /\ r \in Loose /\ r.reserve = all
      /\ r.supply = s.supply /\ r.allowance = s.allowance /\ r.balance = s.balance /\ r.ok = s.ok
  BY <1>3, <1>4 DEF Loose
<1>6. Reserved(r, s, p, t, x)
  BY <1>2, <1>3, <1>5 DEF Reserved
<1>7. QED
  BY <1>6 DEF r

(* What a swap of x for m does. *)
Swapped(r, s, sender, p, in, out, x, m) ==
    /\ r \in Loose
    /\ r.supply = s.supply
    /\ r.ok => /\ s.ok /\ m > 0 /\ m <= s.reserve[p][out]
               /\ x > 0 /\ s.reserve[p][in] > 0 /\ s.reserve[p][in] + x \in Uint
               /\ x < MaxUint /\ Priced(x, s.reserve[p][in], s.reserve[p][out])
               /\ s.balance[in][sender] >= x /\ s.balance[out][p] >= m
               /\ r.balance[in][p] \in Uint /\ r.balance[out][sender] \in Uint
               /\ s.allowance[in][sender][p] >= x
    /\ \A q \in Pool, u \in Token :
          r.reserve[q][u] = IF q = p /\ u = in THEN s.reserve[q][u] + x
                            ELSE IF q = p /\ u = out THEN s.reserve[q][u] - m
                            ELSE s.reserve[q][u]
    /\ \A u \in Token, a \in Account :
          r.balance[u][a] = IF u = in /\ a = sender THEN s.balance[u][a] - x
                            ELSE IF u = in /\ a = p THEN s.balance[u][a] + x
                            ELSE IF u = out /\ a = p THEN s.balance[u][a] - m
                            ELSE IF u = out /\ a = sender THEN s.balance[u][a] + m
                            ELSE s.balance[u][a]
    /\ \A u \in Token, a \in Account, b \in Account :
          r.allowance[u][a][b] =
             IF u = in /\ a = sender /\ b = p /\ s.allowance[u][a][b] # MaxUint
             THEN s.allowance[u][a][b] - x ELSE s.allowance[u][a][b]

(* getAmountOut() yields an integer, also where its division is by zero in *)
(* the specification.                                                      *)
LEMMA AmountOutIsInt ==
  ASSUME NEW x \in Int, NEW reserveIn \in Int, NEW reserveOut \in Int
  PROVE  AmountOut(x, reserveIn, reserveOut) \in Int
<1>1. CASE x > 0 /\ reserveIn > 0
  <2> DEFINE a == (x * 997) * reserveOut
             b == reserveIn * 1000 + x * 997
  <2>1. a \in Int /\ b \in Int /\ b > 0
    BY <1>1
  <2>2. AmountOut(x, reserveIn, reserveOut) = a \div b
    BY <1>1 DEF AmountOut, FeeNumerator, FeeDenominator
  <2> HIDE DEF a, b
  <2>3. QED BY <2>1, <2>2
<1>2. CASE ~(x > 0 /\ reserveIn > 0)
  BY <1>2 DEF AmountOut
<1>3. QED BY <1>1, <1>2

(* An unlimited amount is never priced: its product overflows. *)
LEMMA PricedIsLimited ==
  ASSUME NEW x \in Int, NEW reserveIn \in Int, NEW reserveOut \in Int,
         Priced(x, reserveIn, reserveOut)
  PROVE  x < MaxUint
<1>1. /\ x > 0 /\ reserveOut > 0 /\ x * 997 * reserveOut \in 0..MaxUint
      /\ MaxUint \in Nat
  BY ContractsAssumption DEF Priced, Uint, FeeNumerator
<1>2. (x * 997) * reserveOut >= x * 997
  BY <1>1
<1>3. QED BY <1>1, <1>2

(* _swapExactIn() from end to end: what a trade that does not revert did   *)
(* to balances, reserves and allowances.                                   *)
LEMMA SwapFacts ==
  ASSUME NEW s \in Loose, NEW sender \in Account, NEW p \in Pool, sender # p,
         NEW in \in Token, NEW out \in Token, in # out, NEW x \in Int, NEW min \in Int
  PROVE  Swapped(Swap(s, sender, p, in, out, x, min), s, sender, p, in, out, x,
                 AmountOut(x, s.reserve[p][in], s.reserve[p][out]))
<1> DEFINE r      == Swap(s, sender, p, in, out, x, min)
           amount == AmountOut(x, s.reserve[p][in], s.reserve[p][out])
           worth  == /\ Priced(x, s.reserve[p][in], s.reserve[p][out])
                     /\ amount > 0 /\ amount >= min
           priced == Require(s, worth)
           paid   == TransferFrom(priced, in, p, sender, p, x)
           sent   == Transfer(paid, out, p, sender, amount)
           got    == AddReserve(sent, p, in, x)
           minus  == -amount
           done   == AddReserve(got, p, out, minus)
           fits   == s.reserve[p][in] + x \in Uint /\ amount <= s.reserve[p][out]
<1>0. r = Require(done, fits)
  BY DEF Swap
<1> HIDE DEF r
<1>1. s.reserve[p][in] \in Int /\ s.reserve[p][out] \in Int /\ p \in Account
  BY DEF Loose, Account
<1>2. amount \in Int
  BY <1>1, AmountOutIsInt
<1>3. worth \in BOOLEAN /\ fits \in BOOLEAN
  OBVIOUS
<1>4. worth => /\ x > 0 /\ s.reserve[p][in] > 0 /\ amount > 0 /\ x < MaxUint
               /\ Priced(x, s.reserve[p][in], s.reserve[p][out])
  <2>1. worth => Priced(x, s.reserve[p][in], s.reserve[p][out]) /\ amount > 0
    OBVIOUS
  <2>2. Priced(x, s.reserve[p][in], s.reserve[p][out]) => x > 0 /\ s.reserve[p][in] > 0 /\ x < MaxUint
    BY <1>1, PricedIsLimited DEF Priced
  <2>3. QED BY <2>1, <2>2
<1> HIDE DEF amount, worth, fits
<1>5. /\ priced \in Loose
      /\ priced.supply = s.supply /\ priced.balance = s.balance
      /\ priced.allowance = s.allowance /\ priced.reserve = s.reserve
      /\ priced.ok = (s.ok /\ worth)
  BY <1>3, RequireFacts
<1> HIDE DEF priced
<1>6. Pulled(paid, priced, in, p, sender, p, x)
  BY <1>1, <1>5, TransferFromFacts
<1> HIDE DEF paid
<1>7. Sent(sent, paid, out, p, sender, amount)
  BY <1>1, <1>2, <1>6, TransferFacts DEF Pulled
<1> HIDE DEF sent
<1>8. Reserved(got, sent, p, in, x)
  BY <1>7, AddReserveFacts DEF Sent
<1> HIDE DEF got
<1>9. Reserved(done, got, p, out, minus)
  BY <1>2, <1>8, AddReserveFacts DEF Reserved
<1> HIDE DEF done
<1>11. /\ r \in Loose
       /\ r.supply = done.supply /\ r.balance = done.balance
       /\ r.allowance = done.allowance /\ r.reserve = done.reserve
       /\ r.ok = (done.ok /\ fits)
  BY <1>0, <1>3, <1>9, RequireFacts DEF Reserved
<1>12. r.supply = s.supply
  BY <1>5, <1>6, <1>7, <1>8, <1>9, <1>11 DEF Pulled, Sent, Reserved
<1>13. \A q \in Pool, u \in Token :
          r.reserve[q][u] = IF q = p /\ u = in THEN s.reserve[q][u] + x
                            ELSE IF q = p /\ u = out THEN s.reserve[q][u] - amount
                            ELSE s.reserve[q][u]
  BY <1>1, <1>2, <1>5, <1>6, <1>7, <1>8, <1>9, <1>11 DEF Pulled, Sent, Reserved
<1>14. r.balance = sent.balance /\ r.allowance = paid.allowance
  BY <1>7, <1>8, <1>9, <1>11 DEF Sent, Reserved
<1>15. \A u \in Token, a \in Account :
          r.balance[u][a] = IF u = in /\ a = sender THEN s.balance[u][a] - x
                            ELSE IF u = in /\ a = p THEN s.balance[u][a] + x
                            ELSE IF u = out /\ a = p THEN s.balance[u][a] - amount
                            ELSE IF u = out /\ a = sender THEN s.balance[u][a] + amount
                            ELSE s.balance[u][a]
  BY <1>1, <1>5, <1>6, <1>7, <1>14 DEF Pulled, Sent, Moved
<1>16. \A u \in Token, a \in Account, b \in Account :
          r.allowance[u][a][b] =
             IF u = in /\ a = sender /\ b = p /\ s.allowance[u][a][b] # MaxUint
             THEN s.allowance[u][a][b] - x ELSE s.allowance[u][a][b]
  BY <1>5, <1>6, <1>14 DEF Pulled
<1>17. r.ok => worth /\ fits /\ sent.ok /\ paid.ok /\ s.ok
  BY <1>5, <1>6, <1>7, <1>8, <1>9, <1>11 DEF Pulled, Sent, Reserved
<1>18. paid.balance[out][p] = s.balance[out][p] /\ paid.balance[in][p] = r.balance[in][p]
  BY <1>1, <1>5, <1>6, <1>7, <1>14 DEF Pulled, Sent, Moved
<1>19. r.ok => /\ s.balance[in][sender] >= x /\ s.balance[out][p] >= amount
               /\ r.balance[in][p] \in Uint /\ r.balance[out][sender] \in Uint
               /\ s.allowance[in][sender][p] >= x
  BY <1>5, <1>6, <1>7, <1>14, <1>17, <1>18 DEF Pulled, Sent
<1>20. fits => s.reserve[p][in] + x \in Uint /\ amount <= s.reserve[p][out]
  BY DEF fits
<1>21. Swapped(r, s, sender, p, in, out, x, amount)
  BY <1>4, <1>11, <1>12, <1>13, <1>15, <1>16, <1>17, <1>19, <1>20 DEF Swapped
<1>22. QED
  BY <1>21 DEF r, amount
-----------------------------------------------------------------------------
(* Storages again: what a transaction that is committed keeps. *)

(* A storage of integers each of which is an unsigned word is a storage.   *)
LEMMA BoundedIsStorage ==
  ASSUME NEW r \in Loose,
         \A t \in Token : r.supply[t] \in Uint,
         \A t \in Token, a \in Account : r.balance[t][a] \in Uint,
         \A t \in Token, a \in Account, b \in Account : r.allowance[t][a][b] \in Uint,
         \A p \in Pool, t \in Token : r.reserve[p][t] \in Uint
  PROVE  r \in Storage
<1>1. r.supply \in [Token -> Uint]
  BY DEF Loose
<1>2. r.balance \in [Token -> [Account -> Uint]]
  BY DEF Loose
<1>3. r.allowance \in [Token -> [Account -> [Account -> Uint]]]
  BY DEF Loose
<1>4. r.reserve \in [Pool -> [Token -> Uint]]
  BY DEF Loose
<1>5. QED
  BY <1>1, <1>2, <1>3, <1>4 DEF Loose, Storage

Solvent(s) == \A p \in Pool, t \in Token : s.balance[t][p] >= s.reserve[p][t]

(* A call leaves what is held and not minted as it was. *)
Conserved(r, s) ==
    \A t \in Token : Held(r, t) - r.supply[t] = Held(s, t) - s.supply[t]

(* What every call keeps. *)
Kept(r, s) ==
    /\ r \in Storage /\ Solvent(r) /\ Conserved(r, s)
    /\ \A p \in Pool : Product(r, p) >= Product(s, p)

(* What nobody else does to the executor: spend its tokens or its allowances. *)
Apart(r, s) ==
    /\ \A t \in Token : r.balance[t][Backrun] >= s.balance[t][Backrun]
    /\ \A t \in Token, a \in Account : r.allowance[t][Backrun][a] = s.allowance[t][Backrun][a]

(* The allowances the pools grant are left alone. *)
Unspent(r, s) ==
    \A t \in Token, p \in Pool, a \in Account : r.allowance[t][p][a] = s.allowance[t][p][a]

(* What leaves the reserves alone and the pools solvent keeps the          *)
(* liquidity.                                                              *)
LEMMA SameReserves ==
  ASSUME NEW s \in Storage, NEW r \in Storage, r.reserve = s.reserve, Solvent(r),
         Conserved(r, s)
  PROVE  Kept(r, s)
<1>1. ASSUME NEW p \in Pool
      PROVE  Product(r, p) = Product(s, p) /\ Product(s, p) \in Int
  BY DEF Product, Storage, Uint, Token
<1>2. QED
  BY <1>1 DEF Kept

(* Liquidity that does not fall in each of two calls does not fall in      *)
(* both.                                                                   *)
LEMMA KeptTwice ==
  ASSUME NEW s \in Storage, NEW m \in Storage, NEW r \in Storage, Kept(m, s), Kept(r, m)
  PROVE  Kept(r, s)
<1>1. ASSUME NEW p \in Pool
      PROVE  Product(r, p) \in Int /\ Product(m, p) \in Int /\ Product(s, p) \in Int
  BY DEF Product, Storage, Uint, Token
<1>2. Conserved(r, s)
  BY DEF Kept, Conserved
<1>3. QED
  BY <1>1, <1>2 DEF Kept

(* Every number kept in storage is between zero and the largest word.      *)
LEMMA StorageBounds ==
  ASSUME NEW s \in Storage
  PROVE  /\ MaxUint \in Nat
         /\ \A t \in Token : s.supply[t] \in 0..MaxUint
         /\ \A t \in Token, a \in Account : s.balance[t][a] \in 0..MaxUint
         /\ \A t \in Token, a \in Account, b \in Account : s.allowance[t][a][b] \in 0..MaxUint
         /\ \A p \in Pool, t \in Token : s.reserve[p][t] \in 0..MaxUint
  BY ContractsAssumption DEF Storage, Uint

(* A transfer by somebody who is not a pool keeps the pools solvent;       *)
(* unless the executor sends it, the executor loses nothing.               *)
LEMMA TransferKeeps ==
  ASSUME NEW s \in Storage, Solvent(s), NEW t \in Token, NEW from \in Account \ Pool,
         NEW to \in Account, NEW x \in Uint, Transfer(s, t, from, to, x).ok
  PROVE  /\ Kept(Transfer(s, t, from, to, x), s)
         /\ from # Backrun => Apart(Transfer(s, t, from, to, x), s)
         /\ Unspent(Transfer(s, t, from, to, x), s)
<1> DEFINE r == Transfer(s, t, from, to, x)
<1>1. s \in Loose /\ x \in Int /\ x >= 0
  BY StorageIsLoose, ContractsAssumption DEF Uint
<1>2. Sent(r, s, t, from, to, x)
  BY <1>1, TransferFacts
<1>3. r.ok
  OBVIOUS
<1> HIDE DEF r
<1>4. ASSUME NEW u \in Token, NEW a \in Account
      PROVE  r.balance[u][a] \in Uint
  BY <1>1, <1>2, <1>3, StorageBounds DEF Sent, Moved, Uint
<1>5. r \in Storage
  BY <1>2, <1>4, StorageBounds, BoundedIsStorage DEF Sent, Uint
<1>6. ASSUME NEW p \in Pool, NEW u \in Token
      PROVE  r.balance[u][p] >= r.reserve[p][u]
  <2>1. p \in Account /\ s.balance[u][p] >= s.reserve[p][u] /\ p # from
    BY DEF Account, Solvent
  <2>2. s.balance[u][p] \in Int /\ s.reserve[p][u] \in Int
    BY <2>1, StorageBounds
  <2>3. r.balance[u][p] >= s.balance[u][p] /\ r.balance[u][p] \in Int
    BY <1>1, <1>2, <2>1, <2>2 DEF Sent, Moved
  <2>4. QED BY <1>2, <2>1, <2>2, <2>3 DEF Sent
<1>7. r.reserve = s.reserve /\ Solvent(r)
  BY <1>2, <1>6 DEF Sent, Solvent
<1>a. Conserved(r, s)
  <2>1. \A u \in Token : Held(r, u) = Held(s, u)
    BY <1>1, <1>2, MovedKeepsHeld DEF Sent
  <2>2. QED BY <1>2, <2>1 DEF Sent, Conserved
<1>8. Kept(r, s)
  BY <1>5, <1>7, <1>a, SameReserves
<1>9. ASSUME from # Backrun
      PROVE  Apart(r, s)
  <2>1. Backrun \in Account
    BY DEF Account
  <2>2. ASSUME NEW u \in Token
        PROVE  r.balance[u][Backrun] >= s.balance[u][Backrun]
    <3>1. s.balance[u][Backrun] \in Int
      BY <2>1, StorageBounds
    <3>2. QED BY <1>1, <1>2, <1>9, <2>1, <3>1 DEF Sent, Moved
  <2>3. QED BY <1>2, <2>2 DEF Sent, Apart
<1>10. Unspent(r, s)
  BY <1>2 DEF Sent, Unspent
<1>11. QED
  BY <1>8, <1>9, <1>10 DEF r

(* An approval moves no token; only the executor itself approves for the   *)
(* executor.                                                               *)
LEMMA ApproveKeeps ==
  ASSUME NEW s \in Storage, Solvent(s), NEW t \in Token, NEW owner \in Account,
         NEW spender \in Account, NEW x \in Uint
  PROVE  /\ Kept(Approve(s, t, owner, spender, x), s)
         /\ owner # Backrun => Apart(Approve(s, t, owner, spender, x), s)
         /\ owner \notin Pool => Unspent(Approve(s, t, owner, spender, x), s)
<1> DEFINE r == Approve(s, t, owner, spender, x)
<1>1. s \in Loose /\ x \in Int
  BY StorageIsLoose, ContractsAssumption DEF Uint
<1>2. Approved(r, s, t, owner, spender, x)
  BY <1>1, ApproveFacts
<1> HIDE DEF r
<1>3. r \in Storage
  <2>1. /\ r \in Loose
        /\ \A u \in Token : r.supply[u] \in Uint
        /\ \A u \in Token, a \in Account : r.balance[u][a] \in Uint
        /\ \A p \in Pool, u \in Token : r.reserve[p][u] \in Uint
    BY <1>2, StorageBounds DEF Approved, Uint
  <2>2. \A u \in Token, a \in Account, b \in Account : r.allowance[u][a][b] \in Uint
    BY <1>2, StorageBounds DEF Approved, Uint
  <2>3. QED BY <2>1, <2>2, BoundedIsStorage
<1>4. Solvent(r)
  BY <1>2 DEF Approved, Solvent
<1>a. Conserved(r, s)
  BY <1>2 DEF Approved, Conserved, Held
<1>5. Kept(r, s)
  BY <1>2, <1>3, <1>4, <1>a, SameReserves DEF Approved
<1>6. owner # Backrun => Apart(r, s)
  <2>1. Backrun \in Account
    BY DEF Account
  <2>2. \A u \in Token : s.balance[u][Backrun] \in Int
    BY <2>1, StorageBounds
  <2>3. QED BY <1>2, <2>1, <2>2 DEF Approved, Apart
<1>7. owner \notin Pool => Unspent(r, s)
  <2>1. ASSUME owner \notin Pool, NEW q \in Pool
        PROVE  q \in Account /\ q # owner
    BY <2>1 DEF Account
  <2>2. QED BY <1>2, <2>1 DEF Approved, Unspent
<1>8. QED
  BY <1>5, <1>6, <1>7 DEF r

(* A spender only takes what the owner allows it, and an owner that allows   *)
(* it nothing keeps its tokens: a pool or the executor named as the owner    *)
(* pays nothing.                                                             *)
LEMMA TransferFromKeeps ==
  ASSUME NEW s \in Storage, Solvent(s), NEW t \in Token, NEW spender \in Account,
         NEW from \in Account, NEW to \in Account, NEW x \in Uint,
         from \in Pool \cup {Backrun} => s.allowance[t][from][spender] = 0,
         TransferFrom(s, t, spender, from, to, x).ok
  PROVE  LET r == TransferFrom(s, t, spender, from, to, x)
         IN  Kept(r, s) /\ Apart(r, s) /\ Unspent(r, s)
<1> DEFINE r == TransferFrom(s, t, spender, from, to, x)
<1>1. s \in Loose /\ x \in Int /\ x >= 0
  BY StorageIsLoose, ContractsAssumption DEF Uint
<1>2. Pulled(r, s, t, spender, from, to, x)
  BY <1>1, TransferFromFacts
<1>3. r.ok
  OBVIOUS
<1> HIDE DEF r
<1>4. s.allowance[t][from][spender] \in Int /\ s.allowance[t][from][spender] >= x
  BY <1>2, <1>3, StorageBounds DEF Pulled
<1>5. from \in Pool \cup {Backrun} => x = 0
  BY <1>1, <1>4
<1>6. ASSUME NEW u \in Token, NEW a \in Account
      PROVE  r.balance[u][a] \in Uint
  BY <1>1, <1>2, <1>3, StorageBounds DEF Pulled, Moved, Uint
<1>7. ASSUME NEW u \in Token, NEW a \in Account, NEW b \in Account
      PROVE  r.allowance[u][a][b] \in Uint
  BY <1>1, <1>2, <1>4, StorageBounds DEF Pulled, Uint
<1>8. r \in Storage
  <2>1. /\ r \in Loose
        /\ \A u \in Token : r.supply[u] \in Uint
        /\ \A p \in Pool, u \in Token : r.reserve[p][u] \in Uint
    BY <1>2, StorageBounds DEF Pulled, Uint
  <2>2. QED BY <1>6, <1>7, <2>1, BoundedIsStorage
<1>9. ASSUME NEW u \in Token, NEW a \in Pool \cup {Backrun}
      PROVE  r.balance[u][a] >= s.balance[u][a]
  <2>1. a \in Account
    BY DEF Account
  <2>2. s.balance[u][a] \in Int
    BY <2>1, StorageBounds
  <2>3. QED BY <1>1, <1>2, <1>5, <2>1, <2>2 DEF Pulled, Moved
<1>10. Solvent(r)
  <2>1. ASSUME NEW p \in Pool, NEW u \in Token
        PROVE  r.balance[u][p] >= r.reserve[p][u]
    <3>1. p \in Account /\ s.balance[u][p] >= s.reserve[p][u]
      BY DEF Account, Solvent
    <3>2. s.balance[u][p] \in Int /\ s.reserve[p][u] \in Int /\ r.balance[u][p] \in Int
      BY <1>8, <3>1, StorageBounds
    <3>3. r.reserve[p][u] = s.reserve[p][u] /\ r.balance[u][p] >= s.balance[u][p]
      BY <1>2, <1>9 DEF Pulled
    <3>4. QED BY <3>1, <3>2, <3>3
  <2>2. QED BY <2>1 DEF Solvent
<1>11. Conserved(r, s)
  <2>1. \A u \in Token : Held(r, u) = Held(s, u)
    BY <1>1, <1>2, MovedKeepsHeld DEF Pulled
  <2>2. QED BY <1>2, <2>1 DEF Pulled, Conserved
<1>12. Kept(r, s)
  BY <1>2, <1>8, <1>10, <1>11, SameReserves DEF Pulled
<1>13. ASSUME NEW u \in Token, NEW a \in Pool \cup {Backrun}, NEW b \in Account
       PROVE  r.allowance[u][a][b] = s.allowance[u][a][b]
  <2>1. a \in Account
    BY DEF Account
  <2>2. s.allowance[u][a][b] \in Int
    BY <2>1, StorageBounds
  <2>3. QED BY <1>2, <1>5, <2>1, <2>2 DEF Pulled
<1>14. Apart(r, s) /\ Unspent(r, s)
  BY <1>9, <1>13 DEF Apart, Unspent
<1>15. QED
  BY <1>12, <1>14 DEF r

(* Minting only adds to a balance, so solvent pools stay so and the        *)
(* executor loses nothing.                                                 *)
LEMMA MintKeeps ==
  ASSUME NEW s \in Storage, Solvent(s), NEW t \in Token, NEW to \in Account, NEW x \in Uint,
         MintTo(s, t, to, x).ok
  PROVE  /\ Kept(MintTo(s, t, to, x), s) /\ Apart(MintTo(s, t, to, x), s)
         /\ Unspent(MintTo(s, t, to, x), s)
<1> DEFINE credited == Credit(s, t, to, x)
           supply   == [s.supply EXCEPT ![t] = @ + x]
           minted   == [credited EXCEPT !.supply = supply]
           fits     == s.supply[t] + x \in Uint /\ s.balance[t][to] + x \in Uint
           r        == MintTo(s, t, to, x)
<1>1. s \in Loose /\ x \in Int /\ x >= 0
  BY StorageIsLoose, ContractsAssumption DEF Uint
<1>2. Credited(credited, s, t, to, x)
  BY <1>1, CreditFacts
<1>3. r = Require(minted, fits)
  BY <1>1 DEF MintTo, Credit, Loose
<1>4. r.ok
  OBVIOUS
<1>5. fits \in BOOLEAN
  OBVIOUS
<1>6. /\ supply \in [Token -> Int]
      /\ \A u \in Token : supply[u] = IF u = t THEN s.supply[t] + x ELSE s.supply[u]
  BY <1>1 DEF Loose
<1> HIDE DEF credited, supply
<1>7. /\ minted \in Loose /\ minted.supply = supply
      /\ minted.balance = credited.balance /\ minted.allowance = credited.allowance
      /\ minted.reserve = credited.reserve /\ minted.ok = credited.ok
  BY <1>2, <1>6 DEF Credited, Loose
<1> HIDE DEF minted, fits, r
<1>8. /\ r \in Loose /\ r.supply = supply /\ r.balance = credited.balance
      /\ r.allowance = s.allowance /\ r.reserve = s.reserve /\ fits
  BY <1>2, <1>3, <1>4, <1>5, <1>7, RequireFacts DEF Credited
<1>9. s.supply[t] + x \in Uint /\ s.balance[t][to] + x \in Uint
  BY <1>8 DEF fits
<1>10. \A u \in Token : r.supply[u] \in Uint
  BY <1>6, <1>8, <1>9, StorageBounds DEF Uint
<1>11. \A u \in Token, a \in Account : r.balance[u][a] \in Uint
  BY <1>2, <1>8, <1>9, StorageBounds DEF Credited, Uint
<1>12. r \in Storage
  BY <1>8, <1>10, <1>11, StorageBounds, BoundedIsStorage DEF Uint
<1>13. ASSUME NEW p \in Pool, NEW u \in Token
       PROVE  r.balance[u][p] >= r.reserve[p][u]
  <2>1. p \in Account /\ s.balance[u][p] >= s.reserve[p][u]
    BY DEF Account, Solvent
  <2>2. s.balance[u][p] \in Int /\ s.reserve[p][u] \in Int
    BY <2>1, StorageBounds
  <2>3. r.balance[u][p] >= s.balance[u][p] /\ r.balance[u][p] \in Int
    BY <1>1, <1>2, <1>8, <2>1, <2>2 DEF Credited
  <2>4. QED BY <1>8, <2>1, <2>2, <2>3
<1>a. Conserved(r, s)
  <2>1. SUFFICES ASSUME NEW u \in Token
                 PROVE  Held(r, u) - r.supply[u] = Held(s, u) - s.supply[u]
    BY DEF Conserved
  <2>2. /\ IsFiniteSet(Account) /\ Held(s, u) \in Int /\ s.supply[u] \in Int
        /\ s.balance[u] \in [Account -> Int] /\ r.balance[u] \in [Account -> Int]
    BY <1>1, <1>8, HeldFacts DEF Loose
  <2>3. CASE u = t
    <3>1. \A a \in Account \ {to} : r.balance[t][a] = s.balance[t][a]
      BY <1>2, <1>8 DEF Credited
    <3>2. r.balance[t][to] = s.balance[t][to] + x /\ s.balance[t][to] \in Int
      BY <1>2, <1>8, <2>2, <2>3 DEF Credited
    <3>3. Held(r, t) = Held(s, t) + (r.balance[t][to] - s.balance[t][to])
      BY <2>2, <2>3, <3>1, SumChanges DEF Held
    <3>4. r.supply[t] = s.supply[t] + x
      BY <1>6, <1>8
    <3>5. QED BY <1>1, <2>2, <2>3, <3>2, <3>3, <3>4
  <2>4. CASE u # t
    <3>1. Held(r, u) = Held(s, u)
      BY <1>1, <1>2, <1>8, <2>4, SameHeld DEF Credited
    <3>2. r.supply[u] = s.supply[u]
      BY <1>6, <1>8, <2>4
    <3>3. QED BY <3>1, <3>2
  <2>5. QED BY <2>3, <2>4
<1>14. Kept(r, s)
  BY <1>8, <1>12, <1>13, <1>a, SameReserves DEF Solvent
<1>15. Apart(r, s)
  <2>1. Backrun \in Account
    BY DEF Account
  <2>2. ASSUME NEW u \in Token
        PROVE  r.balance[u][Backrun] >= s.balance[u][Backrun]
    <3>1. s.balance[u][Backrun] \in Int
      BY <2>1, StorageBounds
    <3>2. QED BY <1>1, <1>2, <1>8, <2>1, <3>1 DEF Credited
  <2>3. QED BY <1>8, <2>2 DEF Apart
<1>16. Unspent(r, s)
  BY <1>8 DEF Unspent
<1>17. QED
  BY <1>14, <1>15, <1>16 DEF r

(* A swap pays what it prices: the reserves go down by what the pool sends. *)
LEMMA SwapKeeps ==
  ASSUME NEW s \in Storage, Solvent(s), NEW sender \in Account \ Pool, NEW p \in Pool,
         NEW in \in Token, NEW out \in Token, in # out, NEW x \in Uint, NEW min \in Int,
         Swap(s, sender, p, in, out, x, min).ok
  PROVE  /\ Kept(Swap(s, sender, p, in, out, x, min), s)
         /\ sender # Backrun => Apart(Swap(s, sender, p, in, out, x, min), s)
         /\ Unspent(Swap(s, sender, p, in, out, x, min), s)
<1> DEFINE r == Swap(s, sender, p, in, out, x, min)
           m == AmountOut(x, s.reserve[p][in], s.reserve[p][out])
<1>1. s \in Loose /\ x \in Int /\ x >= 0 /\ sender # p /\ p \in Account
  BY StorageIsLoose, ContractsAssumption DEF Uint, Account
<1>2. Swapped(r, s, sender, p, in, out, x, m)
  BY <1>1, SwapFacts
<1>3. r.ok
  OBVIOUS
<1> HIDE DEF r
<1>4. /\ s.reserve[p][in] \in 0..MaxUint /\ s.reserve[p][out] \in 0..MaxUint
      /\ s.balance[in][sender] \in 0..MaxUint /\ s.balance[out][p] \in 0..MaxUint
      /\ s.balance[in][p] \in 0..MaxUint /\ s.balance[out][sender] \in 0..MaxUint
      /\ MaxUint \in Nat
  BY <1>1, StorageBounds
<1>a. PICK reserveIn \in Nat : reserveIn = s.reserve[p][in]
  BY <1>4
<1>b. PICK reserveOut \in Nat : reserveOut = s.reserve[p][out]
  BY <1>4
<1>c. m = AmountOut(x, reserveIn, reserveOut)
  BY <1>a, <1>b
<1> HIDE DEF m
<1>5. m \in Nat /\ m * (reserveIn * 1000 + x * 997) <= (x * 997) * reserveOut
  <2>1. x \in Nat /\ x > 0 /\ reserveIn > 0
    BY <1>1, <1>2, <1>3, <1>a DEF Swapped
  <2>2. QED BY <1>c, <2>1, AmountOutFacts
<1>6. /\ m > 0 /\ m <= s.reserve[p][out] /\ s.reserve[p][in] + x \in Uint
      /\ s.balance[in][sender] >= x /\ s.balance[out][p] >= m
      /\ r.balance[in][p] \in Uint /\ r.balance[out][sender] \in Uint
      /\ s.allowance[in][sender][p] >= x
  BY <1>2, <1>3 DEF Swapped
<1>7. ASSUME NEW u \in Token, NEW a \in Account
      PROVE  r.balance[u][a] \in Uint
  BY <1>1, <1>2, <1>5, <1>6, StorageBounds DEF Swapped, Uint
<1>8. ASSUME NEW q \in Pool, NEW u \in Token
      PROVE  r.reserve[q][u] \in Uint
  BY <1>1, <1>2, <1>4, <1>5, <1>6, StorageBounds DEF Swapped, Uint
<1>9. ASSUME NEW u \in Token, NEW a \in Account, NEW b \in Account
      PROVE  r.allowance[u][a][b] \in Uint
  BY <1>1, <1>2, <1>6, StorageBounds DEF Swapped, Uint
<1>10. r \in Storage
  <2>1. r.supply = s.supply /\ r \in Loose
    BY <1>2 DEF Swapped
  <2>2. \A u \in Token : r.supply[u] \in Uint
    BY <2>1, StorageBounds DEF Uint
  <2>3. QED BY <1>7, <1>8, <1>9, <2>1, <2>2, BoundedIsStorage
<1>11. ASSUME NEW q \in Pool, NEW u \in Token
       PROVE  r.balance[u][q] >= r.reserve[q][u]
  <2>1. q \in Account /\ s.balance[u][q] >= s.reserve[q][u] /\ sender # q
    BY DEF Account, Solvent
  <2>2. s.balance[u][q] \in Int /\ s.reserve[q][u] \in Int
    BY <2>1, StorageBounds
  <2>3. QED BY <1>1, <1>2, <1>5, <2>1, <2>2 DEF Swapped
<1>12. ASSUME NEW q \in Pool
       PROVE  Product(r, q) >= Product(s, q)
  <2>1. CASE q = p
    <3>1. /\ r.reserve[p][in] = s.reserve[p][in] + x
          /\ r.reserve[p][out] = s.reserve[p][out] - m
      BY <1>2 DEF Swapped
    <3>2. (reserveIn + x) * (reserveOut - m) >= reserveIn * reserveOut
      BY <1>1, <1>5, PriceKeepsProduct
    <3>3. /\ Product(r, p) = r.reserve[p][in] * r.reserve[p][out]
          /\ Product(s, p) = s.reserve[p][in] * s.reserve[p][out]
      BY <1>4, <1>8 DEF Product, Token, Uint
    <3>4. QED BY <1>a, <1>b, <2>1, <3>1, <3>2, <3>3
  <2>2. CASE q # p
    <3>1. r.reserve[q][TokenA] = s.reserve[q][TokenA] /\ r.reserve[q][TokenB] = s.reserve[q][TokenB]
      BY <1>2, <2>2 DEF Swapped, Token
    <3>2. Product(r, q) = Product(s, q) /\ Product(s, q) \in Int
      BY <3>1, StorageBounds DEF Product, Token
    <3>3. QED BY <3>2
  <2>3. QED BY <2>1, <2>2
<1>d. Conserved(r, s)
  <2>1. r \in Loose /\ r.supply = s.supply /\ m \in Int
    BY <1>2, <1>5 DEF Swapped
  <2>2. Held(r, in) = Held(s, in)
    <3>1. Paid(r.balance[in], s.balance[in], sender, p, x)
      BY <1>1, <1>2 DEF Swapped, Paid
    <3>2. QED BY <1>1, <2>1, <3>1, PaymentKeepsHeld
  <2>3. Held(r, out) = Held(s, out)
    <3>1. Paid(r.balance[out], s.balance[out], p, sender, m)
      BY <1>1, <1>2 DEF Swapped, Paid
    <3>2. QED BY <1>1, <2>1, <3>1, PaymentKeepsHeld
  <2>4. Token = {in, out}
    BY DEF Token
  <2>5. QED BY <2>1, <2>2, <2>3, <2>4 DEF Conserved
<1>13. Kept(r, s)
  BY <1>10, <1>11, <1>12, <1>d DEF Kept, Solvent
<1>14. ASSUME sender # Backrun
       PROVE  Apart(r, s)
  <2>1. Backrun \in Account /\ Backrun # p
    BY ContractsAssumption DEF Account
  <2>2. \A u \in Token : s.balance[u][Backrun] \in Int
    BY <2>1, StorageBounds
  <2>3. QED BY <1>1, <1>2, <1>14, <2>1, <2>2 DEF Swapped, Apart
<1>15. Unspent(r, s)
  <2>1. ASSUME NEW q \in Pool
        PROVE  q \in Account /\ q # sender
    BY DEF Account
  <2>2. QED BY <1>2, <2>1 DEF Swapped, Unspent
<1>16. QED
  BY <1>13, <1>14, <1>15 DEF r

(* Seeding adds to the reserves what it first moved to the pool, for both  *)
(* tokens.                                                                 *)
LEMMA SeedKeeps ==
  ASSUME NEW s \in Storage, Solvent(s), NEW sender \in Account \ Pool, NEW p \in Pool,
         NEW a \in Uint, NEW b \in Uint, SeedLiquidity(s, sender, p, a, b).ok
  PROVE  /\ Kept(SeedLiquidity(s, sender, p, a, b), s)
         /\ sender # Backrun => Apart(SeedLiquidity(s, sender, p, a, b), s)
         /\ Unspent(SeedLiquidity(s, sender, p, a, b), s)
<1> DEFINE r     == SeedLiquidity(s, sender, p, a, b)
           some  == a > 0 /\ b > 0
           asked == Require(s, some)
           paidA == TransferFrom(asked, TokenA, p, sender, p, a)
           paidB == TransferFrom(paidA, TokenB, p, sender, p, b)
           gotA  == AddReserve(paidB, p, TokenA, a)
           gotB  == AddReserve(gotA, p, TokenB, b)
           fits  == s.reserve[p][TokenA] + a \in Uint /\ s.reserve[p][TokenB] + b \in Uint
<1>1. r = Require(gotB, fits) /\ r.ok
  BY DEF SeedLiquidity
<1>2. /\ s \in Loose /\ a \in Int /\ a >= 0 /\ b \in Int /\ b >= 0
      /\ sender # p /\ p \in Account
      /\ TokenA \in Token /\ TokenB \in Token /\ TokenA # TokenB
      /\ some \in BOOLEAN /\ fits \in BOOLEAN
  BY StorageIsLoose, ContractsAssumption DEF Uint, Account, Token
<1>3. fits => s.reserve[p][TokenA] + a \in Uint /\ s.reserve[p][TokenB] + b \in Uint
  OBVIOUS
<1> HIDE DEF r, fits, some
<1>4. /\ asked \in Loose /\ asked.ok = (s.ok /\ some)
      /\ asked.supply = s.supply /\ asked.balance = s.balance
      /\ asked.allowance = s.allowance /\ asked.reserve = s.reserve
  BY <1>2, RequireFacts
<1> HIDE DEF asked
<1>5. Pulled(paidA, asked, TokenA, p, sender, p, a)
  BY <1>2, <1>4, TransferFromFacts
<1> HIDE DEF paidA
<1>6. Pulled(paidB, paidA, TokenB, p, sender, p, b)
  <2>1. paidA \in Loose
    BY <1>5 DEF Pulled
  <2>2. QED BY <1>2, <2>1, TransferFromFacts
<1> HIDE DEF paidB
<1>7. Reserved(gotA, paidB, p, TokenA, a)
  BY <1>2, <1>6, AddReserveFacts DEF Pulled
<1> HIDE DEF gotA
<1>8. Reserved(gotB, gotA, p, TokenB, b)
  <2>1. gotA \in Loose
    BY <1>7 DEF Reserved
  <2>2. QED BY <1>2, <2>1, AddReserveFacts
<1> HIDE DEF gotB
<1>9. /\ r \in Loose /\ r.ok = (gotB.ok /\ fits)
      /\ r.supply = gotB.supply /\ r.balance = gotB.balance
      /\ r.allowance = gotB.allowance /\ r.reserve = gotB.reserve
  BY <1>1, <1>2, <1>8, RequireFacts DEF Reserved
<1>10. paidA.ok /\ paidB.ok /\ fits
  BY <1>1, <1>6, <1>7, <1>8, <1>9 DEF Pulled, Reserved
<1>11. /\ r.supply = s.supply /\ r.balance = paidB.balance /\ r.allowance = paidB.allowance
  BY <1>4, <1>5, <1>6, <1>7, <1>8, <1>9 DEF Pulled, Reserved
<1>12. /\ s.balance[TokenA][sender] >= a /\ paidA.balance[TokenA][p] \in Uint
       /\ s.allowance[TokenA][sender][p] >= a
       /\ paidA.balance[TokenB][sender] >= b /\ paidB.balance[TokenB][p] \in Uint
       /\ paidA.allowance[TokenB][sender][p] >= b
  BY <1>4, <1>5, <1>6, <1>10 DEF Pulled
<1>13. \A u \in Token, c \in Account :
          paidA.balance[u][c] = IF u # TokenA THEN s.balance[u][c]
                                ELSE IF c = sender THEN s.balance[u][c] - a
                                ELSE IF c = p THEN s.balance[u][c] + a
                                ELSE s.balance[u][c]
  BY <1>2, <1>4, <1>5 DEF Pulled, Moved
<1>14. \A u \in Token, c \in Account :
          r.balance[u][c] = IF u # TokenB THEN paidA.balance[u][c]
                            ELSE IF c = sender THEN paidA.balance[u][c] - b
                            ELSE IF c = p THEN paidA.balance[u][c] + b
                            ELSE paidA.balance[u][c]
  BY <1>2, <1>6, <1>11 DEF Pulled, Moved
<1>15. ASSUME NEW u \in Token, NEW c \in Account
       PROVE  paidA.balance[u][c] \in Uint
  BY <1>2, <1>12, <1>13, StorageBounds DEF Uint
<1>16. ASSUME NEW u \in Token, NEW c \in Account
       PROVE  r.balance[u][c] \in Uint
  BY <1>2, <1>11, <1>12, <1>14, <1>15, StorageBounds DEF Uint
<1>17. ASSUME NEW u \in Token, NEW c \in Account, NEW d \in Account
       PROVE  paidA.allowance[u][c][d] \in Uint
  BY <1>2, <1>4, <1>5, <1>12, StorageBounds DEF Pulled, Uint
<1>18. ASSUME NEW u \in Token, NEW c \in Account, NEW d \in Account
       PROVE  r.allowance[u][c][d] \in Uint
  BY <1>2, <1>6, <1>11, <1>12, <1>17, StorageBounds DEF Pulled, Uint
<1>19. \A q \in Pool, u \in Token :
          r.reserve[q][u] = IF q # p THEN s.reserve[q][u]
                            ELSE IF u = TokenA THEN s.reserve[q][u] + a
                            ELSE s.reserve[q][u] + b
  BY <1>2, <1>4, <1>5, <1>6, <1>7, <1>8, <1>9 DEF Pulled, Reserved, Token
<1>20. ASSUME NEW q \in Pool, NEW u \in Token
       PROVE  r.reserve[q][u] \in Uint
  BY <1>2, <1>3, <1>10, <1>19, StorageBounds DEF Token, Uint
<1>21. r \in Storage
  <2>1. \A u \in Token : r.supply[u] \in Uint
    BY <1>11, StorageBounds DEF Uint
  <2>2. QED BY <1>9, <1>16, <1>18, <1>20, <2>1, BoundedIsStorage
<1>22. ASSUME NEW q \in Pool, NEW u \in Token
       PROVE  r.balance[u][q] >= r.reserve[q][u]
  <2>1. q \in Account /\ s.balance[u][q] >= s.reserve[q][u] /\ sender # q
    BY DEF Account, Solvent
  <2>2. s.balance[u][q] \in Int /\ s.reserve[q][u] \in Int
    BY <2>1, StorageBounds
  <2>3. u = TokenA \/ u = TokenB
    BY DEF Token
  <2>4. QED BY <1>2, <1>13, <1>14, <1>19, <2>1, <2>2, <2>3
<1>23. ASSUME NEW q \in Pool
       PROVE  Product(r, q) >= Product(s, q)
  <2>a. PICK i \in Nat : i = s.reserve[q][TokenA]
    BY <1>2, StorageBounds
  <2>b. PICK j \in Nat : j = s.reserve[q][TokenB]
    BY <1>2, StorageBounds
  <2>1. Product(s, q) = i * j
    BY <2>a, <2>b DEF Product
  <2>2. CASE q = p
    <3>1. Product(r, q) = (i + a) * (j + b)
      BY <1>2, <1>19, <2>2, <2>a, <2>b DEF Product
    <3>2. (i + a) * (j + b) = i * j + i * b + a * j + a * b
      BY <1>2
    <3>3. i * b \in Nat /\ a * j \in Nat /\ a * b \in Nat /\ i * j \in Nat
      BY <1>2
    <3>4. QED BY <2>1, <3>1, <3>2, <3>3
  <2>3. CASE q # p
    <3>1. Product(r, q) = i * j /\ i * j \in Nat
      BY <1>2, <1>19, <2>3, <2>a, <2>b DEF Product
    <3>2. QED BY <2>1, <3>1
  <2>4. QED BY <2>2, <2>3
<1>c. Conserved(r, s)
  <2>1. paidA \in Loose /\ paidB \in Loose
    BY <1>5, <1>6 DEF Pulled
  <2>2. \A u \in Token : Held(paidA, u) = Held(asked, u)
    BY <1>2, <1>4, <1>5, <2>1, MovedKeepsHeld DEF Pulled
  <2>3. \A u \in Token : Held(paidB, u) = Held(paidA, u)
    BY <1>2, <1>6, <2>1, MovedKeepsHeld DEF Pulled
  <2>4. \A u \in Token : Held(r, u) = Held(s, u)
    BY <1>4, <1>11, <2>2, <2>3 DEF Held
  <2>5. QED BY <1>11, <2>4 DEF Conserved
<1>24. Kept(r, s)
  BY <1>21, <1>22, <1>23, <1>c DEF Kept, Solvent
<1>25. ASSUME sender # Backrun
       PROVE  Apart(r, s)
  <2>1. Backrun \in Account /\ Backrun # p
    BY ContractsAssumption DEF Account
  <2>2. \A u \in Token : s.balance[u][Backrun] \in Int
    BY <2>1, StorageBounds
  <2>3. \A u \in Token : r.balance[u][Backrun] = s.balance[u][Backrun]
    BY <1>13, <1>14, <1>25, <2>1
  <2>4. \A u \in Token, c \in Account :
           r.allowance[u][Backrun][c] = s.allowance[u][Backrun][c]
    BY <1>4, <1>5, <1>6, <1>11, <1>25, <2>1 DEF Pulled
  <2>5. QED BY <2>2, <2>3, <2>4 DEF Apart
<1>26. Unspent(r, s)
  <2>1. ASSUME NEW q \in Pool
        PROVE  q \in Account /\ q # sender
    BY DEF Account
  <2>2. QED BY <1>2, <1>4, <1>5, <1>6, <1>11, <2>1 DEF Pulled, Unspent
<1>27. QED
  BY <1>24, <1>25, <1>26 DEF r

(* What a backrun does: it keeps what a swap keeps, its two allowances are  *)
(* used up, and the executor has no less of either token.                   *)
Backran(r, s, buy, sell) ==
    /\ Kept(r, s) /\ Unspent(r, s)
    /\ \A t \in Token : r.balance[t][Backrun] >= s.balance[t][Backrun]
    /\ \A t \in Token, a \in Account :
          r.allowance[t][Backrun][a] =
             IF (t = TokenB /\ a = buy) \/ (t = TokenA /\ a = sell) THEN 0
             ELSE s.allowance[t][Backrun][a]

(* executeBackrun() from end to end: a call that passes all its requires   *)
(* did what Backran says.                                                  *)
LEMMA BackrunKeeps ==
  ASSUME NEW s \in Storage, Solvent(s), NEW buy \in Pool, NEW sell \in Pool,
         NEW x \in Uint, NEW minA \in Int, NEW minB \in Int, NEW minProfit \in Int,
         ExecuteBackrun(s, buy, sell, x, minA, minB, minProfit).ok
  PROVE  Backran(ExecuteBackrun(s, buy, sell, x, minA, minB, minProfit), s, buy, sell)
<1> DEFINE r       == ExecuteBackrun(s, buy, sell, x, minA, minB, minProfit)
           before  == s.balance[TokenB][Backrun]
           able    == buy # sell /\ x > 0 /\ before >= x
           checked == Require(s, able)
           outA    == AmountOut(x, s.reserve[buy][TokenB], s.reserve[buy][TokenA])
           lentB   == Approve(checked, TokenB, Backrun, buy, x)
           bought  == Swap(lentB, Backrun, buy, TokenB, TokenA, x, minA)
           lentA   == Approve(bought, TokenA, Backrun, sell, outA)
           sold    == Swap(lentA, Backrun, sell, TokenA, TokenB, outA, minB)
           profit  == sold.balance[TokenB][Backrun] - before
           worth   == profit \in Uint /\ profit >= minProfit
<1>1. r = Require(sold, worth) /\ r.ok
  BY DEF ExecuteBackrun
<1>2. /\ s \in Loose /\ x \in Int /\ x >= 0
      /\ Backrun \in Account /\ Backrun \notin Pool /\ Backrun # buy /\ Backrun # sell
      /\ buy \in Account /\ sell \in Account
      /\ TokenA \in Token /\ TokenB \in Token /\ TokenA # TokenB
      /\ able \in BOOLEAN /\ worth \in BOOLEAN
  <2>1. s \in Loose /\ x \in Int /\ x >= 0
    BY StorageIsLoose, ContractsAssumption DEF Uint
  <2>2. /\ Backrun \in Account /\ Backrun \notin Pool /\ Backrun # buy /\ Backrun # sell
        /\ buy \in Account /\ sell \in Account
    BY ContractsAssumption DEF Account
  <2>3. TokenA \in Token /\ TokenB \in Token /\ TokenA # TokenB
    BY ContractsAssumption DEF Token
  <2>4. able \in BOOLEAN /\ worth \in BOOLEAN
    OBVIOUS
  <2>5. QED BY <2>1, <2>2, <2>3, <2>4
<1>3. able => buy # sell /\ before >= x
  OBVIOUS
<1>4. worth => profit >= 0
  <2>1. \A q \in Uint : q >= 0
    BY DEF Uint
  <2> HIDE DEF profit
  <2>2. QED BY <2>1
<1>a. PICK reserveB \in Int : reserveB = s.reserve[buy][TokenB]
  BY <1>2, StorageBounds
<1>b. PICK reserveA \in Int : reserveA = s.reserve[buy][TokenA]
  BY <1>2, StorageBounds
<1>5. outA = AmountOut(x, reserveB, reserveA) /\ outA \in Int
  BY <1>2, <1>a, <1>b, AmountOutIsInt
<1> HIDE DEF r, able, worth, outA
<1>6. /\ checked \in Loose /\ checked.ok = (s.ok /\ able)
      /\ checked.supply = s.supply /\ checked.balance = s.balance
      /\ checked.allowance = s.allowance /\ checked.reserve = s.reserve
  BY <1>2, RequireFacts
<1> HIDE DEF checked
<1>7. Approved(lentB, checked, TokenB, Backrun, buy, x)
  BY <1>2, <1>6, ApproveFacts
<1>c. lentB \in Loose /\ lentB.reserve = s.reserve
  BY <1>6, <1>7 DEF Approved
<1>8. bought = Swap(lentB, Backrun, buy, TokenB, TokenA, x, minA)
  OBVIOUS
<1> HIDE DEF lentB, bought
<1>9. Swapped(bought, lentB, Backrun, buy, TokenB, TokenA, x, outA)
  <2>1. outA = AmountOut(x, lentB.reserve[buy][TokenB], lentB.reserve[buy][TokenA])
    BY <1>c DEF outA
  <2>2. QED BY <1>2, <1>8, <1>c, <2>1, SwapFacts
<1>d. bought \in Loose
  BY <1>9 DEF Swapped
<1>10. Approved(lentA, bought, TokenA, Backrun, sell, outA)
  BY <1>2, <1>5, <1>d, ApproveFacts
<1>e. lentA \in Loose /\ lentA.reserve = bought.reserve
  BY <1>10 DEF Approved
<1>11. sold = Swap(lentA, Backrun, sell, TokenA, TokenB, outA, minB)
  OBVIOUS
<1> DEFINE outB == AmountOut(outA, lentA.reserve[sell][TokenA], lentA.reserve[sell][TokenB])
<1> HIDE DEF lentA, sold
<1>12. Swapped(sold, lentA, Backrun, sell, TokenA, TokenB, outA, outB)
  BY <1>2, <1>5, <1>11, <1>e, SwapFacts
<1> HIDE DEF outB
<1>f. sold \in Loose
  BY <1>12 DEF Swapped
<1>13. /\ r.supply = sold.supply /\ r.balance = sold.balance
       /\ r.allowance = sold.allowance /\ r.reserve = sold.reserve
       /\ sold.ok /\ worth
  BY <1>1, <1>2, <1>f, RequireFacts
<1>14. lentA.ok /\ bought.ok /\ lentB.ok /\ checked.ok /\ able
  BY <1>6, <1>7, <1>9, <1>10, <1>12, <1>13 DEF Swapped, Approved
<1>15. checked \in Storage /\ Solvent(checked) /\ \A p \in Pool : Product(checked, p) = Product(s, p)
  BY <1>6, StorageBounds, BoundedIsStorage DEF Solvent, Product, Uint
<1>16. Kept(lentB, checked)
  BY <1>2, <1>15, ApproveKeeps DEF lentB
<1>17. Kept(bought, lentB)
  <2>1. lentB \in Storage /\ Solvent(lentB)
    BY <1>16 DEF Kept
  <2>2. QED BY <1>2, <1>8, <1>14, <2>1, SwapKeeps
<1>18. outA \in Uint
  <2>1. outA > 0 /\ outA <= lentB.reserve[buy][TokenA]
    BY <1>9, <1>14 DEF Swapped
  <2>2. lentB.reserve[buy][TokenA] \in 0..MaxUint /\ MaxUint \in Nat
    BY <1>2, <1>c, StorageBounds
  <2>3. QED BY <1>5, <2>1, <2>2 DEF Uint
<1>19. Kept(lentA, bought)
  <2>1. bought \in Storage /\ Solvent(bought)
    BY <1>17 DEF Kept
  <2>2. QED BY <1>2, <1>18, <2>1, ApproveKeeps DEF lentA
<1>20. Kept(sold, lentA)
  <2>1. lentA \in Storage /\ Solvent(lentA)
    BY <1>19 DEF Kept
  <2>2. QED BY <1>2, <1>11, <1>13, <1>18, <2>1, SwapKeeps
<1>21. Kept(sold, checked)
  <2>1. /\ checked \in Storage /\ lentB \in Storage /\ bought \in Storage
        /\ lentA \in Storage /\ sold \in Storage
    BY <1>15, <1>16, <1>17, <1>19, <1>20 DEF Kept
  <2>2. Kept(bought, checked)
    BY <1>16, <1>17, <2>1, KeptTwice
  <2>3. Kept(lentA, checked)
    BY <1>19, <2>1, <2>2, KeptTwice
  <2>4. QED BY <1>20, <2>1, <2>3, KeptTwice
<1>22. Kept(r, s)
  <2>1. sold \in Storage /\ Solvent(sold)
    BY <1>21 DEF Kept
  <2>2. r \in Loose
    BY <1>1, <1>2, <1>f, RequireFacts
  <2>3. r \in Storage
    BY <1>13, <2>1, <2>2, StorageBounds, BoundedIsStorage DEF Uint
  <2>4. Solvent(r)
    BY <1>13, <2>1 DEF Solvent
  <2>5. ASSUME NEW p \in Pool
        PROVE  Product(r, p) >= Product(s, p)
    BY <1>13, <1>15, <1>21 DEF Kept, Product
  <2>6. Conserved(r, s)
    BY <1>6, <1>13, <1>21 DEF Kept, Conserved, Held
  <2>7. QED BY <2>3, <2>4, <2>5, <2>6 DEF Kept
<1>23. ASSUME NEW t \in Token
       PROVE  r.balance[t][Backrun] >= s.balance[t][Backrun]
  <2>1. s.balance[t][Backrun] \in Int /\ before \in Int
    BY <1>2, StorageBounds
  <2>2. CASE t = TokenB
    <3>1. sold.balance[TokenB][Backrun] \in Int
      BY <1>2, <1>f DEF Loose
    <3>2. QED BY <1>4, <1>13, <2>1, <2>2, <3>1
  <2>3. CASE t = TokenA
    <3>1. bought.balance[TokenA][Backrun] = s.balance[TokenA][Backrun] + outA
      BY <1>2, <1>6, <1>7, <1>9 DEF Swapped, Approved
    <3>2. sold.balance[TokenA][Backrun] = bought.balance[TokenA][Backrun] - outA
      BY <1>2, <1>10, <1>12 DEF Swapped, Approved
    <3>3. QED BY <1>5, <1>13, <2>1, <2>3, <3>1, <3>2
  <2>4. QED BY <2>2, <2>3 DEF Token
<1>24. ASSUME NEW t \in Token, NEW a \in Account
       PROVE  r.allowance[t][Backrun][a] =
                 IF (t = TokenB /\ a = buy) \/ (t = TokenA /\ a = sell) THEN 0
                 ELSE s.allowance[t][Backrun][a]
  <2>1. x < MaxUint /\ outA < MaxUint
    BY <1>9, <1>12, <1>13, <1>14 DEF Swapped
  <2>2. x # MaxUint /\ outA # MaxUint /\ x - x = 0 /\ outA - outA = 0
    BY <1>2, <1>5, <2>1, ContractsAssumption
  <2>3. bought.allowance[t][Backrun][a] =
           IF t = TokenB /\ a = buy THEN 0 ELSE s.allowance[t][Backrun][a]
    BY <1>2, <1>6, <1>7, <1>9, <2>2 DEF Swapped, Approved
  <2>4. sold.allowance[t][Backrun][a] =
           IF t = TokenA /\ a = sell THEN 0 ELSE bought.allowance[t][Backrun][a]
    BY <1>2, <1>10, <1>12, <2>2 DEF Swapped, Approved
  <2>5. QED BY <1>13, <2>3, <2>4
<1>g. Unspent(r, s)
  <2>1. ASSUME NEW q \in Pool
        PROVE  q \in Account /\ q # Backrun
    BY ContractsAssumption DEF Account
  <2>2. \A t \in Token, q \in Pool, a \in Account :
           bought.allowance[t][q][a] = s.allowance[t][q][a]
    BY <1>2, <1>6, <1>7, <1>9, <2>1 DEF Swapped, Approved
  <2>3. \A t \in Token, q \in Pool, a \in Account :
           sold.allowance[t][q][a] = bought.allowance[t][q][a]
    BY <1>2, <1>10, <1>12, <2>1 DEF Swapped, Approved
  <2>4. QED BY <1>13, <2>2, <2>3 DEF Unspent
<1>25. Backran(r, s, buy, sell)
  BY <1>22, <1>23, <1>24, <1>g DEF Backran
<1>26. QED
  BY <1>25 DEF r

(* What a backrun pays, if it does not revert: the executor has what it     *)
(* put in replaced by what the second pool gives for what the first one     *)
(* gave, at prices that are not zero, and no user has paid.                 *)
Profited(r, s, buy, sell, x) ==
    LET outA == AmountOut(x, s.reserve[buy][TokenB], s.reserve[buy][TokenA])
        outB == AmountOut(outA, s.reserve[sell][TokenA], s.reserve[sell][TokenB])
    IN  /\ r.balance[TokenB][Backrun] = (s.balance[TokenB][Backrun] - x) + outB
        /\ \A t \in Token, u \in User : r.balance[t][u] = s.balance[t][u]
        /\ x > 0 /\ outA > 0
        /\ \A t \in Token : s.reserve[buy][t] > 0 /\ s.reserve[sell][t] > 0

(* executeBackrun() pays exactly that: the second swap finds its pool as it *)
(* was before the first one.                                                *)
LEMMA BackrunPays ==
  ASSUME NEW s \in Loose, NEW buy \in Pool, NEW sell \in Pool,
         NEW x \in Int, NEW minA \in Int, NEW minB \in Int, NEW minProfit \in Int,
         ExecuteBackrun(s, buy, sell, x, minA, minB, minProfit).ok
  PROVE  Profited(ExecuteBackrun(s, buy, sell, x, minA, minB, minProfit), s, buy, sell, x)
<1> DEFINE r       == ExecuteBackrun(s, buy, sell, x, minA, minB, minProfit)
           before  == s.balance[TokenB][Backrun]
           able    == buy # sell /\ x > 0 /\ before >= x
           checked == Require(s, able)
           outA    == AmountOut(x, s.reserve[buy][TokenB], s.reserve[buy][TokenA])
           lentB   == Approve(checked, TokenB, Backrun, buy, x)
           bought  == Swap(lentB, Backrun, buy, TokenB, TokenA, x, minA)
           lentA   == Approve(bought, TokenA, Backrun, sell, outA)
           sold    == Swap(lentA, Backrun, sell, TokenA, TokenB, outA, minB)
           profit  == sold.balance[TokenB][Backrun] - before
           worth   == profit \in Uint /\ profit >= minProfit
           outB    == AmountOut(outA, s.reserve[sell][TokenA], s.reserve[sell][TokenB])
<1>1. r = Require(sold, worth) /\ r.ok
  BY DEF ExecuteBackrun
<1>2. /\ Backrun \in Account /\ Backrun # buy /\ Backrun # sell
      /\ buy \in Account /\ sell \in Account
      /\ TokenA \in Token /\ TokenB \in Token /\ TokenA # TokenB
      /\ able \in BOOLEAN /\ worth \in BOOLEAN
      /\ \A u \in User : u \in Account /\ u # Backrun /\ u # buy /\ u # sell
  BY ContractsAssumption DEF Account, Token
<1>3. /\ \A p \in Pool, t \in Token : s.reserve[p][t] \in Int
      /\ \A t \in Token, a \in Account : s.balance[t][a] \in Int
  BY DEF Loose
<1>4. outA \in Int /\ outB \in Int
  <2>1. outA \in Int
    BY <1>2, <1>3, AmountOutIsInt
  <2> HIDE DEF outA
  <2>2. QED BY <1>2, <1>3, <2>1, AmountOutIsInt
<1>5. able => buy # sell
  OBVIOUS
<1> HIDE DEF r, able, worth, outA
<1>6. /\ checked \in Loose /\ checked.ok = (s.ok /\ able)
      /\ checked.balance = s.balance /\ checked.reserve = s.reserve
  BY <1>2, RequireFacts
<1> HIDE DEF checked
<1>7. Approved(lentB, checked, TokenB, Backrun, buy, x)
  BY <1>2, <1>6, ApproveFacts
<1>8. lentB \in Loose /\ lentB.reserve = s.reserve /\ lentB.balance = s.balance
  BY <1>6, <1>7 DEF Approved
<1>9. bought = Swap(lentB, Backrun, buy, TokenB, TokenA, x, minA)
  OBVIOUS
<1> HIDE DEF lentB, bought
<1>10. Swapped(bought, lentB, Backrun, buy, TokenB, TokenA, x, outA)
  <2>1. outA = AmountOut(x, lentB.reserve[buy][TokenB], lentB.reserve[buy][TokenA])
    BY <1>8 DEF outA
  <2>2. QED BY <1>2, <1>8, <1>9, <2>1, SwapFacts
<1>11. bought \in Loose
  BY <1>10 DEF Swapped
<1>12. Approved(lentA, bought, TokenA, Backrun, sell, outA)
  BY <1>2, <1>4, <1>11, ApproveFacts
<1>13. lentA \in Loose /\ lentA.reserve = bought.reserve /\ lentA.balance = bought.balance
       /\ (lentA.ok => bought.ok)
  BY <1>12 DEF Approved
<1>14. sold = Swap(lentA, Backrun, sell, TokenA, TokenB, outA, minB)
  OBVIOUS
<1> DEFINE got == AmountOut(outA, lentA.reserve[sell][TokenA], lentA.reserve[sell][TokenB])
<1> HIDE DEF lentA, sold
<1>15. Swapped(sold, lentA, Backrun, sell, TokenA, TokenB, outA, got)
  BY <1>2, <1>4, <1>13, <1>14, SwapFacts
<1>16. sold \in Loose
  BY <1>15 DEF Swapped
<1>17. r.balance = sold.balance /\ sold.ok
  BY <1>1, <1>2, <1>16, RequireFacts
<1>18. lentA.ok /\ bought.ok /\ lentB.ok /\ checked.ok /\ buy # sell
  BY <1>5, <1>6, <1>7, <1>10, <1>13, <1>15, <1>17 DEF Swapped, Approved
<1>19. \A t \in Token : lentA.reserve[sell][t] = s.reserve[sell][t]
  BY <1>2, <1>8, <1>10, <1>13, <1>18 DEF Swapped
<1>20. got = outB
  BY <1>2, <1>19
<1> HIDE DEF got, outB
<1>21. r.balance[TokenB][Backrun] = (s.balance[TokenB][Backrun] - x) + outB
  <2>1. bought.balance[TokenB][Backrun] = s.balance[TokenB][Backrun] - x
    BY <1>2, <1>8, <1>10 DEF Swapped
  <2>2. sold.balance[TokenB][Backrun] = bought.balance[TokenB][Backrun] + outB
    BY <1>2, <1>13, <1>15, <1>20 DEF Swapped
  <2>3. QED BY <1>17, <2>1, <2>2
<1>22. \A t \in Token, u \in User : r.balance[t][u] = s.balance[t][u]
  BY <1>2, <1>8, <1>10, <1>13, <1>15, <1>17 DEF Swapped
<1>23. x > 0 /\ outA > 0 /\ s.reserve[buy][TokenB] > 0 /\ s.reserve[buy][TokenA] > 0
  BY <1>2, <1>3, <1>4, <1>8, <1>10, <1>18 DEF Swapped
<1>24. s.reserve[sell][TokenA] > 0 /\ s.reserve[sell][TokenB] > 0
  <2>1. lentA.reserve[sell][TokenA] > 0 /\ got > 0 /\ got <= lentA.reserve[sell][TokenB]
    BY <1>15, <1>17 DEF Swapped
  <2>2. QED BY <1>2, <1>3, <1>4, <1>19, <1>20, <2>1
<1>25. Profited(r, s, buy, sell, x)
  BY <1>21, <1>22, <1>23, <1>24 DEF Profited, Token, outA, outB
<1>26. QED
  BY <1>25 DEF r
=============================================================================
