---------------------------- MODULE SandboxProofs ----------------------------
(***************************************************************************)
(* Theorems about the sandbox chain, for every set of pools and users and   *)
(* every width of integers: a pool stays solvent, no transaction makes the  *)
(* product of its reserves smaller, the executor keeps its tokens and ends  *)
(* without an allowance, and the balances add up to the supply.             *)
(***************************************************************************)
EXTENDS Sandbox, SandboxDexProofs

(* A pool never approves anybody, so that nobody takes its tokens by         *)
(* transferFrom.                                                             *)
PoolsGrantNothing ==
    \A t \in Token, p \in Pool, a \in Account : chain.allowance[t][p][a] = 0

IInv == TypeOK /\ PoolsSolvent /\ NoAllowanceLeft /\ PoolsGrantNothing /\ SupplyConserved

(* The total of a token is what all accounts hold of it.                    *)
LEMMA TotalIsHeld ==
  ASSUME NEW t \in Token, DOMAIN chain.balance[t] = Account
  PROVE  Total(t) = Held(chain, t)
  BY DEF Total, Held, SumFunction

(* Freshly deployed contracts satisfy the invariant.                       *)
LEMMA InitHolds == Init => IInv
<1> SUFFICES ASSUME Init
             PROVE  IInv
  OBVIOUS
<1>1. TypeOK
  BY ContractsAssumption DEF Init, TypeOK, Storage, Uint
<1>2. PoolsSolvent
  BY DEF Init, PoolsSolvent, Account
<1>3. NoAllowanceLeft
  BY DEF Init, NoAllowanceLeft, Account
<1>4. SupplyConserved
  <2>1. SUFFICES ASSUME NEW t \in Token
                 PROVE  Total(t) = chain.supply[t]
    BY DEF SupplyConserved
  <2>2. chain \in Loose
    BY <1>1, StorageIsLoose DEF TypeOK
  <2>3. IsFiniteSet(Account) /\ chain.balance[t] \in [Account -> Int]
    BY <2>2, HeldFacts
  <2>4. chain.supply[t] = 0 /\ \A a \in Account : chain.balance[t][a] = 0
    BY DEF Init
  <2>5. Held(chain, t) = 0
    BY <2>3, <2>4, SumOfZeros DEF Held
  <2>6. QED BY <2>3, <2>4, <2>5, TotalIsHeld
<1>5. PoolsGrantNothing
  BY DEF Init, PoolsGrantNothing, Account
<1>6. QED BY <1>1, <1>2, <1>3, <1>4, <1>5 DEF IInv

(* One transaction: the storage it leaves, and what it did to the executor. *)
Sound(r, s) ==
    /\ Kept(r, s) /\ Unspent(r, s)
    /\ \A t \in Token, a \in Account :
          s.allowance[t][Backrun][a] = 0 => r.allowance[t][Backrun][a] = 0

(* A call that leaves the executor's allowances alone leaves none behind.  *)
LEMMA ApartIsSound ==
  ASSUME NEW s \in Storage, NEW r \in Storage, Kept(r, s), Apart(r, s),
         Unspent(r, s)
  PROVE  Sound(r, s)
  BY DEF Apart, Sound

(* Every transaction is sound and leaves the executor its tokens, or takes  *)
(* them by withdrawToken.                                                   *)
LEMMA StepIsSound ==
  ASSUME IInv, Next
  PROVE  Sound(chain', chain) /\ KeepsTokens
<1>1. chain \in Storage /\ Solvent(chain)
  BY DEF IInv, TypeOK, PoolsSolvent, Solvent
<1>2. /\ Trader \subseteq Account /\ Spender \subseteq Account /\ Backrun \notin Trader /\ Trader \cap Pool = {}
      /\ Backrun \in Account \ Pool /\ Pool \subseteq Account
      /\ Amount \subseteq Uint /\ MintedAmount \subseteq Uint /\ ApprovedAmount \subseteq Uint
      /\ MinAmount \subseteq Int /\ {0, 1} \subseteq Int
      /\ TokenA \in Token /\ TokenB \in Token /\ TokenA # TokenB
  BY ContractsAssumption, SandboxAssumption DEF Account, Token, Uint
<1>3. ASSUME Kept(chain', chain), Apart(chain', chain), Unspent(chain', chain)
      PROVE  Sound(chain', chain) /\ KeepsTokens
  <2>1. chain' \in Storage
    BY <1>3 DEF Kept
  <2>2. QED BY <1>1, <1>3, <2>1, ApartIsSound DEF Apart, KeepsTokens
<1>4. ASSUME NEW t \in Token, NEW to \in Account, NEW x \in MintedAmount,
             Mint(t, to, x)
      PROVE  Sound(chain', chain) /\ KeepsTokens
  <2>1. MintTo(chain, t, to, x).ok /\ chain' = MintTo(chain, t, to, x)
    BY <1>4 DEF Mint, Commit
  <2>2. Kept(chain', chain) /\ Apart(chain', chain) /\ Unspent(chain', chain)
    BY <1>1, <1>2, <2>1, MintKeeps
  <2>3. QED BY <1>3, <2>2
<1>5. ASSUME NEW t \in Token, NEW to \in Account, NEW x \in Amount, WithdrawToken(t, to, x)
      PROVE  Sound(chain', chain) /\ KeepsTokens
  <2>1. Transfer(chain, t, Backrun, to, x).ok /\ chain' = Transfer(chain, t, Backrun, to, x)
    BY <1>5 DEF WithdrawToken, Commit
  <2>2. Kept(chain', chain) /\ Unspent(chain', chain)
    BY <1>1, <1>2, <2>1, TransferKeeps
  <2>3. chain \in Loose /\ x \in Int
    BY <1>1, <1>2, StorageIsLoose, ContractsAssumption DEF Uint
  <2>a. Sent(chain', chain, t, Backrun, to, x)
    BY <1>2, <2>1, <2>3, TransferFacts
  <2>4. chain'.allowance = chain.allowance
    BY <2>a DEF Sent
  <2>b. ASSUME NEW other \in Token, other # t
        PROVE  chain'.balance[other][Backrun] >= chain.balance[other][Backrun]
    <3>1. chain'.balance[other][Backrun] = chain.balance[other][Backrun]
      BY <1>2, <2>a, <2>b DEF Sent, Moved
    <3>2. QED BY <1>1, <1>2, <3>1, StorageBounds
  <2>5. KeepsTokens
    BY <1>5, <2>b DEF KeepsTokens
  <2>6. QED BY <2>2, <2>4, <2>5 DEF Sound
<1>6. ASSUME NEW u \in Trader, NEW t \in Token, NEW b \in Spender, NEW x \in ApprovedAmount,
             ApproveSpender(u, t, b, x)
      PROVE  Sound(chain', chain) /\ KeepsTokens
  <2>1. chain' = Approve(chain, t, u, b, x)
    BY <1>6 DEF ApproveSpender, Commit
  <2>2. Kept(chain', chain) /\ Apart(chain', chain) /\ Unspent(chain', chain)
    BY <1>1, <1>2, <2>1, ApproveKeeps
  <2>3. QED BY <1>3, <2>2
<1>7. ASSUME NEW u \in Trader, NEW t \in Token, NEW to \in Account, NEW x \in Amount,
             Send(u, t, to, x)
      PROVE  Sound(chain', chain) /\ KeepsTokens
  <2>1. Transfer(chain, t, u, to, x).ok /\ chain' = Transfer(chain, t, u, to, x)
    BY <1>7 DEF Send, Commit
  <2>2. Kept(chain', chain) /\ Apart(chain', chain) /\ Unspent(chain', chain)
    BY <1>1, <1>2, <2>1, TransferKeeps
  <2>3. QED BY <1>3, <2>2
<1>8. ASSUME NEW u \in Trader, NEW p \in Pool, NEW a \in Amount, NEW b \in Amount,
             Seed(u, p, a, b)
      PROVE  Sound(chain', chain) /\ KeepsTokens
  <2>1. SeedLiquidity(chain, u, p, a, b).ok /\ chain' = SeedLiquidity(chain, u, p, a, b)
    BY <1>8 DEF Seed, Commit
  <2>2. Kept(chain', chain) /\ Apart(chain', chain) /\ Unspent(chain', chain)
    BY <1>1, <1>2, <2>1, SeedKeeps
  <2>3. QED BY <1>3, <2>2
<1>9. ASSUME NEW u \in Trader, NEW p \in Pool, NEW x \in Amount, NEW min \in MinAmount,
             SwapAForB(u, p, x, min) \/ SwapBForA(u, p, x, min)
      PROVE  Sound(chain', chain) /\ KeepsTokens
  <2>1. PICK in \in Token, out \in Token :
           /\ in # out
           /\ Swap(chain, u, p, in, out, x, min).ok
           /\ chain' = Swap(chain, u, p, in, out, x, min)
    BY <1>2, <1>9 DEF SwapAForB, SwapBForA, Commit
  <2>2. Kept(chain', chain) /\ Apart(chain', chain) /\ Unspent(chain', chain)
    BY <1>1, <1>2, <2>1, SwapKeeps
  <2>3. QED BY <1>3, <2>2
<1>10. ASSUME NEW buy \in Pool, NEW sell \in Pool, NEW x \in Amount, NEW minA \in MinAmount,
              NEW minB \in MinAmount, NEW minProfit \in {0, 1},
              RunBackrun(buy, sell, x, minA, minB, minProfit)
       PROVE  Sound(chain', chain) /\ KeepsTokens
  <2>1. /\ ExecuteBackrun(chain, buy, sell, x, minA, minB, minProfit).ok
        /\ chain' = ExecuteBackrun(chain, buy, sell, x, minA, minB, minProfit)
    BY <1>10 DEF RunBackrun, Commit
  <2>2. Backran(chain', chain, buy, sell)
    BY <1>1, <1>2, <2>1, BackrunKeeps
  <2>3. QED BY <2>2 DEF Backran, Sound, KeepsTokens
<1>11. ASSUME NEW u \in Trader, NEW t \in Token, NEW from \in Account, NEW to \in Account,
              NEW x \in Amount, SendFrom(u, t, from, to, x)
       PROVE  Sound(chain', chain) /\ KeepsTokens
  <2>1. /\ TransferFrom(chain, t, u, from, to, x).ok
        /\ chain' = TransferFrom(chain, t, u, from, to, x)
    BY <1>11 DEF SendFrom, Commit
  <2>2. from \in Pool \cup {Backrun} => chain.allowance[t][from][u] = 0
    BY <1>2 DEF IInv, PoolsGrantNothing, NoAllowanceLeft
  <2>3. Kept(chain', chain) /\ Apart(chain', chain) /\ Unspent(chain', chain)
    BY <1>1, <1>2, <2>1, <2>2, TransferFromKeeps
  <2>4. QED BY <1>3, <2>3
<1>12. QED
  BY <1>4, <1>5, <1>6, <1>7, <1>8, <1>9, <1>10, <1>11 DEF Next

(* Every transaction, reverted or not, keeps the invariant.                *)
LEMMA StepHolds == IInv /\ [Next]_chain => IInv'
<1> SUFFICES ASSUME IInv, [Next]_chain
             PROVE  IInv'
  OBVIOUS
<1>1. CASE UNCHANGED chain
  BY <1>1 DEF IInv, TypeOK, PoolsSolvent, NoAllowanceLeft, PoolsGrantNothing, SupplyConserved,
              Total
<1>2. CASE Next
  <2>1. Sound(chain', chain)
    BY <1>2, StepIsSound
  <2>2. chain'.ok
    BY <1>2 DEF Next, Mint, ApproveSpender, Send, SendFrom, Seed, SwapAForB, SwapBForA,
                RunBackrun, WithdrawToken, Commit
  <2>3. TypeOK'
    BY <2>1, <2>2 DEF Sound, Kept, TypeOK
  <2>4. PoolsSolvent'
    BY <2>1 DEF Sound, Kept, Solvent, PoolsSolvent
  <2>5. NoAllowanceLeft'
    BY <2>1 DEF Sound, IInv, NoAllowanceLeft
  <2>6. SupplyConserved'
    <3>1. SUFFICES ASSUME NEW t \in Token
                   PROVE  Total(t)' = chain'.supply[t]
      BY DEF SupplyConserved
    <3>2. chain \in Loose /\ chain' \in Loose
      BY <2>3, StorageIsLoose DEF IInv, TypeOK
    <3>3. /\ chain.balance[t] \in [Account -> Int] /\ chain'.balance[t] \in [Account -> Int]
          /\ Held(chain, t) \in Int /\ Held(chain', t) \in Int
          /\ chain.supply[t] \in Int /\ chain'.supply[t] \in Int
      BY <3>2, HeldFacts DEF Loose
    <3>4. Total(t) = Held(chain, t) /\ Total(t)' = Held(chain', t)
      BY <3>3 DEF Total, Held, SumFunction
    <3>5. Held(chain', t) - chain'.supply[t] = Held(chain, t) - chain.supply[t]
      BY <2>1 DEF Sound, Kept, Conserved
    <3>6. Total(t) = chain.supply[t]
      BY DEF IInv, SupplyConserved
    <3>7. QED BY <3>3, <3>4, <3>5, <3>6
  <2>7. PoolsGrantNothing'
    BY <2>1 DEF Sound, Unspent, IInv, PoolsGrantNothing
  <2>8. QED BY <2>3, <2>4, <2>5, <2>6, <2>7 DEF IInv
<1>3. QED BY <1>1, <1>2

(* The inductive invariant holds after every transaction, for every set of *)
(* accounts, every pools and every bound on the numbers.                   *)
THEOREM Invariance == Spec => []IInv
  BY InitHolds, StepHolds, PTL DEF Spec

(* The storage of the chain keeps its type: every number fits its width.    *)
THEOREM TypeCorrect == Spec => []TypeOK
<1>1. IInv => TypeOK
  BY DEF IInv
<1>2. QED BY <1>1, Invariance, PTL

(* Every pool holds the reserves it prices by, whoever trades with it.      *)
THEOREM Solvency == Spec => []PoolsSolvent
<1>1. IInv => PoolsSolvent
  BY DEF IInv
<1>2. QED BY <1>1, Invariance, PTL

(* Tokens only come from minting: after every transaction the balances of   *)
(* all accounts, pools and executor included, add up to the supply.         *)
THEOREM TokensConserved == Spec => []SupplyConserved
<1>1. IInv => SupplyConserved
  BY DEF IInv
<1>2. QED BY <1>1, Invariance, PTL

(* The executor ends every transaction without an allowance.                *)
THEOREM AllowancesUsedUp == Spec => []NoAllowanceLeft
<1>1. IInv => NoAllowanceLeft
  BY DEF IInv
<1>2. QED BY <1>1, Invariance, PTL

(* No transaction makes the product of a pool's reserves smaller.           *)
THEOREM LiquidityKept == Spec => ProductNeverFalls
<1>1. IInv /\ [Next]_chain => [ProductGrows]_chain
  BY StepIsSound DEF Sound, Kept, ProductGrows
<1>2. QED BY <1>1, Invariance, PTL DEF Spec, ProductNeverFalls

(* No transaction but withdrawToken leaves the executor fewer tokens.       *)
THEOREM ExecutorKeepsTokens == Spec => BackrunNeverLoses
<1>1. IInv /\ [Next]_chain => [KeepsTokens]_chain
  BY StepIsSound
<1>2. QED BY <1>1, Invariance, PTL DEF Spec, BackrunNeverLoses
=============================================================================
