------------------------------- MODULE Sandbox -------------------------------
(***************************************************************************)
(* The sandbox chain after its deployment: any account sends transactions   *)
(* to the tokens, the pools and the backrun executor, one after the other.  *)
(* A transaction that reverts changes nothing and is left out.              *)
(***************************************************************************)
EXTENDS SandboxDex, Functions

CONSTANTS
    Minter, Operator,       \* the deployer's and the bot's accounts
    Amount,                 \* bound: the amounts of transfers and swaps
    MinAmount,              \* bound: the least amounts asked of a swap
    ApprovedAmount,         \* bound: the amounts of approvals
    MintedAmount,           \* bound: the amounts minted
    Trader,                 \* bound: the users that trade
    Spender,                \* bound: whom they approve
    MaxSupply               \* bound: the supply of each token

ASSUME SandboxAssumption ==
    /\ Minter \in User /\ Operator \in User /\ Trader \subseteq User
    /\ Spender \subseteq Account
    /\ Amount \subseteq Uint /\ MinAmount \subseteq Uint /\ ApprovedAmount \subseteq Uint
    /\ MintedAmount \subseteq Uint /\ MaxSupply \in Nat

VARIABLE chain

Init ==
    chain = [supply    |-> [t \in Token |-> 0],
             balance   |-> [t \in Token |-> [a \in Account |-> 0]],
             allowance |-> [t \in Token |-> [a \in Account |-> [b \in Account |-> 0]]],
             reserve   |-> [p \in Pool |-> [t \in Token |-> 0]],
             ok        |-> TRUE]

TypeOK == chain \in Storage /\ chain.ok

Commit(s) == s.ok /\ chain' = s

Mint(t, to, x) ==           \* sent by Minter
    chain.supply[t] + x <= MaxSupply /\ Commit(MintTo(chain, t, to, x))
ApproveSpender(u, t, b, x)  == Commit(Approve(chain, t, u, b, x))
Send(u, t, to, x)           == Commit(Transfer(chain, t, u, to, x))
SendFrom(u, t, from, to, x) == Commit(TransferFrom(chain, t, u, from, to, x))
Seed(u, p, a, b)            == Commit(SeedLiquidity(chain, u, p, a, b))
SwapAForB(u, p, x, min)     == Commit(Swap(chain, u, p, TokenA, TokenB, x, min))
SwapBForA(u, p, x, min)     == Commit(Swap(chain, u, p, TokenB, TokenA, x, min))

RunBackrun(buy, sell, x, minA, minB, minProfit) ==      \* sent by Operator
    Commit(ExecuteBackrun(chain, buy, sell, x, minA, minB, minProfit))

WithdrawToken(t, to, x) ==  \* sent by Operator
    Commit(Transfer(chain, t, Backrun, to, x))

Next ==
    \/ \E t \in Token, to \in Account, x \in MintedAmount : Mint(t, to, x)
    \/ \E t \in Token, to \in Account, x \in Amount : WithdrawToken(t, to, x)
    \/ \E u \in Trader, t \in Token, b \in Spender, x \in ApprovedAmount :
          ApproveSpender(u, t, b, x)
    \/ \E u \in Trader, t \in Token, to \in Account, x \in Amount : Send(u, t, to, x)
    \/ \E u \in Trader, t \in Token, from, to \in Account, x \in Amount :
          SendFrom(u, t, from, to, x)
    \/ \E u \in Trader, p \in Pool, a, b \in Amount : Seed(u, p, a, b)
    \/ \E u \in Trader, p \in Pool, x \in Amount, min \in MinAmount :
          SwapAForB(u, p, x, min) \/ SwapBForA(u, p, x, min)
    \/ \E buy, sell \in Pool, x \in Amount, minA, minB \in MinAmount, minProfit \in {0, 1} :
          RunBackrun(buy, sell, x, minA, minB, minProfit)

Spec == Init /\ [][Next]_chain
-----------------------------------------------------------------------------
(***************************************************************************)
(* A pool holds at least the reserves it prices by: the amount a swap pays  *)
(* can always be paid.                                                      *)
(***************************************************************************)
PoolsSolvent ==
    \A p \in Pool, t \in Token : chain.balance[t][p] >= chain.reserve[p][t]

(***************************************************************************)
(* Tokens only come from minting: the balances add up to the supply.        *)
(***************************************************************************)
Total(t) == SumFunction(chain.balance[t])
SupplyConserved == \A t \in Token : Total(t) = chain.supply[t]

(***************************************************************************)
(* The executor leaves no allowance behind: what it approves for a pool is  *)
(* used up by the swap of the same transaction.                             *)
(***************************************************************************)
NoAllowanceLeft ==
    \A t \in Token, a \in Account : chain.allowance[t][Backrun][a] = 0

(***************************************************************************)
(* No transaction makes the product of the reserves of a pool smaller: the  *)
(* rounding and the fee are both in favour of the pool, so that no sequence *)
(* of swaps takes liquidity out of it.                                      *)
(***************************************************************************)
ProductGrows == \A p \in Pool : Product(chain', p) >= Product(chain, p)
ProductNeverFalls == [][ProductGrows]_chain

(***************************************************************************)
(* The executor's tokens go away by withdrawToken and in no other way: a    *)
(* backrun that would lose reverts as a whole.                              *)
(***************************************************************************)
KeepsTokens ==
    \A t \in Token :
        \/ chain'.balance[t][Backrun] >= chain.balance[t][Backrun]
        \/ \E to \in Account, x \in Amount : WithdrawToken(t, to, x)
BackrunNeverLoses == [][KeepsTokens]_chain
=============================================================================
