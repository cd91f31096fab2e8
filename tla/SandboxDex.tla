----------------------------- MODULE SandboxDex -----------------------------
(***************************************************************************)
(* The contracts of the sandbox chain as functions from one state of their  *)
(* storage to the next: the two tokens (SandboxERC20), the pools over them  *)
(* (SandboxDex) and the backrun executor (SandboxBackrun).                  *)
(*                                                                          *)
(* A call that reverts undoes the whole transaction: a failed require, or   *)
(* an arithmetic result that does not fit, clears the field ok, and a       *)
(* storage that is not ok is never committed.                               *)
(***************************************************************************)
EXTENDS Integers, FiniteSets

CONSTANTS
    TokenA, TokenB,
    Pool,                   \* the deployed pools
    User,                   \* externally owned accounts
    Backrun,                \* the executor contract
    MaxUint                 \* type(uint256).max

ASSUME ContractsAssumption ==
    /\ TokenA # TokenB
    /\ IsFiniteSet(Pool) /\ IsFiniteSet(User) /\ Pool \cap User = {}
    /\ Backrun \notin Pool /\ Backrun \notin User
    /\ MaxUint \in Nat

Token   == {TokenA, TokenB}
Account == Pool \cup User \cup {Backrun}
Uint    == 0..MaxUint

FeeNumerator   == 997
FeeDenominator == 1000

Storage ==
    [supply    : [Token -> Uint],
     balance   : [Token -> [Account -> Uint]],
     allowance : [Token -> [Account -> [Account -> Uint]]],    \* owner, spender
     reserve   : [Pool -> [Token -> Uint]],
     ok        : BOOLEAN]

Require(s, condition) == [s EXCEPT !.ok = @ /\ condition]
-----------------------------------------------------------------------------
(* SandboxERC20 *)

MintTo(s, t, to, x) ==
    LET minted == [s EXCEPT !.supply[t] = @ + x, !.balance[t][to] = @ + x]
    IN  Require(minted, s.supply[t] + x \in Uint /\ s.balance[t][to] + x \in Uint)

Approve(s, t, owner, spender, x) == [s EXCEPT !.allowance[t][owner][spender] = x]

\* Faulty variant: both balances are read before either is written.
TransferCached(s, t, from, to, x) ==
    LET moved == [s EXCEPT !.balance[t] = [@ EXCEPT ![from] = s.balance[t][from] - x,
                                                    ![to] = s.balance[t][to] + x]]
    IN  Require(moved, s.balance[t][from] >= x /\ s.balance[t][to] + x \in Uint)

\* _transfer; the sender may be the receiver.
Transfer(s, t, from, to, x) ==
    LET debited == [s EXCEPT !.balance[t][from] = @ - x]
        moved   == [debited EXCEPT !.balance[t][to] = @ + x]
    IN  Require(moved, s.balance[t][from] >= x /\ debited.balance[t][to] + x \in Uint)

\* An allowance of type(uint256).max is not used up.
TransferFrom(s, t, spender, from, to, x) ==
    LET allowed == s.allowance[t][from][spender]
        spent   == IF allowed = MaxUint THEN s
                   ELSE Approve(s, t, from, spender, allowed - x)
    IN  Transfer(Require(spent, allowed >= x), t, from, to, x)
-----------------------------------------------------------------------------
(* SandboxDex *)

Product(s, p) == s.reserve[p][TokenA] * s.reserve[p][TokenB]

AddReserve(s, p, t, x) == [s EXCEPT !.reserve[p][t] = @ + x]

\* What getAmountOut requires: no zero, and no product that overflows.
Priced(x, reserveIn, reserveOut) ==
    /\ x > 0 /\ reserveIn > 0 /\ reserveOut > 0
    /\ x * FeeNumerator * reserveOut \in Uint
    /\ reserveIn * FeeDenominator + x * FeeNumerator \in Uint

\* Faulty variant: rounds in favour of the trader.
AmountOutRoundedUp(x, reserveIn, reserveOut) ==
    LET withFee == x * FeeNumerator
    IN  IF x > 0 /\ reserveIn > 0
        THEN 1 + (withFee * reserveOut) \div (reserveIn * FeeDenominator + withFee)
        ELSE 0

\* getAmountOut; 0 stands for the call that reverts before it divides.
AmountOut(x, reserveIn, reserveOut) ==
    LET withFee == x * FeeNumerator
    IN  IF x > 0 /\ reserveIn > 0
        THEN (withFee * reserveOut) \div (reserveIn * FeeDenominator + withFee)
        ELSE 0

SeedLiquidity(s, sender, p, a, b) ==
    LET paidA  == TransferFrom(Require(s, a > 0 /\ b > 0), TokenA, p, sender, p, a)
        paidB  == TransferFrom(paidA, TokenB, p, sender, p, b)
        seeded == AddReserve(AddReserve(paidB, p, TokenA, a), p, TokenB, b)
    IN  Require(seeded, s.reserve[p][TokenA] + a \in Uint /\ s.reserve[p][TokenB] + b \in Uint)

\* Faulty variant: the reserve that was paid from is not reduced.
SwapKeepsReserve(s, sender, p, in, out, x, min) ==
    LET amount == AmountOut(x, s.reserve[p][in], s.reserve[p][out])
        priced == Require(s, /\ Priced(x, s.reserve[p][in], s.reserve[p][out])
                             /\ amount > 0 /\ amount >= min)
        paid   == TransferFrom(priced, in, p, sender, p, x)
        sent   == Transfer(paid, out, p, sender, amount)
    IN  Require(AddReserve(sent, p, in, x), s.reserve[p][in] + x \in Uint)

\* swapExactAForB and swapExactBForA: tokens in and out of pool p.
Swap(s, sender, p, in, out, x, min) ==
    LET amount == AmountOut(x, s.reserve[p][in], s.reserve[p][out])
        priced == Require(s, /\ Priced(x, s.reserve[p][in], s.reserve[p][out])
                             /\ amount > 0 /\ amount >= min)
        paid   == TransferFrom(priced, in, p, sender, p, x)
        sent   == Transfer(paid, out, p, sender, amount)
        done   == AddReserve(AddReserve(sent, p, in, x), p, out, -amount)
    IN  Require(done, s.reserve[p][in] + x \in Uint /\ amount <= s.reserve[p][out])
-----------------------------------------------------------------------------
(* SandboxBackrun *)

\* Faulty variant: the pools are approved for all the contract holds.
ExecuteBackrunApprovesAll(s, buy, sell, x, minA, minB, minProfit) ==
    LET before   == s.balance[TokenB][Backrun]
        checked  == Require(s, buy # sell /\ x > 0 /\ before >= x)
        outA     == AmountOut(x, s.reserve[buy][TokenB], s.reserve[buy][TokenA])
        bought   == Swap(Approve(checked, TokenB, Backrun, buy, before),
                         Backrun, buy, TokenB, TokenA, x, minA)
        sold     == Swap(Approve(bought, TokenA, Backrun, sell, outA),
                         Backrun, sell, TokenA, TokenB, outA, minB)
        profit   == sold.balance[TokenB][Backrun] - before
    IN  Require(sold, profit \in Uint /\ profit >= minProfit)

\* Faulty variant: the profit is not looked at.
ExecuteBackrunAtALoss(s, buy, sell, x, minA, minB, minProfit) ==
    LET before   == s.balance[TokenB][Backrun]
        checked  == Require(s, buy # sell /\ x > 0 /\ before >= x)
        outA     == AmountOut(x, s.reserve[buy][TokenB], s.reserve[buy][TokenA])
        bought   == Swap(Approve(checked, TokenB, Backrun, buy, x),
                         Backrun, buy, TokenB, TokenA, x, minA)
    IN  Swap(Approve(bought, TokenA, Backrun, sell, outA),
             Backrun, sell, TokenA, TokenB, outA, minB)

\* executeBackrun: B for A in one pool, A for B in the other, or no change at all.
ExecuteBackrun(s, buy, sell, x, minA, minB, minProfit) ==
    LET before   == s.balance[TokenB][Backrun]
        checked  == Require(s, buy # sell /\ x > 0 /\ before >= x)
        outA     == AmountOut(x, s.reserve[buy][TokenB], s.reserve[buy][TokenA])
        bought   == Swap(Approve(checked, TokenB, Backrun, buy, x),
                         Backrun, buy, TokenB, TokenA, x, minA)
        sold     == Swap(Approve(bought, TokenA, Backrun, sell, outA),
                         Backrun, sell, TokenA, TokenB, outA, minB)
        profit   == sold.balance[TokenB][Backrun] - before
    IN  Require(sold, profit \in Uint /\ profit >= minProfit)
=============================================================================
