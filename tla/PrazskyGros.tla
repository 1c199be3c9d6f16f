----------------------------- MODULE PrazskyGros -----------------------------
(***************************************************************************)
(* The coin of src/contracts/PrazskyGros.sol.  Every coin is to be covered *)
(* by ether that the contract holds: the owner mints against a payment at  *)
(* the rate, anybody may add to the cover, and a holder who burns coins    *)
(* takes the proportional share of the cover along.  All divisions round   *)
(* down.                                                                   *)
(*                                                                         *)
(* A transaction is atomic, and one that reverts (a failed require, an     *)
(* overflow, a receiver that refuses the payment) leaves no trace: only    *)
(* those that succeed are steps.  The ledger of balances is OpenZeppelin's *)
(* ERC20; nothing here depends on who holds the coins, and any amount up   *)
(* to the supply may be in one hand, so that the supply stands for it.     *)
(* Ether may also reach the address without a call, which no contract can  *)
(* refuse.                                                                 *)
(***************************************************************************)
EXTENDS Integers

CONSTANTS
  Unit,      \* 10**18, the units of a coin
  MaxSupply, \* MAX_SUPPLY
  MaxUint,   \* the largest uint256
  Amounts,   \* coins minted or burned in one transaction
  Values,    \* ether sent with one transaction
  Rates,     \* rates the owner sets
  MaxMints   \* bound: mints

ASSUME GrosAssumption ==
  /\ Unit \in Nat \ {0} /\ MaxSupply \in Nat /\ MaxUint \in Nat /\ MaxMints \in Nat
  /\ Amounts \subseteq Nat /\ Values \subseteq Nat /\ Rates \subseteq Nat

VARIABLES
  supply,       \* totalSupply()
  weiPerGros,
  totalBacking,
  ether,        \* what the address of the contract holds
  mints,        \* history: number of mints, each of which rounds down once
  raised        \* history: the rate has been raised

vars == <<supply, weiPerGros, totalBacking, ether, mints, raised>>

Init ==
  /\ supply = 0
  /\ weiPerGros \in Rates \ {0}
  /\ totalBacking = 0
  /\ ether \in Values
  /\ mints = 0
  /\ raised = FALSE

\* Checked arithmetic: a result that does not fit reverts the transaction.
Fits(n) == n <= MaxUint

RequiredBacking(amount) == (amount * weiPerGros) \div Unit

Deposit(value) ==
  /\ Fits(totalBacking + value)
  /\ totalBacking' = totalBacking + value
  /\ Fits(ether + value)
  /\ ether' = ether + value

\* Mutant: the payment is not compared with the rate.
MintUnpaid(amount, value) ==
  /\ amount > 0
  /\ supply + amount <= MaxSupply
  /\ Deposit(value)
  /\ supply' = supply + amount
  /\ mints < MaxMints
  /\ mints' = mints + 1
  /\ UNCHANGED <<weiPerGros, raised>>

\* mint, by the owner
Mint(amount, value) ==
  /\ amount > 0
  /\ supply + amount <= MaxSupply
  /\ Fits(amount * weiPerGros)
  /\ value >= RequiredBacking(amount)
  /\ Deposit(value)
  /\ supply' = supply + amount
  /\ mints < MaxMints
  /\ mints' = mints + 1
  /\ UNCHANGED <<weiPerGros, raised>>

\* refill, which wants a payment, and receive, which takes any
Refill(value) ==
  /\ Deposit(value)
  /\ UNCHANGED <<supply, weiPerGros, mints, raised>>

\* updateRate, by the owner
UpdateRate(rate) ==
  /\ rate > 0
  /\ weiPerGros' = rate
  /\ raised' = (raised \/ rate > weiPerGros)
  /\ UNCHANGED <<supply, totalBacking, ether, mints>>

\* Mutant: the share is rounded up.
EtherToReturnUp(amount) == (amount * totalBacking + supply - 1) \div supply

EtherToReturn(amount) == (amount * totalBacking) \div supply

\* Mutant: the payment is not taken from the cover.
BurnUncounted(amount) ==
  /\ amount > 0
  /\ amount <= supply
  /\ Fits(amount * totalBacking)
  /\ EtherToReturn(amount) <= ether
  /\ supply' = supply - amount
  /\ ether' = ether - EtherToReturn(amount)
  /\ UNCHANGED <<totalBacking, weiPerGros, mints, raised>>

\* burn; the transfer at its end reverts all of it when the holder refuses the
\* ether or the contract has too little.
Burn(amount) ==
  /\ amount > 0
  /\ amount <= supply
  /\ Fits(amount * totalBacking)
  /\ EtherToReturn(amount) <= totalBacking
  /\ EtherToReturn(amount) <= ether
  /\ totalBacking' = totalBacking - EtherToReturn(amount)
  /\ supply' = supply - amount
  /\ ether' = ether - EtherToReturn(amount)
  /\ UNCHANGED <<weiPerGros, mints, raised>>

\* Ether of a destroyed contract or of a block reward.
ForceEther(value) ==
  /\ Fits(ether + value)
  /\ ether' = ether + value
  /\ UNCHANGED <<supply, weiPerGros, totalBacking, mints, raised>>

Next ==
  \/ \E n \in Amounts, v \in Values : Mint(n, v)
  \/ \E v \in Values : Refill(v) \/ ForceEther(v)
  \/ \E r \in Rates : UpdateRate(r)
  \/ \E n \in Amounts : Burn(n)

Spec == Init /\ [][Next]_vars

-----------------------------------------------------------------------------
TypeOK ==
  /\ supply \in 0..MaxSupply
  /\ weiPerGros \in Nat \ {0}
  /\ totalBacking \in Nat /\ ether \in Nat
  /\ mints \in Nat /\ raised \in BOOLEAN

\* The contract holds at least the ether that it counts as cover, so that the
\* payment at the end of a burn never lacks it.
Solvent == totalBacking <= ether

\* While the rate has not been raised, the coins are covered up to the rounding of
\* the mints, less than one wei each, however often coins are burned in between.
CoveredUpToDust == ~raised => supply * weiPerGros <= (totalBacking + mints) * Unit

\* A burn never takes from the others: the cover per remaining coin does not fall,
\* and whoever burns the last coin leaves no cover behind.
BurnIsFair ==
  [][supply' < supply =>
       /\ totalBacking' * supply >= totalBacking * supply'
       /\ supply' = 0 => totalBacking' = 0]_vars

-----------------------------------------------------------------------------
(* What the code does not have (see the README)                            *)

\* isFull(): "always True if it exists"
AlwaysFull == supply = 0 \/ totalBacking >= RequiredBacking(supply)
=============================================================================
