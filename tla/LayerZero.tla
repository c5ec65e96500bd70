----------------------------- MODULE LayerZero ------------------------------
(***************************************************************************)
(* The LayerZero bridge of the stablecoin: LayerZeroBridge on mainnet locks*)
(* it, LayerZeroBridgeToken on a side chain is a bridge token minted for   *)
(* what arrives and swapped at once for the stablecoin there (module       *)
(* MultiBridge), and messages carry the amounts both ways.                 *)
(*                                                                         *)
(* The endpoint is outside: it hands the messages to a chain in the order  *)
(* they were sent, and a message the bridge refuses (its source is not     *)
(* trusted) holds up those behind it until it is accepted or governance    *)
(* gives it up.  A message that the bridge takes but fails to execute (it  *)
(* is paused, the token is not swappable, the gas ran out) is stored for   *)
(* anybody to retry, in any order.                                         *)
(***************************************************************************)
EXTENDS MultiBridge

CONSTANTS
    Main, Side,          \* the two chains
    LZ,                  \* the bridge of the side chain, a bridge token itself
    MaxMessages,         \* bounds on the messages to each chain and on what
    MaxMinted,           \* governance mints
    MainSupply           \* stablecoins on mainnet

Chains == {Main, Side}
Users == Holders \ {LZ}

ASSUME LayerZeroAssumption ==
    /\ Main # Side
    /\ LZ \in BridgeTokens /\ LZ \in Holders /\ LZ \notin OutsideTokens
    /\ MaxMessages \in Nat /\ MaxMinted \in Nat /\ MainSupply \in Nat
    /\ \E x \in Amounts \union {0} : \A y \in Amounts : y <= x

VARIABLES
    mainTokens,          \* balances of the stablecoin on mainnet
    locked,              \* that of LayerZeroBridge
    credits,             \* LayerZeroBridge: balanceOf
    pausedApps,          \* the chains whose bridge is paused
    trusted,             \* the chains whose bridge has the other as trusted remote
    channel,             \* chain -> messages on their way to it
    heldUp,              \* the chains whose endpoint holds a message they refused
    failed,              \* the messages stored in failedMessages
    nonces,              \* chain -> number of messages sent to it
    received,            \* the messages executed (ReceiveFromChain events)
    dropped,             \* the messages governance gave up
    minted, burnt,       \* bridge tokens governance minted and burnt
    notReceived,         \* user -> what was bridged and not paid, less what was since
    forgotten            \* credits swept or overwritten, and the amounts of dropped

mainVars == <<mainTokens, locked, credits, notReceived>>
messageVars == <<channel, heldUp, failed, nonces, received, dropped>>
switchVars == <<pausedApps, trusted>>
supplyVars == <<minted, burnt>>
lzVars == <<mainVars, messageVars, switchVars, supplyVars, forgotten>>
vars == <<bridgeVars, lzVars>>

Message(c, to, amount) == [dest |-> c, nonce |-> nonces[c] + 1, to |-> to, amount |-> amount]

InFlight(c) == {channel[c][i] : i \in DOMAIN channel[c]}
Pending == InFlight(Main) \union InFlight(Side) \union failed

Other(c) == IF c = Main THEN Side ELSE Main

\* _lzSend: the chain sent from must know the bridge it sends to.
LzSend(c, to, amount) ==
    /\ Other(c) \in trusted
    /\ nonces[c] < MaxMessages
    /\ channel' = [channel EXCEPT ![c] = Append(@, Message(c, to, amount))]
    /\ nonces' = [nonces EXCEPT ![c] = @ + 1]
    /\ UNCHANGED <<heldUp, failed, received, dropped>>

-----------------------------------------------------------------------------
\* Sending: debit here, message to the other chain, in one transaction.

SendFromMain(u, to, amount) ==
    /\ Main \notin pausedApps
    /\ mainTokens[u] >= amount
    /\ mainTokens' = [mainTokens EXCEPT ![u] = @ - amount]
    /\ locked' = locked + amount
    /\ LzSend(Side, to, amount)
    /\ UNCHANGED <<bridgeVars, credits, notReceived, switchVars, supplyVars, forgotten>>

SendCreditFromMain(u, to, amount) ==
    /\ Main \notin pausedApps
    /\ credits[u] >= amount
    /\ credits' = [credits EXCEPT ![u] = @ - amount]
    /\ notReceived' = [notReceived EXCEPT ![u] = @ - amount]
    /\ LzSend(Side, to, amount)
    /\ UNCHANGED <<bridgeVars, mainTokens, locked, switchVars, supplyVars, forgotten>>

\* The stablecoin is swapped out for bridge tokens, that are burnt.
SendFromSide(u, to, amount) ==
    LET paid == AfterFee(LZ, LZ, amount)
    IN  /\ Side \notin pausedApps
        /\ Swappable(LZ)
        /\ RecordOut(amount)
        /\ agTokens[u] >= amount
        /\ tokens[LZ][This] >= paid
        /\ agTokens' = [agTokens EXCEPT ![u] = @ - amount]
        /\ tokens' = [tokens EXCEPT ![LZ][This] = @ - paid]
        /\ issued' = issued - amount
        /\ LzSend(Main, to, paid)
        /\ UNCHANGED <<detailVars, native, contributed, now,
                       mainVars, switchVars, supplyVars, forgotten>>

\* Mutant: the credit is sent and kept.
SendCreditKept(u, to, amount) ==
    /\ Side \notin pausedApps
    /\ tokens[LZ][u] >= amount
    /\ LzSend(Main, to, amount)
    /\ UNCHANGED <<bridgeVars, mainVars, switchVars, supplyVars, forgotten>>

SendCreditFromSide(u, to, amount) ==
    /\ Side \notin pausedApps
    /\ tokens[LZ][u] >= amount
    /\ tokens' = [tokens EXCEPT ![LZ][u] = @ - amount]
    /\ LzSend(Main, to, amount)
    /\ UNCHANGED <<detailVars, usageVars, agTokens, issued, native, contributed, now,
                   mainVars, switchVars, supplyVars, forgotten>>

-----------------------------------------------------------------------------
\* Receiving.

\* LayerZeroBridgeToken has `balances` of itself, with `amount` to swap in for
\* `to`; what the limits leave of all it holds goes to `rest`.
SwapInFor(balances, amount, to, rest) ==
    LET taken == WithinLimits(LZ, amount)
        out == AfterFee(LZ, LZ, taken)
        swapped == Moved(balances, LZ, This, taken)
    IN  /\ Swappable(LZ)
        /\ tokens' = [tokens EXCEPT ![LZ] = Moved(swapped, LZ, rest, swapped[LZ])]
        /\ agTokens' = [agTokens EXCEPT ![to] = @ + out]
        /\ issued' = issued + out
        /\ RecordIn(LZ, taken)
        /\ UNCHANGED <<detailVars, native, contributed, now>>

\* _creditTo, on the side chain and on mainnet: there, if tokens are missing, a credit
\* takes the place of the one the recipient may have.
CreditOnSide(to, amount) ==
    /\ Side \notin pausedApps
    /\ SwapInFor([tokens[LZ] EXCEPT ![LZ] = @ + amount], amount, to, to)
    /\ UNCHANGED <<mainVars, forgotten>>

PayOnMain(to, amount, missing, credit) ==
    /\ Main \notin pausedApps
    /\ locked' = locked - (amount - missing)
    /\ mainTokens' = [mainTokens EXCEPT ![to] = @ + (amount - missing)]
    /\ credits' = IF missing > 0 THEN [credits EXCEPT ![to] = credit] ELSE credits
    /\ forgotten' = forgotten + (IF missing > 0 THEN credits[to] ELSE 0)
    /\ notReceived' = [notReceived EXCEPT ![to] = @ + missing]
    /\ UNCHANGED bridgeVars

\* Mutant: the whole amount is credited although a part of it is paid.
CreditOnMainInFull(to, amount) == PayOnMain(to, amount, Excess(amount, locked), amount)

CreditOnMain(to, amount) ==
    PayOnMain(to, amount, Excess(amount, locked), Excess(amount, locked))

\* _nonblockingLzReceive.
Execute(m) ==
    /\ \/ m.dest = Side /\ CreditOnSide(m.to, m.amount)
       \/ m.dest = Main /\ CreditOnMain(m.to, m.amount)
    /\ received' = received \union {m}
    /\ UNCHANGED <<switchVars, supplyVars>>

Arrived(c) ==
    /\ channel' = [channel EXCEPT ![c] = Tail(@)]
    /\ heldUp' = heldUp \ {c}

\* lzReceive, called by the endpoint of chain c with the first message to it
\* (again if it was refused and the source is trusted since): executed, or...
Deliver(c) ==
    /\ channel[c] # << >> /\ c \in trusted
    /\ Execute(Head(channel[c]))
    /\ Arrived(c)
    /\ UNCHANGED <<failed, nonces, dropped>>

\* Mutant: a message that fails is not stored.
DeliverFailingUnstored(c) ==
    /\ channel[c] # << >> /\ c \in trusted
    /\ Arrived(c)
    /\ UNCHANGED <<bridgeVars, mainVars, failed, nonces, received, dropped, switchVars,
                   supplyVars, forgotten>>

\* ... stored when that fails, for lack of gas too, or...
DeliverFailing(c) ==
    /\ channel[c] # << >> /\ c \in trusted
    /\ Arrived(c)
    /\ failed' = failed \union {Head(channel[c])}
    /\ UNCHANGED <<bridgeVars, mainVars, nonces, received, dropped, switchVars, supplyVars,
                   forgotten>>

\* ... refused, and the endpoint keeps it.
Refuse(c) ==
    /\ channel[c] # << >> /\ c \notin trusted /\ c \notin heldUp
    /\ heldUp' = heldUp \union {c}
    /\ UNCHANGED <<bridgeVars, mainVars, channel, failed, nonces, received, dropped,
                   switchVars, supplyVars, forgotten>>

\* Mutant: messages are retried in the order they were sent.
RetryMessageInOrder(m) ==
    /\ m \in failed
    /\ \A k \in 1..(m.nonce - 1) : \E x \in received : x.dest = m.dest /\ x.nonce = k
    /\ failed' = failed \ {m}
    /\ Execute(m)
    /\ UNCHANGED <<channel, heldUp, nonces, dropped>>

\* retryMessage clears what is stored and executes; if that fails, nothing happens.
RetryMessage(m) ==
    /\ m \in failed
    /\ failed' = failed \ {m}
    /\ Execute(m)
    /\ UNCHANGED <<channel, heldUp, nonces, dropped>>

\* withdraw on mainnet, for oneself to anybody or, with withdrawFor, for another.
WithdrawOnMain(from, to, amount) ==
    /\ Main \notin pausedApps
    /\ credits[from] >= amount
    /\ locked >= amount
    /\ credits' = [credits EXCEPT ![from] = @ - amount]
    /\ notReceived' = [notReceived EXCEPT ![from] = @ - amount]
    /\ locked' = locked - amount
    /\ mainTokens' = [mainTokens EXCEPT ![to] = @ + amount]
    /\ UNCHANGED <<bridgeVars, messageVars, switchVars, supplyVars, forgotten>>

\* withdraw on the side chain, of bridge tokens a limit left.
WithdrawOnSide(from, to, amount) ==
    /\ tokens[LZ][from] >= amount
    /\ SwapInFor(Moved(tokens[LZ], from, LZ, amount), amount, to, from)
    /\ UNCHANGED lzVars

-----------------------------------------------------------------------------
\* Governance.

PauseSendTokens(c) ==
    /\ pausedApps' = (pausedApps \ {c}) \union ({c} \ pausedApps)
    /\ UNCHANGED <<bridgeVars, mainVars, messageVars, trusted, supplyVars, forgotten>>

SetTrustedRemote(c) ==
    /\ trusted' = (trusted \ {c}) \union ({c} \ trusted)
    /\ UNCHANGED <<bridgeVars, mainVars, messageVars, pausedApps, supplyVars, forgotten>>

\* The message held up is given up.
ForceResumeReceive(c) ==
    /\ c \in heldUp /\ channel[c] # << >>
    /\ Arrived(c)
    /\ dropped' = dropped \union {Head(channel[c])}
    /\ forgotten' = forgotten + Head(channel[c]).amount
    /\ UNCHANGED <<bridgeVars, mainVars, failed, nonces, received, switchVars, supplyVars>>

Sweep(u, amount) ==
    /\ credits[u] >= amount
    /\ credits' = [credits EXCEPT ![u] = @ - amount]
    /\ notReceived' = [notReceived EXCEPT ![u] = @ - amount]
    /\ forgotten' = forgotten + amount
    /\ UNCHANGED <<bridgeVars, mainTokens, locked, messageVars, switchVars, supplyVars>>

\* mint and burn of LayerZeroBridgeToken change what the stablecoin contract holds.
MintCapacity(amount) ==
    /\ minted + amount <= MaxMinted
    /\ minted' = minted + amount
    /\ tokens' = [tokens EXCEPT ![LZ][This] = @ + amount]
    /\ contributed' = contributed + amount
    /\ UNCHANGED <<detailVars, usageVars, agTokens, issued, native, now,
                   mainVars, messageVars, switchVars, burnt, forgotten>>

BurnCapacity(amount) ==
    /\ tokens[LZ][This] >= amount
    /\ burnt' = burnt + amount
    /\ tokens' = [tokens EXCEPT ![LZ][This] = @ - amount]
    /\ contributed' = contributed - amount
    /\ UNCHANGED <<detailVars, usageVars, agTokens, issued, native, now,
                   mainVars, messageVars, switchVars, minted, forgotten>>

-----------------------------------------------------------------------------
Init ==
    /\ MultiBridgeInit
    /\ mainTokens \in {f \in [Users -> 0..MainSupply] : TotalOf(f) = MainSupply}
    /\ locked = 0
    /\ credits = [u \in Users |-> 0]
    /\ notReceived = [u \in Users |-> 0]
    /\ channel = [c \in Chains |-> << >>]
    /\ nonces = [c \in Chains |-> 0]
    /\ heldUp = {} /\ failed = {} /\ received = {} /\ dropped = {}
    /\ pausedApps = {} /\ trusted = {}
    /\ minted = 0 /\ burnt = 0 /\ forgotten = 0

UserAction ==
    \E u \in Users, to \in Users, amount \in Amounts :
       \/ SendFromMain(u, to, amount)
       \/ SendCreditFromMain(u, to, amount)
       \/ SendFromSide(u, to, amount)
       \/ SendCreditFromSide(u, to, amount)
       \/ WithdrawOnMain(u, to, amount)
       \/ WithdrawOnSide(u, to, amount)

EndpointAction == \E c \in Chains : Deliver(c) \/ DeliverFailing(c) \/ Refuse(c)

GovernanceAction ==
    \/ \E c \in Chains : PauseSendTokens(c) \/ SetTrustedRemote(c) \/ ForceResumeReceive(c)
    \/ \E u \in Users, amount \in Amounts : Sweep(u, amount)
    \/ \E amount \in Amounts : MintCapacity(amount) \/ BurnCapacity(amount)

Next ==
    \/ UserAction
    \/ EndpointAction
    \/ \E m \in failed : RetryMessage(m)
    \/ GovernanceAction
    \/ MultiBridgeNext /\ UNCHANGED lzVars

\* Relayers hand over every message, and as long as messages have failed that can be
\* executed, somebody retries one.
Fairness ==
    /\ \A c \in Chains : WF_vars(Deliver(c) \/ DeliverFailing(c))
    /\ WF_vars(\E m \in failed : RetryMessage(m))

Spec == Init /\ [][Next]_vars
FairSpec == Spec /\ Fairness

-----------------------------------------------------------------------------
\* Properties.

MessageSet == [dest : Chains, nonce : Nat, to : Users, amount : Nat]

\* Every variable has its type; no balance or credit wraps around.
TypeOK ==
    /\ BridgeTypeOK
    /\ mainTokens \in [Users -> Nat] /\ locked \in Nat
    /\ credits \in [Users -> Nat] /\ notReceived \in [Users -> Nat]
    /\ channel \in [Chains -> Seq(MessageSet)]
    /\ nonces \in [Chains -> Nat]
    /\ heldUp \subseteq Chains /\ pausedApps \subseteq Chains /\ trusted \subseteq Chains
    /\ failed \subseteq MessageSet /\ received \subseteq MessageSet
    /\ dropped \subseteq MessageSet
    /\ minted \in Nat /\ burnt \in Nat /\ forgotten \in Nat

AmountPending == TotalOf([m \in Pending |-> m.amount])

\* Across the two chains and what travels between them, bridge tokens, messages and
\* credits are worth what is locked on mainnet and what governance minted, less what
\* was given up: no message is executed twice or lost, no tokens are paid out unburnt.
BridgedIsBacked ==
    TotalOf(tokens[LZ]) + AmountPending + TotalOf(credits) + forgotten
        = locked + minted - burnt

\* _creditTo says that it should never revert, as all the bridge tokens come from this
\* contract: it can only lack the tokens that governance minted on the side chain.
CreditsComeFromMints == TotalOf(credits) <= minted

\* The storage: balanceOf is "the amount of token bridged but not received".
NotReceivedIsOwed == credits = notReceived

\* Messages are sent, received and given up as module Delivery says, whatever fails,
\* is retried, refused or paused on the way.
AllMessages == [dest : Chains, nonce : 1..MaxMessages, to : Users,
                amount : 0..Highest(Amounts)]
Abstract == INSTANCE Delivery WITH Messages <- AllMessages, pending <- Pending
ImplementsDelivery == Abstract!DeliverySpec

\* Once governance leaves the bridge open, every message is received in the end (there
\* are MaxMessages to each chain): none stays behind a refused or a failed one.
Open ==
    /\ trusted = Chains /\ pausedApps = {}
    /\ Swappable(LZ)
AlwaysArrives == <>[]Open => <>[](Pending = {})
=============================================================================
