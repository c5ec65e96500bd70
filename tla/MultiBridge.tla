----------------------------- MODULE MultiBridge -----------------------------
(***************************************************************************)
(* The stablecoin on a side chain (AgTokenSideChainMultiBridge): tokens of *)
(* several bridges are swapped for it, one for one less a fee, under a     *)
(* limit on what the contract holds of each, a limit on what each mints in *)
(* an hour and a limit on what leaves the chain in an hour.                *)
(*                                                                         *)
(* Each call is a step.  The bridge tokens are other contracts: users get  *)
(* them from outside.  So is the rest of the stablecoin, that VaultManagers*)
(* mint and burn (module AgToken).                                         *)
(***************************************************************************)
EXTENDS Integers, Sequences, FiniteSets, Counting

CONSTANTS
    BridgeTokens,
    OutsideTokens,       \* those that come from bridges outside of the model
    Holders,             \* whoever holds and swaps, contracts included
    This,                \* the stablecoin contract itself
    BASE_PARAMS,
    HOUR,                \* 3600 seconds, in ticks
    Amounts,             \* the amounts in calls
    Limits,              \* the values tried for the three limits and the fee
    HourlyLimits,
    ChainLimits,
    Fees,
    Exempted,            \* whose fees governance toggles
    MaxTime,             \* bounds on time, on the stablecoins that do not come
    MaxNative,           \* from a bridge and on each bridge token
    MaxSupply

ASSUME MultiBridgeAssumption ==
    /\ This \notin Holders /\ OutsideTokens \subseteq BridgeTokens
    /\ BASE_PARAMS \in Nat \ {0} /\ HOUR \in Nat \ {0}
    /\ Amounts \subseteq Nat /\ Limits \subseteq Nat /\ HourlyLimits \subseteq Nat
    /\ ChainLimits \subseteq Nat /\ Fees \subseteq Nat /\ Exempted \subseteq Holders
    /\ MaxTime \in Nat /\ MaxNative \in Nat /\ MaxSupply \in Nat

\* Limits have 256 bits: there is a highest one.
ASSUME LimitsAreBounded ==
    \A S \in {HourlyLimits, ChainLimits} : \E x \in S \union {0} : \A y \in S : y <= x

VARIABLES
    bridges,                 \* token -> BridgeDetails
    bridgeTokensList,
    usage,                   \* token -> hour -> volume swapped in
    isFeeExempt,             \* the addresses mapped to 1
    chainTotalHourlyLimit,
    chainTotalUsage,         \* hour -> volume swapped out
    tokens,                  \* token -> balances of the bridge token
    agTokens,                \* balances of the stablecoin
    now,
    issued,                  \* stablecoins minted by swaps less those burnt by them
    native,                  \* stablecoins minted by VaultManagers
    contributed,             \* bridge tokens sent to the contract, less those recovered
    volumeIn,                \* token -> tick -> volume swapped in
    volumeOut                \* tick -> volume swapped out

detailVars == <<bridges, bridgeTokensList, isFeeExempt, chainTotalHourlyLimit>>
usageVars == <<usage, chainTotalUsage, volumeIn, volumeOut>>
balanceVars == <<tokens, agTokens, issued, native, contributed>>
bridgeVars == <<detailVars, usageVars, balanceVars, now>>

Ticks == 0..MaxTime
Hours == 0..(MaxTime \div HOUR)
Hour == now \div HOUR

NoDetails == [limit |-> 0, hourlyLimit |-> 0, fee |-> 0, allowed |-> FALSE, paused |-> FALSE]

MultiBridgeInit ==
    /\ bridges = [t \in BridgeTokens |-> NoDetails]
    /\ bridgeTokensList = << >>
    /\ usage = [t \in BridgeTokens |-> [h \in Hours |-> 0]]
    /\ isFeeExempt = {}
    /\ chainTotalHourlyLimit = 0
    /\ chainTotalUsage = [h \in Hours |-> 0]
    /\ tokens = [t \in BridgeTokens |-> [a \in Holders \union {This} |-> 0]]
    /\ agTokens = [a \in Holders |-> 0]
    /\ now = 0
    /\ issued = 0 /\ native = 0 /\ contributed = 0
    /\ volumeIn = [t \in BridgeTokens |-> [k \in Ticks |-> 0]]
    /\ volumeOut = [k \in Ticks |-> 0]

\* Mutant: the subtraction is not guarded.
Difference(a, b) == a - b

Excess(a, b) == IF a >= b THEN a - b ELSE 0
AtMost(a, b) == IF a <= b THEN a ELSE b

Moved(balances, from, to, amount) ==
    IF from = to THEN balances
    ELSE [balances EXCEPT ![from] = @ - amount, ![to] = @ + amount]

Swappable(token) == bridges[token].allowed /\ ~bridges[token].paused

\* Mutant: the volume already swapped in during the hour is forgotten.
WithinLimitsPerSwap(token, amount) ==
    AtMost(AtMost(amount, Excess(bridges[token].limit, tokens[token][This])),
           bridges[token].hourlyLimit)

\* What is left of a swap in after the limits have cut it.
WithinLimits(token, amount) ==
    AtMost(AtMost(amount, Excess(bridges[token].limit, tokens[token][This])),
           Excess(bridges[token].hourlyLimit, usage[token][Hour]))

AfterFee(token, sender, amount) ==
    IF sender \in isFeeExempt THEN amount
    ELSE amount - (amount * bridges[token].fee) \div BASE_PARAMS

\* The state of the limits after `amount` of `token` has been swapped in, or
\* after `amount` of stablecoins has been swapped out.
RecordIn(token, amount) ==
    /\ usage' = [usage EXCEPT ![token][Hour] = @ + amount]
    /\ volumeIn' = [volumeIn EXCEPT ![token][now] = @ + amount]
    /\ UNCHANGED <<chainTotalUsage, volumeOut>>

RecordOut(amount) ==
    /\ chainTotalUsage[Hour] + amount <= chainTotalHourlyLimit
    /\ chainTotalUsage' = [chainTotalUsage EXCEPT ![Hour] = @ + amount]
    /\ volumeOut' = [volumeOut EXCEPT ![now] = @ + amount]
    /\ UNCHANGED <<usage, volumeIn>>

-----------------------------------------------------------------------------
\* What anybody can do.

\* `taken` of the sender's tokens for `out` stablecoins.
Exchange(sender, token, taken, out, to) ==
    /\ Swappable(token)
    /\ tokens[token][sender] >= taken
    /\ tokens' = [tokens EXCEPT ![token] = Moved(@, sender, This, taken)]
    /\ agTokens' = [agTokens EXCEPT ![to] = @ + out]
    /\ issued' = issued + out
    /\ RecordIn(token, taken)
    /\ UNCHANGED <<detailVars, native, contributed, now>>

\* Mutant: pays for the amount asked for, not for what the limits let in.
SwapInUncut(sender, token, amount, to) ==
    Exchange(sender, token, WithinLimits(token, amount), AfterFee(token, sender, amount), to)

SwapIn(sender, token, amount, to) ==
    LET taken == WithinLimits(token, amount)
    IN  Exchange(sender, token, taken, AfterFee(token, sender, taken), to)

SwapOut(sender, token, amount, to) ==
    LET paid == AfterFee(token, sender, amount)
    IN  /\ Swappable(token)
        /\ RecordOut(amount)
        /\ agTokens[sender] >= amount
        /\ tokens[token][This] >= paid
        /\ agTokens' = [agTokens EXCEPT ![sender] = @ - amount]
        /\ tokens' = [tokens EXCEPT ![token] = Moved(@, This, to, paid)]
        /\ issued' = issued - amount
        /\ UNCHANGED <<detailVars, native, contributed, now>>

\* Sends bridge tokens to the contract, for nothing.
Contribute(token, from, amount) ==
    /\ tokens[token][from] >= amount
    /\ tokens' = [tokens EXCEPT ![token] = Moved(@, from, This, amount)]
    /\ contributed' = contributed + amount
    /\ UNCHANGED <<detailVars, usageVars, agTokens, issued, native, now>>

\* A bridge brings its tokens from another chain.
SupplyOf(token) == TotalOf(tokens[token])

Bridge(token, to, amount) ==
    /\ SupplyOf(token) + amount <= MaxSupply
    /\ tokens' = [tokens EXCEPT ![token][to] = @ + amount]
    /\ UNCHANGED <<detailVars, usageVars, agTokens, issued, native, contributed, now>>

\* A VaultManager mints for a borrower.
MintNative(to, amount) ==
    /\ native + amount <= MaxNative
    /\ agTokens' = [agTokens EXCEPT ![to] = @ + amount]
    /\ native' = native + amount
    /\ UNCHANGED <<detailVars, usageVars, tokens, issued, contributed, now>>

Tick ==
    /\ now < MaxTime
    /\ now' = now + 1
    /\ UNCHANGED <<detailVars, usageVars, balanceVars>>

-----------------------------------------------------------------------------
\* What governors, and for the setters guardians, can do.

AddBridgeToken(token, limit, hourlyLimit, fee, paused) ==
    /\ ~bridges[token].allowed
    /\ fee <= BASE_PARAMS
    /\ bridges' = [bridges EXCEPT ![token] =
                      [limit |-> limit, hourlyLimit |-> hourlyLimit, fee |-> fee,
                       allowed |-> TRUE, paused |-> paused]]
    /\ bridgeTokensList' = Append(bridgeTokensList, token)
    /\ UNCHANGED <<isFeeExempt, chainTotalHourlyLimit, usageVars, balanceVars, now>>

\* Mutant: the last of the list is dropped without taking the place.
WithoutLastToken(list, token) == [i \in 1..(Len(list) - 1) |-> list[i]]

\* The last of the list takes the place of `token` and the list loses its last
\* element, whether `token` was in it or not.
WithoutToken(list, token) ==
    LET n == Len(list)
    IN  [i \in 1..(n - 1) |-> IF list[i] = token THEN list[n] ELSE list[i]]

RemoveBridgeToken(token) ==
    /\ tokens[token][This] = 0
    /\ Len(bridgeTokensList) > 0
    /\ bridges' = [bridges EXCEPT ![token] = NoDetails]
    /\ bridgeTokensList' = WithoutToken(bridgeTokensList, token)
    /\ UNCHANGED <<isFeeExempt, chainTotalHourlyLimit, usageVars, balanceVars, now>>

\* Bridge tokens are recovered to be sent back where they come from.
RecoverERC20(token, to, amount) ==
    /\ tokens[token][This] >= amount
    /\ tokens' = [tokens EXCEPT ![token] = Moved(@, This, to, amount)]
    /\ contributed' = contributed - amount
    /\ UNCHANGED <<detailVars, usageVars, agTokens, issued, native, now>>

\* setLimit, setHourlyLimit, setSwapFee and toggleBridge write one field.
SetDetails(token, details) ==
    /\ bridges[token].allowed
    /\ bridges' = [bridges EXCEPT ![token] = details]
    /\ UNCHANGED <<bridgeTokensList, isFeeExempt, chainTotalHourlyLimit, usageVars,
                   balanceVars, now>>

SetLimit(token, limit) == SetDetails(token, [bridges[token] EXCEPT !.limit = limit])

SetHourlyLimit(token, hourlyLimit) ==
    SetDetails(token, [bridges[token] EXCEPT !.hourlyLimit = hourlyLimit])

SetSwapFee(token, fee) ==
    /\ fee <= BASE_PARAMS
    /\ SetDetails(token, [bridges[token] EXCEPT !.fee = fee])

ToggleBridge(token) == SetDetails(token, [bridges[token] EXCEPT !.paused = ~@])

SetChainTotalHourlyLimit(hourlyLimit) ==
    /\ chainTotalHourlyLimit' = hourlyLimit
    /\ UNCHANGED <<bridges, bridgeTokensList, isFeeExempt, usageVars, balanceVars, now>>

ToggleFeesForAddress(a) ==
    /\ isFeeExempt' = (isFeeExempt \ {a}) \union ({a} \ isFeeExempt)
    /\ UNCHANGED <<bridges, bridgeTokensList, chainTotalHourlyLimit, usageVars,
                   balanceVars, now>>

Governance ==
    \/ \E token \in BridgeTokens :
          \/ \E limit \in Limits, hourlyLimit \in HourlyLimits, fee \in Fees, paused \in BOOLEAN :
                AddBridgeToken(token, limit, hourlyLimit, fee, paused)
          \/ RemoveBridgeToken(token)
          \/ \E to \in Holders, amount \in Amounts : RecoverERC20(token, to, amount)
          \/ \E limit \in Limits : SetLimit(token, limit)
          \/ \E hourlyLimit \in HourlyLimits : SetHourlyLimit(token, hourlyLimit)
          \/ \E fee \in Fees : SetSwapFee(token, fee)
          \/ ToggleBridge(token)
    \/ \E limit \in ChainLimits : SetChainTotalHourlyLimit(limit)
    \/ \E a \in Exempted : ToggleFeesForAddress(a)

MultiBridgeNext ==
    \/ \E token \in BridgeTokens, a \in Holders, amount \in Amounts :
          \/ \E to \in Holders : SwapIn(a, token, amount, to) \/ SwapOut(a, token, amount, to)
          \/ Contribute(token, a, amount)
    \/ \E token \in OutsideTokens, a \in Holders, amount \in Amounts : Bridge(token, a, amount)
    \/ \E a \in Holders, amount \in Amounts : MintNative(a, amount)
    \/ Governance
    \/ Tick

MultiBridgeSpec == MultiBridgeInit /\ [][MultiBridgeNext]_bridgeVars

-----------------------------------------------------------------------------
\* Properties.

Details == [limit : Nat, hourlyLimit : Nat, fee : 0..BASE_PARAMS,
            allowed : BOOLEAN, paused : BOOLEAN]

\* Every variable has its type; no balance, usage or limit wraps around.
BridgeTypeOK ==
    /\ bridges \in [BridgeTokens -> Details]
    /\ bridgeTokensList \in Seq(BridgeTokens)
    /\ usage \in [BridgeTokens -> [Hours -> Nat]]
    /\ isFeeExempt \subseteq Holders
    /\ chainTotalHourlyLimit \in Nat
    /\ chainTotalUsage \in [Hours -> Nat]
    /\ tokens \in [BridgeTokens -> [Holders \union {This} -> Nat]]
    /\ agTokens \in [Holders -> Nat]
    /\ now \in Ticks
    /\ issued \in Int /\ native \in Nat /\ contributed \in Int
    /\ volumeIn \in [BridgeTokens -> [Ticks -> Nat]]
    /\ volumeOut \in [Ticks -> Nat]

Reserve == [t \in BridgeTokens |-> tokens[t][This]]

\* What swaps have minted and not burnt is backed by the bridge tokens held, not
\* counting those that were sent for nothing or recovered: whatever the limits cut,
\* the fees, the exemptions and the orders of swaps in one token and out in another.
SwapsAreBacked == issued <= TotalOf(Reserve) - contributed

\* The limits are per clock hour; the storage says that over a rolling hour that
\* makes twice the limit at most.  This holds for swaps in, by token, and for all
\* swaps out, when the limits change during the hours and tokens come and go.
Highest(S) == CHOOSE x \in S \union {0} : \A y \in S : y <= x

RollingVolumesAreBounded ==
    \A start \in 0..(MaxTime + 1 - HOUR) :
       LET window(f) == [k \in start..(start + HOUR - 1) |-> f[k]]
       IN  /\ \A t \in BridgeTokens :
                 TotalOf(window(volumeIn[t])) <= 2 * Highest(HourlyLimits)
           /\ TotalOf(window(volumeOut)) <= 2 * Highest(ChainLimits)

\* A listed token is supported and listed once, although removeBridgeToken drops the
\* last of the list when it is called for a token that is not in it.
ListedAreSupported ==
    /\ \A i \in DOMAIN bridgeTokensList : bridges[bridgeTokensList[i]].allowed
    /\ \A i, j \in DOMAIN bridgeTokensList :
          i # j => bridgeTokensList[i] # bridgeTokensList[j]
=============================================================================
