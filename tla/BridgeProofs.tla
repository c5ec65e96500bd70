---------------------------- MODULE BridgeProofs -----------------------------
(***************************************************************************)
(* The bridges, for any tokens, holders, limits, fees and amounts.         *)
(*                                                                         *)
(* First the swaps of MultiBridge.tla: types, the list of tokens and what  *)
(* swaps issue.  Then the two chains of LayerZero.tla: a message is in one *)
(* place at a time, so that delivery implements Delivery.tla, and tokens,  *)
(* messages and credits add up.                                            *)
(***************************************************************************)
EXTENDS LayerZero, CountingProofs

-----------------------------------------------------------------------------
\* Arithmetic

LEMMA FractionIsLess ==
    ASSUME NEW amount \in Nat, NEW fee \in 0..BASE_PARAMS
    PROVE  (amount * fee) \div BASE_PARAMS \in 0..amount
<1>1. ASSUME NEW a \in Nat, NEW b \in Nat \ {0}
      PROVE  a \div b \in Nat
  OBVIOUS
<1>2. ASSUME NEW a \in Nat, NEW b \in Nat \ {0}, NEW c \in Nat, a <= c * b
      PROVE  a \div b <= c
  BY <1>2
<1>3. ASSUME NEW a \in Nat, NEW b \in Nat, NEW c \in Nat, b <= c
      PROVE  a * b \in Nat /\ a * b <= a * c
  BY <1>3
<1>4. BASE_PARAMS \in Nat \ {0}
  BY MultiBridgeAssumption
<1>5. amount * fee \in Nat /\ amount * fee <= amount * BASE_PARAMS
  BY <1>3, <1>4
<1> QED
  BY <1>1, <1>2, <1>4, <1>5

\* The hour of a tick is within the bounds of the run.
LEMMA HourIsInRange ==
    ASSUME now \in Ticks
    PROVE  Hour \in Hours
<1>1. ASSUME NEW h \in Nat \ {0}, NEW n \in Nat, NEW m \in Nat, n <= m
      PROVE  n \div h \in 0..(m \div h)
  <2>1. n \div h \in Nat /\ m \div h \in Nat
    OBVIOUS
  <2>2. (n \div h) * h <= n /\ m < (m \div h) * h + h
    OBVIOUS
  <2>3. ASSUME NEW q \in Nat, NEW r \in Nat, q * h <= n, m < r * h + h
        PROVE  q <= r
    <3> SUFFICES ASSUME q >= r + 1 PROVE FALSE
      BY <2>3
    <3>1. q * h >= (r + 1) * h
      OBVIOUS
    <3>2. (r + 1) * h = r * h + h /\ r * h \in Nat /\ q * h \in Nat
      OBVIOUS
    <3> QED
      BY <3>1, <3>2, <2>3, <1>1
  <2> QED
    BY <2>1, <2>2, <2>3
<1> QED
  BY <1>1, MultiBridgeAssumption DEF Ticks, Hour, Hours

Wallets == Holders \union {This}

\* A transfer between two accounts changes neither the types nor the total.
LEMMA TransferChangesNothing ==
    ASSUME NEW A, NEW f \in [A -> Nat], NEW from \in A, NEW to \in A,
           NEW amount \in Nat, amount <= f[from], NEW g, g = Moved(f, from, to, amount)
    PROVE  /\ g \in [A -> Nat]
           /\ from # to => /\ g[from] = f[from] - amount
                           /\ g[to] = f[to] + amount
           /\ \A a \in A \ {from, to} : g[a] = f[a]
           /\ IsFiniteSet(UnitsOf(f)) => Changed(A, f, g, 0)
<1>1. CASE from = to
  BY <1>1, Unmoved DEF Moved
<1>2. CASE from # to
  <2> DEFINE less == [f EXCEPT ![from] = @ - amount]
  <2>1. /\ less \in [A -> Nat] /\ less[from] = f[from] + (0 - amount)
        /\ \A a \in A : a # from => less[a] = f[a]
    OBVIOUS
  <2>2. g = [less EXCEPT ![to] = @ + amount]
    BY <1>2 DEF Moved
  <2> HIDE DEF less
  <2>3. /\ g \in [A -> Nat] /\ g[to] = less[to] + amount
        /\ \A a \in A : a # to => g[a] = less[a]
    BY <2>1, <2>2
  <2>4. ASSUME IsFiniteSet(UnitsOf(f)) PROVE Changed(A, f, g, 0)
    <3>1. Changed(A, f, less, 0 - amount)
      BY <2>1, <2>4, ChangedAtOne
    <3>2. IsFiniteSet(UnitsOf(less))
      BY <3>1 DEF Changed
    <3>3. Changed(A, less, g, amount)
      BY <2>1, <2>3, <3>2, ChangedAtOne
    <3> QED
      BY <3>1, <3>3 DEF Changed
  <2> QED
    BY <1>2, <2>1, <2>3, <2>4
<1> QED
  BY <1>1, <1>2

-----------------------------------------------------------------------------
\* Types of the swaps

UsageTypeOK ==
    /\ usage \in [BridgeTokens -> [Hours -> Nat]]
    /\ chainTotalUsage \in [Hours -> Nat]
    /\ volumeIn \in [BridgeTokens -> [Ticks -> Nat]]
    /\ volumeOut \in [Ticks -> Nat]

LEMMA VolumesAreKept ==
    ASSUME BridgeTypeOK, NEW token \in BridgeTokens, NEW amount \in Nat,
           RecordIn(token, amount) \/ RecordOut(amount)
    PROVE  UsageTypeOK'
<1>1. Hour \in Hours /\ now \in Ticks
  BY HourIsInRange DEF BridgeTypeOK
<1>2. CASE RecordIn(token, amount)
  <2>1. usage[token][Hour] + amount \in Nat /\ volumeIn[token][now] + amount \in Nat
    BY <1>1 DEF BridgeTypeOK
  <2> QED
    BY <1>1, <1>2, <2>1 DEF RecordIn, BridgeTypeOK, UsageTypeOK
<1>3. CASE RecordOut(amount)
  BY <1>1, <1>3 DEF RecordOut, BridgeTypeOK, UsageTypeOK
<1> QED
  BY <1>2, <1>3

LEMMA LimitsCut ==
    ASSUME BridgeTypeOK, NEW token \in BridgeTokens, NEW amount \in Nat
    PROVE  WithinLimits(token, amount) \in 0..amount
<1>1. /\ bridges[token].limit \in Nat /\ bridges[token].hourlyLimit \in Nat
      /\ tokens[token][This] \in Nat /\ usage[token][Hour] \in Nat
  BY HourIsInRange DEF BridgeTypeOK, Details
<1> QED
  BY <1>1 DEF WithinLimits, AtMost, Excess

LEMMA FeesAreTaken ==
    ASSUME BridgeTypeOK, NEW token \in BridgeTokens, NEW sender, NEW amount \in Nat
    PROVE  AfterFee(token, sender, amount) \in 0..amount
<1>1. bridges[token].fee \in 0..BASE_PARAMS
  BY DEF BridgeTypeOK, Details
<1>2. (amount * bridges[token].fee) \div BASE_PARAMS \in 0..amount
  BY <1>1, FractionIsLess
<1> QED
  BY <1>2 DEF AfterFee

\* A transfer of one bridge token, whatever happens to the rest of the state.
LEMMA BridgeTokenMoves ==
    ASSUME BridgeTypeOK, NEW token \in BridgeTokens, NEW from \in Wallets, NEW to \in Wallets,
           NEW amount \in Nat, amount <= tokens[token][from],
           tokens' = [tokens EXCEPT ![token] = Moved(@, from, to, amount)]
    PROVE  /\ tokens' \in [BridgeTokens -> [Wallets -> Nat]]
           /\ \A t \in BridgeTokens \ {token} : tokens'[t] = tokens[t]
           /\ tokens'[token] = Moved(tokens[token], from, to, amount)
           /\ from # to => /\ tokens'[token][from] = tokens[token][from] - amount
                           /\ tokens'[token][to] = tokens[token][to] + amount
<1>1. tokens[token] \in [Wallets -> Nat]
  BY DEF BridgeTypeOK, Wallets
<1>2. /\ Moved(tokens[token], from, to, amount) \in [Wallets -> Nat]
      /\ from # to => /\ Moved(tokens[token], from, to, amount)[from]
                            = tokens[token][from] - amount
                      /\ Moved(tokens[token], from, to, amount)[to]
                            = tokens[token][to] + amount
  BY <1>1, TransferChangesNothing
<1> QED
  BY <1>2 DEF BridgeTypeOK, Wallets

LEMMA ThisIsApart ==
    ASSUME NEW a \in Holders
    PROVE  a \in Wallets /\ This \in Wallets /\ a # This
  BY MultiBridgeAssumption DEF Wallets

LEMMA TokensComeIn ==
    ASSUME BridgeTypeOK, NEW token \in BridgeTokens, NEW a \in Holders, NEW amount \in Nat,
           amount <= tokens[token][a],
           tokens' = [tokens EXCEPT ![token] = Moved(@, a, This, amount)]
    PROVE  /\ tokens'[token][This] = tokens[token][This] + amount
           /\ \A t \in BridgeTokens \ {token} : tokens'[t] = tokens[t]
<1>1. a \in Wallets /\ This \in Wallets /\ a # This
  BY ThisIsApart
<1>2. tokens[token] \in [Wallets -> Nat]
  BY DEF BridgeTypeOK, Wallets
<1>3. Moved(tokens[token], a, This, amount)[This] = tokens[token][This] + amount
  BY <1>1, <1>2, TransferChangesNothing
<1> QED
  BY <1>3 DEF BridgeTypeOK

LEMMA TokensGoOut ==
    ASSUME BridgeTypeOK, NEW token \in BridgeTokens, NEW a \in Holders, NEW amount \in Nat,
           amount <= tokens[token][This],
           tokens' = [tokens EXCEPT ![token] = Moved(@, This, a, amount)]
    PROVE  /\ tokens'[token][This] = tokens[token][This] - amount
           /\ \A t \in BridgeTokens \ {token} : tokens'[t] = tokens[t]
<1>1. a \in Wallets /\ This \in Wallets /\ This # a
  BY ThisIsApart
<1>2. tokens[token] \in [Wallets -> Nat]
  BY DEF BridgeTypeOK, Wallets
<1>3. Moved(tokens[token], This, a, amount)[This] = tokens[token][This] - amount
  BY <1>1, <1>2, TransferChangesNothing
<1> QED
  BY <1>3 DEF BridgeTypeOK

\* The types after a step of a user, from those of what it moves.
LEMMA MovesKeepDetails ==
    ASSUME BridgeTypeOK, UsageTypeOK', tokens' \in [BridgeTokens -> [Wallets -> Nat]],
           agTokens' \in [Holders -> Nat], issued' \in Int, native' \in Nat,
           contributed' \in Int, UNCHANGED detailVars, now' \in Ticks
    PROVE  BridgeTypeOK'
<1>1. /\ bridges' \in [BridgeTokens -> Details] /\ bridgeTokensList' \in Seq(BridgeTokens)
      /\ isFeeExempt' \subseteq Holders /\ chainTotalHourlyLimit' \in Nat
  BY DEF BridgeTypeOK, detailVars
<1>2. tokens' \in [BridgeTokens -> [Holders \union {This} -> Nat]]
  BY DEF Wallets
<1> QED
  BY <1>1, <1>2, Zenon DEF BridgeTypeOK, UsageTypeOK

LEMMA SwapInKeepsTypes ==
    ASSUME BridgeTypeOK, NEW token \in BridgeTokens, NEW a \in Holders, NEW to \in Holders,
           NEW amount \in Amounts, SwapIn(a, token, amount, to)
    PROVE  BridgeTypeOK'
<1> DEFINE taken == WithinLimits(token, amount)
           out == AfterFee(token, a, taken)
<1>1. amount \in Nat
  BY MultiBridgeAssumption
<1>2. taken \in 0..amount /\ out \in 0..taken
  <2>1. taken \in 0..amount
    BY <1>1, LimitsCut
  <2>2. taken \in Nat
    BY <2>1, <1>1
  <2> HIDE DEF taken
  <2>3. out \in 0..taken
    BY <2>2, FeesAreTaken
  <2> QED
    BY <2>1, <2>3
<1>3. Exchange(a, token, taken, out, to)
  BY DEF SwapIn
<1> HIDE DEF taken, out
<1>4. UsageTypeOK'
  BY <1>1, <1>2, <1>3, VolumesAreKept DEF Exchange
<1>5. tokens' \in [BridgeTokens -> [Wallets -> Nat]]
  <2>1. /\ taken \in Nat /\ taken <= tokens[token][a]
        /\ tokens' = [tokens EXCEPT ![token] = Moved(@, a, This, taken)]
    BY <1>1, <1>2, <1>3 DEF Exchange, BridgeTypeOK
  <2> QED
    BY <2>1, ThisIsApart, BridgeTokenMoves
<1>6. /\ agTokens' = [agTokens EXCEPT ![to] = @ + out] /\ issued' = issued + out
      /\ UNCHANGED <<detailVars, native, contributed, now>>
  BY <1>3 DEF Exchange
<1>7. agTokens' \in [Holders -> Nat] /\ issued' \in Int
  BY <1>1, <1>2, <1>6 DEF BridgeTypeOK
<1>8. native' \in Nat /\ contributed' \in Int /\ now' \in Ticks
  BY <1>6 DEF BridgeTypeOK
<1> QED
  BY <1>4, <1>5, <1>6, <1>7, <1>8, MovesKeepDetails

LEMMA SwapOutKeepsTypes ==
    ASSUME BridgeTypeOK, NEW token \in BridgeTokens, NEW a \in Holders, NEW to \in Holders,
           NEW amount \in Amounts, SwapOut(a, token, amount, to)
    PROVE  BridgeTypeOK'
<1> DEFINE paid == AfterFee(token, a, amount)
<1>1. amount \in Nat
  BY MultiBridgeAssumption
<1>2. paid \in 0..amount
  BY <1>1, FeesAreTaken
<1>3. UsageTypeOK'
  BY <1>1, VolumesAreKept DEF SwapOut
<1>4. /\ paid <= tokens[token][This] /\ tokens' = [tokens EXCEPT ![token] = Moved(@, This, to, paid)]
      /\ agTokens' = [agTokens EXCEPT ![a] = @ - amount] /\ amount <= agTokens[a]
      /\ issued' = issued - amount
      /\ UNCHANGED <<detailVars, native, contributed, now>>
  BY <1>1, <1>2 DEF SwapOut, BridgeTypeOK
<1> HIDE DEF paid
<1>5. paid \in Nat
  BY <1>1, <1>2
<1>6. tokens' \in [BridgeTokens -> [Wallets -> Nat]]
  BY <1>4, <1>5, ThisIsApart, BridgeTokenMoves
<1>7. agTokens' \in [Holders -> Nat] /\ issued' \in Int
  BY <1>1, <1>4 DEF BridgeTypeOK
<1>8. native' \in Nat /\ contributed' \in Int /\ now' \in Ticks
  BY <1>4 DEF BridgeTypeOK
<1> QED
  BY <1>3, <1>4, <1>6, <1>7, <1>8, MovesKeepDetails

LEMMA MovesKeepTypes ==
    ASSUME BridgeTypeOK, NEW token \in BridgeTokens, NEW a \in Holders, NEW amount \in Amounts,
           Contribute(token, a, amount) \/ RecoverERC20(token, a, amount)
    PROVE  BridgeTypeOK'
<1>1. amount \in Nat
  BY MultiBridgeAssumption
<1>2. tokens' \in [BridgeTokens -> [Wallets -> Nat]]
  BY <1>1, ThisIsApart, BridgeTokenMoves DEF Contribute, RecoverERC20
<1>3. /\ UNCHANGED <<detailVars, usageVars, agTokens, issued, native, now>>
      /\ contributed' = contributed + amount \/ contributed' = contributed - amount
  BY DEF Contribute, RecoverERC20
<1>4. UsageTypeOK'
  BY <1>3 DEF BridgeTypeOK, UsageTypeOK, usageVars
<1>5. /\ agTokens' \in [Holders -> Nat] /\ issued' \in Int /\ native' \in Nat
      /\ contributed' \in Int /\ now' \in Ticks
  BY <1>1, <1>3 DEF BridgeTypeOK
<1> QED
  BY <1>2, <1>3, <1>4, <1>5, MovesKeepDetails

LEMMA ListLosesOne ==
    ASSUME NEW list \in Seq(BridgeTokens), NEW token, Len(list) > 0
    PROVE  /\ WithoutToken(list, token) \in Seq(BridgeTokens)
           /\ DOMAIN WithoutToken(list, token) = 1..(Len(list) - 1)
           /\ \A i \in 1..(Len(list) - 1) :
                 WithoutToken(list, token)[i]
                    = IF list[i] = token THEN list[Len(list)] ELSE list[i]
  BY DEF WithoutToken

\* The types after a step of governance, from those of what it sets.
LEMMA SettersKeepBalances ==
    ASSUME BridgeTypeOK, bridges' \in [BridgeTokens -> Details],
           bridgeTokensList' \in Seq(BridgeTokens), isFeeExempt' \subseteq Holders,
           chainTotalHourlyLimit' \in Nat, UNCHANGED <<usageVars, balanceVars, now>>
    PROVE  BridgeTypeOK'
<1>1. /\ UNCHANGED <<usage, chainTotalUsage, volumeIn, volumeOut>>
      /\ UNCHANGED <<tokens, agTokens, issued, native, contributed, now>>
  BY DEF usageVars, balanceVars
<1> QED
  BY <1>1, Zenon DEF BridgeTypeOK

\* Details with one field set are details, of a token as supported as it was.
IsAs(d, e) == e \in Details /\ e.allowed = d.allowed

LEMMA DetailsOf ==
    ASSUME NEW d \in Details
    PROVE  /\ \A limit \in Nat : IsAs(d, [d EXCEPT !.limit = limit])
           /\ \A limit \in Nat : IsAs(d, [d EXCEPT !.hourlyLimit = limit])
           /\ \A fee \in 0..BASE_PARAMS : IsAs(d, [d EXCEPT !.fee = fee])
           /\ IsAs(d, [d EXCEPT !.paused = ~@])
<1>1. PICK limit \in Nat, hourlyLimit \in Nat, fee \in 0..BASE_PARAMS, allowed \in BOOLEAN,
           paused \in BOOLEAN :
         d = [limit |-> limit, hourlyLimit |-> hourlyLimit, fee |-> fee,
              allowed |-> allowed, paused |-> paused]
  BY DEF Details
<1>2. (~paused) \in BOOLEAN
  OBVIOUS
<1> QED
  BY <1>1, <1>2 DEF Details, IsAs

LEMMA SetDetailsKeepsTypes ==
    ASSUME BridgeTypeOK, NEW token \in BridgeTokens, NEW details \in Details,
           SetDetails(token, details)
    PROVE  BridgeTypeOK'
<1>1. /\ bridges' = [bridges EXCEPT ![token] = details]
      /\ UNCHANGED <<bridgeTokensList, isFeeExempt, chainTotalHourlyLimit, usageVars,
                     balanceVars, now>>
  BY DEF SetDetails
<1>2. /\ bridges' \in [BridgeTokens -> Details] /\ bridgeTokensList' \in Seq(BridgeTokens)
      /\ isFeeExempt' \subseteq Holders /\ chainTotalHourlyLimit' \in Nat
  BY <1>1 DEF BridgeTypeOK
<1> QED
  BY <1>1, <1>2, SettersKeepBalances

LEMMA GovernanceKeepsTypes ==
    ASSUME BridgeTypeOK, Governance
    PROVE  BridgeTypeOK'
<1> USE MultiBridgeAssumption
<1>1. ASSUME NEW token \in BridgeTokens, NEW limit \in Limits, NEW hourlyLimit \in HourlyLimits,
             NEW fee \in Fees, NEW paused \in BOOLEAN,
             AddBridgeToken(token, limit, hourlyLimit, fee, paused)
      PROVE  BridgeTypeOK'
  <2> DEFINE new == [limit |-> limit, hourlyLimit |-> hourlyLimit, fee |-> fee,
                     allowed |-> TRUE, paused |-> paused]
  <2>1. new \in Details
    BY <1>1 DEF AddBridgeToken, Details
  <2>2. /\ bridges' = [bridges EXCEPT ![token] = new]
        /\ bridgeTokensList' = Append(bridgeTokensList, token)
        /\ UNCHANGED <<isFeeExempt, chainTotalHourlyLimit, usageVars, balanceVars, now>>
    BY <1>1 DEF AddBridgeToken
  <2> HIDE DEF new
  <2>3. bridges' \in [BridgeTokens -> Details] /\ bridgeTokensList' \in Seq(BridgeTokens)
    BY <2>1, <2>2 DEF BridgeTypeOK
  <2>4. isFeeExempt' \subseteq Holders /\ chainTotalHourlyLimit' \in Nat
    BY <2>2 DEF BridgeTypeOK
  <2> QED
    BY <2>2, <2>3, <2>4, SettersKeepBalances
<1>2. ASSUME NEW token \in BridgeTokens, RemoveBridgeToken(token)
      PROVE  BridgeTypeOK'
  <2>1. bridgeTokensList' \in Seq(BridgeTokens)
    BY <1>2, ListLosesOne DEF RemoveBridgeToken, BridgeTypeOK
  <2>2. NoDetails \in Details
    BY DEF NoDetails, Details
  <2>3. /\ bridges' = [bridges EXCEPT ![token] = NoDetails]
        /\ UNCHANGED <<isFeeExempt, chainTotalHourlyLimit, usageVars, balanceVars, now>>
    BY <1>2 DEF RemoveBridgeToken
  <2>4. /\ bridges' \in [BridgeTokens -> Details]
        /\ isFeeExempt' \subseteq Holders /\ chainTotalHourlyLimit' \in Nat
    BY <2>2, <2>3 DEF BridgeTypeOK
  <2> QED
    BY <2>1, <2>3, <2>4, SettersKeepBalances
<1>3. ASSUME NEW token \in BridgeTokens PROVE bridges[token] \in Details
  BY DEF BridgeTypeOK
<1>4. ASSUME NEW token \in BridgeTokens, NEW limit \in Limits, SetLimit(token, limit)
      PROVE  BridgeTypeOK'
  BY <1>3, <1>4, DetailsOf, SetDetailsKeepsTypes DEF IsAs, SetLimit
<1>5. ASSUME NEW token \in BridgeTokens, NEW limit \in HourlyLimits, SetHourlyLimit(token, limit)
      PROVE  BridgeTypeOK'
  BY <1>3, <1>5, DetailsOf, SetDetailsKeepsTypes DEF IsAs, SetHourlyLimit
<1>6. ASSUME NEW token \in BridgeTokens, NEW fee \in Fees, SetSwapFee(token, fee)
      PROVE  BridgeTypeOK'
  <2>1. fee \in 0..BASE_PARAMS
    BY <1>6 DEF SetSwapFee
  <2> QED
    BY <1>3, <1>6, <2>1, DetailsOf, SetDetailsKeepsTypes DEF IsAs, SetSwapFee
<1>7. ASSUME NEW token \in BridgeTokens, ToggleBridge(token)
      PROVE  BridgeTypeOK'
  BY <1>3, <1>7, DetailsOf, SetDetailsKeepsTypes DEF IsAs, ToggleBridge
<1>8. ASSUME NEW limit \in ChainLimits, SetChainTotalHourlyLimit(limit)
      PROVE  BridgeTypeOK'
  <2>1. /\ bridges' \in [BridgeTokens -> Details] /\ bridgeTokensList' \in Seq(BridgeTokens)
        /\ isFeeExempt' \subseteq Holders /\ chainTotalHourlyLimit' \in Nat
    BY <1>8 DEF SetChainTotalHourlyLimit, BridgeTypeOK
  <2> QED
    BY <1>8, <2>1, SettersKeepBalances DEF SetChainTotalHourlyLimit
<1>9. ASSUME NEW a \in Exempted, ToggleFeesForAddress(a)
      PROVE  BridgeTypeOK'
  <2>1. /\ bridges' \in [BridgeTokens -> Details] /\ bridgeTokensList' \in Seq(BridgeTokens)
        /\ isFeeExempt' \subseteq Holders /\ chainTotalHourlyLimit' \in Nat
    BY <1>9 DEF ToggleFeesForAddress, BridgeTypeOK
  <2> QED
    BY <1>9, <2>1, SettersKeepBalances DEF ToggleFeesForAddress
<1> QED
  BY <1>1, <1>2, <1>4, <1>5, <1>6, <1>7, <1>8, <1>9, MovesKeepTypes DEF Governance

LEMMA InitTypes ==
    ASSUME MultiBridgeInit
    PROVE  BridgeTypeOK
<1>1. NoDetails \in Details
  BY MultiBridgeAssumption DEF NoDetails, Details
<1>2. 0 \in Ticks
  BY MultiBridgeAssumption DEF Ticks
<1> QED
  BY <1>1, <1>2 DEF MultiBridgeInit, BridgeTypeOK

LEMMA StepsKeepTypes ==
    ASSUME BridgeTypeOK, [MultiBridgeNext]_bridgeVars
    PROVE  BridgeTypeOK'
<1>1. ASSUME NEW token \in BridgeTokens, NEW a \in Holders, NEW amount \in Amounts,
             Bridge(token, a, amount)
      PROVE  BridgeTypeOK'
  <2>1. amount \in Nat /\ a \in Wallets
    BY MultiBridgeAssumption DEF Wallets
  <2>2. tokens \in [BridgeTokens -> [Wallets -> Nat]]
    BY DEF BridgeTypeOK, Wallets
  <2>3. tokens' \in [BridgeTokens -> [Wallets -> Nat]]
    BY <1>1, <2>1, <2>2 DEF Bridge
  <2>4. UNCHANGED <<detailVars, usageVars, agTokens, issued, native, contributed, now>>
    BY <1>1 DEF Bridge
  <2>5. UsageTypeOK'
    BY <2>4 DEF BridgeTypeOK, UsageTypeOK, usageVars
  <2>6. /\ agTokens' \in [Holders -> Nat] /\ issued' \in Int /\ native' \in Nat
        /\ contributed' \in Int /\ now' \in Ticks
    BY <2>4 DEF BridgeTypeOK
  <2> QED
    BY <2>3, <2>4, <2>5, <2>6, MovesKeepDetails
<1>2. ASSUME NEW a \in Holders, NEW amount \in Amounts, MintNative(a, amount)
      PROVE  BridgeTypeOK'
  <2>1. amount \in Nat
    BY MultiBridgeAssumption
  <2>2. UNCHANGED <<detailVars, usageVars, tokens, issued, contributed, now>>
    BY <1>2 DEF MintNative
  <2>3. UsageTypeOK'
    BY <2>2 DEF BridgeTypeOK, UsageTypeOK, usageVars
  <2>4. /\ tokens' \in [BridgeTokens -> [Wallets -> Nat]] /\ issued' \in Int
        /\ contributed' \in Int /\ now' \in Ticks
    BY <2>2 DEF BridgeTypeOK, Wallets
  <2>5. agTokens' \in [Holders -> Nat] /\ native' \in Nat
    BY <1>2, <2>1 DEF MintNative, BridgeTypeOK
  <2> QED
    BY <2>2, <2>3, <2>4, <2>5, MovesKeepDetails
<1>3. CASE Tick
  <2>1. now' \in Ticks
    BY <1>3, MultiBridgeAssumption DEF Tick, BridgeTypeOK, Ticks
  <2> QED
    BY <1>3, <2>1, Zenon DEF Tick, BridgeTypeOK, detailVars, usageVars, balanceVars
<1>4. CASE UNCHANGED bridgeVars
  BY <1>4, Zenon DEF BridgeTypeOK, bridgeVars, detailVars, usageVars, balanceVars
<1>5. OutsideTokens \subseteq BridgeTokens
  BY MultiBridgeAssumption
<1> QED
  BY <1>1, <1>2, <1>3, <1>4, <1>5, SwapInKeepsTypes, SwapOutKeepsTypes, MovesKeepTypes,
     GovernanceKeepsTypes
  DEF MultiBridgeNext

\* Types of the multi-bridge stablecoin: the swaps, their limits and fees, and
\* governance leave every balance, usage and limit a natural number, whatever the
\* tokens, the amounts and the settings: the subtractions of swapIn, swapOut and of the
\* fees never wrap around.
THEOREM BridgeTypesAreKept == MultiBridgeSpec => []BridgeTypeOK
<1> QED
  BY InitTypes, StepsKeepTypes, PTL DEF MultiBridgeSpec

-----------------------------------------------------------------------------
\* What swaps issue

LEMMA ReserveChanges ==
    ASSUME BridgeTypeOK, BridgeTypeOK', IsFiniteSet(UnitsOf(Reserve)),
           NEW token \in BridgeTokens, NEW change \in Int,
           tokens'[token][This] = tokens[token][This] + change,
           \A t \in BridgeTokens \ {token} : tokens'[t] = tokens[t]
    PROVE  Changed(BridgeTokens, Reserve, Reserve', change)
<1>1. Reserve \in [BridgeTokens -> Nat] /\ Reserve' \in [BridgeTokens -> Nat]
  BY DEF BridgeTypeOK, Reserve
<1>2. /\ Reserve'[token] = Reserve[token] + change
      /\ \A t \in BridgeTokens : t # token => Reserve'[t] = Reserve[t]
  BY DEF Reserve
<1> QED
  BY <1>1, <1>2, ChangedAtOne

\* The reserve of finitely many units that swaps are backed by.
ReserveBacks == IsFiniteSet(UnitsOf(Reserve)) /\ SwapsAreBacked

\* A step that adds as much to the reserve as to what is issued and contributed.
LEMMA BackedStep ==
    ASSUME BridgeTypeOK, BridgeTypeOK', ReserveBacks, NEW token \in BridgeTokens,
           NEW change \in Int, tokens'[token][This] = tokens[token][This] + change,
           \A t \in BridgeTokens \ {token} : tokens'[t] = tokens[t],
           issued' + contributed' <= issued + contributed + change
    PROVE  ReserveBacks'
<1>1. Changed(BridgeTokens, Reserve, Reserve', change)
  BY ReserveChanges DEF ReserveBacks
<1>2. /\ IsFiniteSet(UnitsOf(Reserve')) /\ TotalOf(Reserve) \in Nat /\ TotalOf(Reserve') \in Nat
      /\ TotalOf(Reserve') = TotalOf(Reserve) + change
  BY <1>1 DEF Changed
<1>3. IsFiniteSet(UnitsOf(Reserve))'
  BY <1>2
<1>4. issued \in Int /\ contributed \in Int /\ issued' \in Int /\ contributed' \in Int
  BY DEF BridgeTypeOK
<1>5. issued <= TotalOf(Reserve) - contributed
  BY DEF ReserveBacks, SwapsAreBacked
<1>6. issued' <= TotalOf(Reserve') - contributed'
  BY <1>2, <1>4, <1>5
<1> QED
  BY <1>3, <1>6 DEF ReserveBacks, SwapsAreBacked

LEMMA SameReserve ==
    ASSUME ReserveBacks, UNCHANGED Reserve, UNCHANGED <<issued, contributed>>
    PROVE  ReserveBacks'
<1>1. UNCHANGED <<Reserve, issued, contributed>>
  OBVIOUS
<1> QED
  BY <1>1 DEF ReserveBacks, SwapsAreBacked

LEMMA SwapInIsBacked ==
    ASSUME BridgeTypeOK, BridgeTypeOK', ReserveBacks, NEW token \in BridgeTokens,
           NEW a \in Holders, NEW to \in Holders, NEW amount \in Amounts,
           SwapIn(a, token, amount, to)
    PROVE  ReserveBacks'
<1> DEFINE taken == WithinLimits(token, amount)
           out == AfterFee(token, a, taken)
<1>1. amount \in Nat
  BY MultiBridgeAssumption
<1>2. taken \in 0..amount
  BY <1>1, LimitsCut
<1>3. taken \in Nat /\ Exchange(a, token, taken, out, to)
  BY <1>1, <1>2 DEF SwapIn
<1> HIDE DEF taken
<1>4. out \in 0..taken
  BY <1>3, FeesAreTaken
<1> HIDE DEF out
<1>5. /\ taken <= tokens[token][a] /\ issued' = issued + out /\ contributed' = contributed
      /\ tokens' = [tokens EXCEPT ![token] = Moved(@, a, This, taken)]
  BY <1>3 DEF Exchange, BridgeTypeOK
<1>6. /\ tokens'[token][This] = tokens[token][This] + taken
      /\ \A t \in BridgeTokens \ {token} : tokens'[t] = tokens[t]
  BY <1>3, <1>5, TokensComeIn
<1>7. issued' + contributed' <= issued + contributed + taken
  BY <1>3, <1>4, <1>5 DEF BridgeTypeOK
<1> QED
  BY <1>3, <1>6, <1>7, BackedStep

LEMMA SwapOutIsBacked ==
    ASSUME BridgeTypeOK, BridgeTypeOK', ReserveBacks, NEW token \in BridgeTokens,
           NEW a \in Holders, NEW to \in Holders, NEW amount \in Amounts,
           SwapOut(a, token, amount, to)
    PROVE  ReserveBacks'
<1> DEFINE paid == AfterFee(token, a, amount)
<1>1. amount \in Nat
  BY MultiBridgeAssumption
<1>2. paid \in 0..amount
  BY <1>1, FeesAreTaken
<1>3. /\ paid <= tokens[token][This] /\ issued' = issued - amount /\ contributed' = contributed
      /\ tokens' = [tokens EXCEPT ![token] = Moved(@, This, to, paid)]
  BY <1>1, <1>2 DEF SwapOut, BridgeTypeOK
<1> HIDE DEF paid
<1>4. paid \in Nat /\ 0 - paid \in Int
  BY <1>1, <1>2
<1>5. /\ tokens'[token][This] = tokens[token][This] - paid
      /\ \A t \in BridgeTokens \ {token} : tokens'[t] = tokens[t]
  BY <1>3, <1>4, TokensGoOut
<1>6. tokens[token][This] \in Nat
  BY ThisIsApart DEF BridgeTypeOK
<1>7. tokens'[token][This] = tokens[token][This] + (0 - paid)
  BY <1>4, <1>5, <1>6
<1>8. issued' + contributed' <= issued + contributed + (0 - paid)
  BY <1>1, <1>2, <1>3 DEF BridgeTypeOK
<1> QED
  BY <1>4, <1>5, <1>7, <1>8, BackedStep

LEMMA MovesAreBacked ==
    ASSUME BridgeTypeOK, BridgeTypeOK', ReserveBacks, NEW token \in BridgeTokens,
           NEW a \in Holders, NEW amount \in Amounts
    PROVE  /\ Contribute(token, a, amount) => ReserveBacks'
           /\ RecoverERC20(token, a, amount) => ReserveBacks'
<1>1. amount \in Nat /\ tokens[token][This] \in Nat
  BY MultiBridgeAssumption DEF BridgeTypeOK
<1>2. CASE Contribute(token, a, amount)
  <2>1. /\ tokens[token][a] >= amount /\ issued' = issued
        /\ contributed' = contributed + amount
        /\ tokens' = [tokens EXCEPT ![token] = Moved(@, a, This, amount)]
    BY <1>2 DEF Contribute
  <2>2. amount <= tokens[token][a]
    BY <1>1, <2>1 DEF BridgeTypeOK
  <2>3. /\ tokens'[token][This] = tokens[token][This] + amount
        /\ \A t \in BridgeTokens \ {token} : tokens'[t] = tokens[t]
    BY <1>1, <2>1, <2>2, TokensComeIn
  <2>4. issued' + contributed' <= issued + contributed + amount
    BY <1>1, <2>1 DEF BridgeTypeOK
  <2> QED
    BY <1>1, <2>3, <2>4, BackedStep
<1>3. CASE RecoverERC20(token, a, amount)
  <2>1. /\ tokens[token][This] >= amount /\ issued' = issued
        /\ contributed' = contributed - amount
        /\ tokens' = [tokens EXCEPT ![token] = Moved(@, This, a, amount)]
    BY <1>3 DEF RecoverERC20
  <2>2. amount <= tokens[token][This] /\ 0 - amount \in Int
    BY <1>1, <2>1
  <2>3. /\ tokens'[token][This] = tokens[token][This] - amount
        /\ \A t \in BridgeTokens \ {token} : tokens'[t] = tokens[t]
    BY <1>1, <2>1, <2>2, TokensGoOut
  <2>4. issued \in Int /\ contributed \in Int
    BY DEF BridgeTypeOK
  <2>5. /\ tokens'[token][This] = tokens[token][This] + (0 - amount)
        /\ issued' + contributed' <= issued + contributed + (0 - amount)
    BY <1>1, <2>1, <2>3, <2>4
  <2> QED
    BY <2>2, <2>3, <2>5, BackedStep
<1> QED
  BY <1>2, <1>3

LEMMA GovernanceKeepsBacking ==
    ASSUME BridgeTypeOK, BridgeTypeOK', ReserveBacks, Governance
    PROVE  ReserveBacks'
<1>1. CASE UNCHANGED balanceVars
  <2>1. UNCHANGED <<tokens, issued, contributed>>
    BY <1>1 DEF balanceVars
  <2>2. UNCHANGED Reserve
    BY <2>1 DEF Reserve
  <2> QED
    BY <2>1, <2>2, SameReserve
<1>2. UNCHANGED balanceVars \/ \E token \in BridgeTokens, a \in Holders, amount \in Amounts :
                                  RecoverERC20(token, a, amount)
  BY Zenon DEF Governance, AddBridgeToken, RemoveBridgeToken, SetLimit, SetHourlyLimit, SetSwapFee,
         ToggleBridge, SetDetails, SetChainTotalHourlyLimit, ToggleFeesForAddress
<1> QED
  BY <1>1, <1>2, MovesAreBacked

LEMMA StepsAreBacked ==
    ASSUME BridgeTypeOK, BridgeTypeOK', ReserveBacks, [MultiBridgeNext]_bridgeVars
    PROVE  ReserveBacks'
<1>1. ASSUME NEW token \in BridgeTokens, NEW a \in Holders, NEW amount \in Amounts,
             Bridge(token, a, amount)
      PROVE  ReserveBacks'
  <2>1. \A t \in BridgeTokens : tokens'[t][This] = tokens[t][This]
    BY <1>1, ThisIsApart DEF Bridge, BridgeTypeOK
  <2>2. UNCHANGED Reserve
    BY <2>1 DEF Reserve
  <2> QED
    BY <1>1, <2>2, SameReserve DEF Bridge
<1>2. CASE UNCHANGED <<tokens, issued, contributed>>
  <2>1. UNCHANGED Reserve
    BY <1>2 DEF Reserve
  <2> QED
    BY <1>2, <2>1, SameReserve
<1>3. ASSUME NEW a \in Holders, NEW amount \in Amounts, MintNative(a, amount)
      PROVE  ReserveBacks'
  BY <1>2, <1>3 DEF MintNative
<1>4. CASE Tick
  BY <1>2, <1>4 DEF Tick, balanceVars
<1>5. CASE UNCHANGED bridgeVars
  BY <1>2, <1>5 DEF bridgeVars, balanceVars
<1>6. OutsideTokens \subseteq BridgeTokens
  BY MultiBridgeAssumption
<1> QED
  BY <1>1, <1>3, <1>4, <1>5, <1>6, SwapInIsBacked, SwapOutIsBacked, MovesAreBacked,
     GovernanceKeepsBacking
  DEF MultiBridgeNext

LEMMA InitIsBacked ==
    ASSUME MultiBridgeInit
    PROVE  ReserveBacks
<1>1. /\ Reserve \in [BridgeTokens -> Nat] /\ \A t \in BridgeTokens : Reserve[t] = 0
      /\ issued = 0 /\ contributed = 0
  BY DEF MultiBridgeInit, Reserve
<1>2. IsFiniteSet(UnitsOf(Reserve)) /\ TotalOf(Reserve) = 0
  BY <1>1, TotalOfZero
<1> QED
  BY <1>1, <1>2 DEF ReserveBacks, SwapsAreBacked

\* Backing of the swaps: what swapIn mints and swapOut does not burn is at most the
\* bridge tokens the contract holds, not counting those sent for nothing or recovered,
\* whatever the limits cut, the fees, the exemptions and the order of the swaps in one
\* token and out in another.
THEOREM SwapsAreAlwaysBacked == MultiBridgeSpec => []SwapsAreBacked
<1>1. ReserveBacks => SwapsAreBacked
  BY DEF ReserveBacks
<1> QED
  BY <1>1, InitTypes, InitIsBacked, StepsKeepTypes, StepsAreBacked, PTL DEF MultiBridgeSpec

-----------------------------------------------------------------------------
\* The list of bridge tokens

LEMMA StepsKeepTheList ==
    ASSUME BridgeTypeOK, ListedAreSupported, [MultiBridgeNext]_bridgeVars
    PROVE  ListedAreSupported'
<1>1. bridgeTokensList \in Seq(BridgeTokens) /\ bridges \in [BridgeTokens -> Details]
  BY DEF BridgeTypeOK
<1>2. ASSUME bridgeTokensList' = bridgeTokensList,
             \A t \in BridgeTokens : bridges[t].allowed => bridges'[t].allowed
      PROVE  ListedAreSupported'
  BY <1>1, <1>2 DEF ListedAreSupported
<1>3. ASSUME NEW token \in BridgeTokens, NEW limit \in Limits, NEW hourlyLimit \in HourlyLimits,
             NEW fee \in Fees, NEW paused \in BOOLEAN,
             AddBridgeToken(token, limit, hourlyLimit, fee, paused)
      PROVE  ListedAreSupported'
  <2> DEFINE n == Len(bridgeTokensList)
  <2>1. /\ bridges'[token].allowed /\ \A t \in BridgeTokens \ {token} : bridges'[t] = bridges[t]
        /\ bridgeTokensList' = Append(bridgeTokensList, token)
        /\ ~bridges[token].allowed
    BY <1>1, <1>3 DEF AddBridgeToken
  <2>2. \A i \in 1..n : bridgeTokensList[i] \in BridgeTokens \ {token}
    BY <1>1, <2>1 DEF ListedAreSupported
  <2>3. /\ DOMAIN bridgeTokensList' = 1..(n + 1)
        /\ \A i \in 1..n : bridgeTokensList'[i] = bridgeTokensList[i]
        /\ bridgeTokensList'[n + 1] = token
    BY <1>1, <2>1
  <2> QED
    BY <1>1, <2>1, <2>2, <2>3 DEF ListedAreSupported
<1>4. ASSUME NEW token \in BridgeTokens, RemoveBridgeToken(token)
      PROVE  ListedAreSupported'
  <2> DEFINE n == Len(bridgeTokensList)
  <2>1. /\ \A t \in BridgeTokens \ {token} : bridges'[t] = bridges[t]
        /\ bridgeTokensList' = WithoutToken(bridgeTokensList, token) /\ n > 0
    BY <1>1, <1>4 DEF RemoveBridgeToken
  <2>2. /\ DOMAIN bridgeTokensList' = 1..(n - 1)
        /\ \A i \in 1..(n - 1) :
              bridgeTokensList'[i] = IF bridgeTokensList[i] = token THEN bridgeTokensList[n]
                                     ELSE bridgeTokensList[i]
    BY <1>1, <2>1, ListLosesOne
  <2>3. /\ n \in Nat /\ DOMAIN bridgeTokensList = 1..n
        /\ \A i \in 1..n : bridgeTokensList[i] \in BridgeTokens
    BY <1>1
  <2>4. \A i \in 1..(n - 1) : bridgeTokensList'[i] \in BridgeTokens \ {token}
                              /\ bridges[bridgeTokensList'[i]].allowed
    BY <2>1, <2>2, <2>3 DEF ListedAreSupported
  <2>5. \A i, j \in 1..(n - 1) : i # j => bridgeTokensList'[i] # bridgeTokensList'[j]
    BY <2>1, <2>2, <2>3 DEF ListedAreSupported
  <2> QED
    BY <2>1, <2>2, <2>4, <2>5 DEF ListedAreSupported
<1>5. ASSUME NEW token \in BridgeTokens, NEW details, IsAs(bridges[token], details),
             SetDetails(token, details)
      PROVE  ListedAreSupported'
  BY <1>1, <1>2, <1>5 DEF SetDetails, IsAs
<1>6. ASSUME NEW token \in BridgeTokens, bridges[token] \in Details,
             \/ \E limit \in Limits : SetLimit(token, limit)
             \/ \E limit \in HourlyLimits : SetHourlyLimit(token, limit)
             \/ \E fee \in Fees : SetSwapFee(token, fee)
             \/ ToggleBridge(token)
      PROVE  ListedAreSupported'
  <2>1. Limits \subseteq Nat /\ HourlyLimits \subseteq Nat
        /\ \A fee \in Fees : fee <= BASE_PARAMS => fee \in 0..BASE_PARAMS
    BY MultiBridgeAssumption
  <2>2. CASE \E limit \in Limits : SetLimit(token, limit)
    BY <1>5, <1>6, <2>1, <2>2, DetailsOf DEF SetLimit
  <2>3. CASE \E limit \in HourlyLimits : SetHourlyLimit(token, limit)
    BY <1>5, <1>6, <2>1, <2>3, DetailsOf DEF SetHourlyLimit
  <2>4. CASE \E fee \in Fees : SetSwapFee(token, fee)
    BY <1>5, <1>6, <2>1, <2>4, DetailsOf DEF SetSwapFee
  <2>5. CASE ToggleBridge(token)
    BY <1>5, <1>6, <2>5, DetailsOf DEF ToggleBridge
  <2> QED
    BY <1>6, <2>2, <2>3, <2>4, <2>5
<1>7. ASSUME UNCHANGED <<bridges, bridgeTokensList>> PROVE ListedAreSupported'
  BY <1>2, <1>7
<1>8. ASSUME NEW token \in BridgeTokens, NEW a \in Holders, NEW amount \in Amounts, NEW to \in Holders,
             \/ SwapIn(a, token, amount, to) \/ SwapOut(a, token, amount, to)
             \/ Contribute(token, a, amount) \/ Bridge(token, a, amount)
             \/ RecoverERC20(token, a, amount)
      PROVE  ListedAreSupported'
  <2>1. UNCHANGED detailVars
    BY <1>8, Zenon DEF SwapIn, Exchange, SwapOut, Contribute, Bridge, RecoverERC20
  <2> QED
    BY <1>7, <2>1 DEF detailVars
<1>9. ASSUME \/ Tick \/ UNCHANGED bridgeVars
             \/ \E a \in Holders, amount \in Amounts : MintNative(a, amount)
             \/ \E limit \in ChainLimits : SetChainTotalHourlyLimit(limit)
             \/ \E a \in Exempted : ToggleFeesForAddress(a)
      PROVE  ListedAreSupported'
  <2>1. UNCHANGED <<bridges, bridgeTokensList>>
    BY <1>9, Zenon DEF Tick, bridgeVars, MintNative, SetChainTotalHourlyLimit,
         ToggleFeesForAddress, detailVars
  <2> QED
    BY <1>7, <2>1
<1>10. CASE Governance
  BY <1>1, <1>3, <1>4, <1>6, <1>8, <1>9, <1>10 DEF Governance
<1>11. OutsideTokens \subseteq BridgeTokens
  BY MultiBridgeAssumption
<1> QED
  BY <1>8, <1>9, <1>10, <1>11 DEF MultiBridgeNext

\* The list of bridge tokens: a listed token is supported and listed once, although
\* removeBridgeToken drops the last of the list when called for a token not in it.
THEOREM ListedAreAlwaysSupported == MultiBridgeSpec => []ListedAreSupported
<1>1. MultiBridgeInit => ListedAreSupported
  BY DEF MultiBridgeInit, ListedAreSupported
<1> QED
  BY <1>1, InitTypes, StepsKeepTypes, StepsKeepTheList, PTL DEF MultiBridgeSpec

-----------------------------------------------------------------------------
\* The volumes of rolling hours

\* What f has at the ticks of one clock hour.
During(f, h) == [k \in Ticks |-> IF k \div HOUR = h THEN f[k] ELSE 0]

\* The inductive invariant: the usage stored for an hour is the volume of its ticks,
\* and no limit ever set was above the highest one.
UsageIsVolume ==
    /\ \A t \in BridgeTokens :
          /\ bridges[t].hourlyLimit <= Highest(HourlyLimits)
          /\ \A h \in Hours : /\ usage[t][h] = TotalOf(During(volumeIn[t], h))
                              /\ usage[t][h] <= Highest(HourlyLimits)
    /\ chainTotalHourlyLimit <= Highest(ChainLimits)
    /\ \A h \in Hours : /\ chainTotalUsage[h] = TotalOf(During(volumeOut, h))
                        /\ chainTotalUsage[h] <= Highest(ChainLimits)

LEMMA LimitsHaveAHighest ==
    /\ Highest(HourlyLimits) \in Nat /\ \A y \in HourlyLimits : y <= Highest(HourlyLimits)
    /\ Highest(ChainLimits) \in Nat /\ \A y \in ChainLimits : y <= Highest(ChainLimits)
<1>1. ASSUME NEW S \in {HourlyLimits, ChainLimits}
      PROVE  Highest(S) \in Nat /\ \A y \in S : y <= Highest(S)
  <2>1. Highest(S) \in S \union {0} /\ \A y \in S : y <= Highest(S)
    BY LimitsAreBounded, Zenon DEF Highest
  <2>2. S \union {0} \subseteq Nat
    BY MultiBridgeAssumption
  <2> HIDE DEF Highest
  <2> QED
    BY <2>1, <2>2
<1> HIDE DEF Highest
<1> QED
  BY <1>1

LEMMA HourTypes ==
    ASSUME NEW f \in [Ticks -> Nat], NEW h
    PROVE  During(f, h) \in [Ticks -> Nat] /\ IsFiniteSet(UnitsOf(During(f, h)))
<1>1. IsFiniteSet(Ticks)
  BY MultiBridgeAssumption, FS_Interval DEF Ticks
<1>2. During(f, h) \in [Ticks -> Nat]
  BY DEF During
<1> QED
  BY <1>1, <1>2, FiniteUnits

\* A volume recorded at this tick is one of this hour.
LEMMA VolumeOfHours ==
    ASSUME now \in Ticks, NEW f \in [Ticks -> Nat], NEW amount \in Nat, NEW h,
           NEW g, g = [f EXCEPT ![now] = @ + amount]
    PROVE  /\ h = Hour => TotalOf(During(g, h)) = TotalOf(During(f, h)) + amount
           /\ h # Hour => TotalOf(During(g, h)) = TotalOf(During(f, h))
<1>1. g \in [Ticks -> Nat] /\ g[now] = f[now] + amount /\ \A k \in Ticks : k # now => g[k] = f[k]
  OBVIOUS
<1>2. CASE h = Hour
  <2>1. /\ During(g, h)[now] = During(f, h)[now] + amount
        /\ \A k \in Ticks : k # now => During(g, h)[k] = During(f, h)[k]
    BY <1>1, <1>2 DEF During, Hour
  <2>2. /\ During(g, h) \in [Ticks -> Nat]
        /\ During(f, h) \in [Ticks -> Nat] /\ IsFiniteSet(UnitsOf(During(f, h)))
    BY <1>1, HourTypes
  <2>3. Changed(Ticks, During(f, h), During(g, h), amount)
    <3> DEFINE F == During(f, h)
               G == During(g, h)
    <3>1. /\ F \in [Ticks -> Nat] /\ IsFiniteSet(UnitsOf(F)) /\ G \in [Ticks -> Nat]
          /\ G[now] = F[now] + amount
          /\ \A k \in Ticks : k # now => G[k] = F[k]
      BY <2>1, <2>2, Zenon
    <3> HIDE DEF F, G
    <3>2. amount \in Int
      OBVIOUS
    <3>3. Changed(Ticks, F, G, amount)
      BY <3>1, <3>2, ChangedAtOne
    <3> QED
      BY <3>3 DEF F, G
  <2> QED
    BY <1>2, <2>3 DEF Changed
<1>3. CASE h # Hour
  <2>1. During(g, h) = During(f, h)
    BY <1>1, <1>3 DEF During, Hour
  <2> QED
    BY <1>3, <2>1
<1> QED
  BY <1>2, <1>3

\* A swap in does not take the hour's usage over the limit, or further over it.
LEMMA UsageStaysWithinLimits ==
    ASSUME BridgeTypeOK, UsageIsVolume, NEW token \in BridgeTokens, NEW amount \in Nat
    PROVE  usage[token][Hour] + WithinLimits(token, amount) <= Highest(HourlyLimits)
<1>1. Hour \in Hours
  BY HourIsInRange DEF BridgeTypeOK
<1>2. /\ usage[token][Hour] \in Nat /\ usage[token][Hour] <= Highest(HourlyLimits)
      /\ bridges[token].hourlyLimit \in Nat
      /\ bridges[token].hourlyLimit <= Highest(HourlyLimits)
  BY <1>1 DEF BridgeTypeOK, Details, UsageIsVolume
<1>3. bridges[token].limit \in Nat /\ tokens[token][This] \in Nat
  BY DEF BridgeTypeOK, Details
<1>4. Highest(HourlyLimits) \in Nat
  BY LimitsHaveAHighest
<1> HIDE DEF Highest
<1> QED
  BY <1>2, <1>3, <1>4 DEF WithinLimits, AtMost, Excess

LEMMA RecordInKeepsUsage ==
    ASSUME BridgeTypeOK, UsageIsVolume, NEW token \in BridgeTokens, NEW amount \in Nat,
           usage[token][Hour] + amount <= Highest(HourlyLimits),
           RecordIn(token, amount), UNCHANGED <<bridges, chainTotalHourlyLimit>>
    PROVE  UsageIsVolume'
<1>1. Hour \in Hours /\ now \in Ticks
  BY HourIsInRange DEF BridgeTypeOK
<1>2. ASSUME NEW t \in BridgeTokens, NEW h \in Hours
      PROVE  /\ usage'[t][h] = TotalOf(During(volumeIn'[t], h))
             /\ usage'[t][h] <= Highest(HourlyLimits)
  <2>1. /\ usage[t][h] = TotalOf(During(volumeIn[t], h))
        /\ usage[t][h] <= Highest(HourlyLimits)
    BY DEF UsageIsVolume
  <2>2. CASE t = token
    <3>1. /\ volumeIn'[t] = [volumeIn[t] EXCEPT ![now] = @ + amount]
          /\ volumeIn[t] \in [Ticks -> Nat]
          /\ h = Hour => usage'[t][h] = usage[t][h] + amount
          /\ h # Hour => usage'[t][h] = usage[t][h]
      BY <1>1, <2>2 DEF RecordIn, BridgeTypeOK
    <3>2. /\ h = Hour => TotalOf(During(volumeIn'[t], h))
                           = TotalOf(During(volumeIn[t], h)) + amount
          /\ h # Hour => TotalOf(During(volumeIn'[t], h)) = TotalOf(During(volumeIn[t], h))
      BY <1>1, <3>1, VolumeOfHours
    <3> QED
      BY <2>1, <2>2, <3>1, <3>2
  <2>3. CASE t # token
    <3>1. volumeIn'[t] = volumeIn[t] /\ usage'[t] = usage[t]
      BY <2>3 DEF RecordIn, BridgeTypeOK
    <3> QED
      BY <2>1, <3>1
  <2> QED
    BY <2>2, <2>3
<1>3. UNCHANGED <<bridges, chainTotalHourlyLimit, chainTotalUsage, volumeOut>>
  BY DEF RecordIn
<1>4. \A h : During(volumeOut, h)' = During(volumeOut, h)
  BY <1>3 DEF During
<1> QED
  BY <1>2, <1>3, <1>4, Zenon DEF UsageIsVolume

LEMMA RecordOutKeepsUsage ==
    ASSUME BridgeTypeOK, UsageIsVolume, NEW amount \in Nat, RecordOut(amount),
           UNCHANGED <<bridges, chainTotalHourlyLimit>>
    PROVE  UsageIsVolume'
<1>1. Hour \in Hours /\ now \in Ticks
  BY HourIsInRange DEF BridgeTypeOK
<1>2. Highest(ChainLimits) \in Nat
  BY LimitsHaveAHighest
<1>3. ASSUME NEW h \in Hours
      PROVE  /\ chainTotalUsage'[h] = TotalOf(During(volumeOut', h))
             /\ chainTotalUsage'[h] <= Highest(ChainLimits)
  <2>1. /\ chainTotalUsage[h] = TotalOf(During(volumeOut, h))
        /\ chainTotalUsage[h] <= Highest(ChainLimits)
        /\ chainTotalHourlyLimit <= Highest(ChainLimits)
    BY DEF UsageIsVolume
  <2>2. /\ chainTotalHourlyLimit \in Nat
        /\ chainTotalUsage[h] \in Nat
        /\ h = Hour => /\ chainTotalUsage'[h] = chainTotalUsage[h] + amount
                       /\ chainTotalUsage[h] + amount <= chainTotalHourlyLimit
        /\ h # Hour => chainTotalUsage'[h] = chainTotalUsage[h]
    BY <1>1 DEF RecordOut, BridgeTypeOK
  <2>3. /\ h = Hour => TotalOf(During(volumeOut', h)) = TotalOf(During(volumeOut, h)) + amount
        /\ h # Hour => TotalOf(During(volumeOut', h)) = TotalOf(During(volumeOut, h))
    <3>1. /\ volumeOut' = [volumeOut EXCEPT ![now] = @ + amount]
          /\ volumeOut \in [Ticks -> Nat]
      BY DEF RecordOut, BridgeTypeOK
    <3> QED
      BY <1>1, <3>1, VolumeOfHours, Zenon
  <2> HIDE DEF Highest
  <2> QED
    BY <1>2, <2>1, <2>2, <2>3
<1>4. UNCHANGED <<bridges, chainTotalHourlyLimit, usage, volumeIn>>
  BY DEF RecordOut
<1> QED
  BY <1>3, <1>4, Zenon DEF UsageIsVolume

\* What changes neither the usage nor the volumes sets limits at most.
LEMMA SettingKeepsUsage ==
    ASSUME UsageIsVolume, UNCHANGED usageVars,
           \A t \in BridgeTokens : bridges'[t].hourlyLimit <= Highest(HourlyLimits),
           chainTotalHourlyLimit' <= Highest(ChainLimits)
    PROVE  UsageIsVolume'
<1>1. UNCHANGED <<usage, chainTotalUsage, volumeIn, volumeOut>>
  BY DEF usageVars
<1> QED
  BY <1>1, Zenon DEF UsageIsVolume

LEMMA QuietKeepsUsage ==
    ASSUME UsageIsVolume, UNCHANGED <<usageVars, bridges, chainTotalHourlyLimit>>
    PROVE  UsageIsVolume'
<1>1. /\ \A t \in BridgeTokens : bridges'[t].hourlyLimit <= Highest(HourlyLimits)
      /\ chainTotalHourlyLimit' <= Highest(ChainLimits)
  BY DEF UsageIsVolume
<1> QED
  BY <1>1, SettingKeepsUsage

LEMMA SwapsKeepUsage ==
    ASSUME BridgeTypeOK, UsageIsVolume, NEW token \in BridgeTokens, NEW a \in Holders,
           NEW to \in Holders, NEW amount \in Amounts,
           SwapIn(a, token, amount, to) \/ SwapOut(a, token, amount, to)
    PROVE  UsageIsVolume'
<1>1. amount \in Nat
  BY MultiBridgeAssumption
<1>2. CASE SwapIn(a, token, amount, to)
  <2> DEFINE taken == WithinLimits(token, amount)
  <2>1. taken \in Nat
    BY <1>1, LimitsCut
  <2>2. usage[token][Hour] + taken <= Highest(HourlyLimits)
    BY <1>1, UsageStaysWithinLimits
  <2>3. RecordIn(token, taken) /\ UNCHANGED <<bridges, chainTotalHourlyLimit>>
    BY <1>2 DEF SwapIn, Exchange, detailVars
  <2> HIDE DEF taken
  <2> QED
    BY <2>1, <2>2, <2>3, RecordInKeepsUsage
<1>3. CASE SwapOut(a, token, amount, to)
  <2>1. RecordOut(amount) /\ UNCHANGED <<bridges, chainTotalHourlyLimit>>
    BY <1>3 DEF SwapOut, detailVars
  <2> QED
    BY <1>1, <2>1, RecordOutKeepsUsage
<1> QED
  BY <1>2, <1>3

LEMMA GovernanceKeepsUsage ==
    ASSUME BridgeTypeOK, UsageIsVolume, Governance
    PROVE  UsageIsVolume'
<1>1. bridges \in [BridgeTokens -> Details]
  BY DEF BridgeTypeOK
<1>2. /\ \A t \in BridgeTokens : bridges[t].hourlyLimit <= Highest(HourlyLimits)
      /\ chainTotalHourlyLimit <= Highest(ChainLimits)
  BY DEF UsageIsVolume
<1>3. ASSUME NEW token \in BridgeTokens, NEW details, bridges' = [bridges EXCEPT ![token] = details],
             details.hourlyLimit <= Highest(HourlyLimits),
             UNCHANGED <<chainTotalHourlyLimit, usageVars>>
      PROVE  UsageIsVolume'
  <2>1. \A t \in BridgeTokens : bridges'[t].hourlyLimit <= Highest(HourlyLimits)
    BY <1>1, <1>2, <1>3
  <2> QED
    BY <1>2, <1>3, <2>1, SettingKeepsUsage
<1>4. ASSUME NEW token \in BridgeTokens, NEW limit \in Limits, NEW hourlyLimit \in HourlyLimits,
             NEW fee \in Fees, NEW paused \in BOOLEAN,
             AddBridgeToken(token, limit, hourlyLimit, fee, paused)
      PROVE  UsageIsVolume'
  <2> DEFINE new == [limit |-> limit, hourlyLimit |-> hourlyLimit, fee |-> fee,
                     allowed |-> TRUE, paused |-> paused]
  <2>1. /\ bridges' = [bridges EXCEPT ![token] = new] /\ new.hourlyLimit = hourlyLimit
        /\ UNCHANGED <<chainTotalHourlyLimit, usageVars>>
    BY <1>4 DEF AddBridgeToken
  <2>2. hourlyLimit <= Highest(HourlyLimits)
    BY LimitsHaveAHighest
  <2> HIDE DEF new
  <2> QED
    BY <1>3, <2>1, <2>2
<1>5. ASSUME NEW token \in BridgeTokens, RemoveBridgeToken(token)
      PROVE  UsageIsVolume'
  <2>1. /\ bridges' = [bridges EXCEPT ![token] = NoDetails]
        /\ UNCHANGED <<chainTotalHourlyLimit, usageVars>>
    BY <1>5 DEF RemoveBridgeToken
  <2>2. NoDetails.hourlyLimit = 0
    BY DEF NoDetails
  <2>3. NoDetails.hourlyLimit <= Highest(HourlyLimits)
    BY <2>2, LimitsHaveAHighest
  <2> QED
    BY <1>3, <2>1, <2>3
<1>6. ASSUME NEW token \in BridgeTokens, NEW details, SetDetails(token, details),
             \/ details.hourlyLimit = bridges[token].hourlyLimit
             \/ details.hourlyLimit \in HourlyLimits
      PROVE  UsageIsVolume'
  <2>1. details.hourlyLimit <= Highest(HourlyLimits)
    BY <1>2, <1>6, LimitsHaveAHighest
  <2> QED
    BY <1>3, <1>6, <2>1 DEF SetDetails
<1>7. ASSUME NEW token \in BridgeTokens
      PROVE  /\ \A x : [bridges[token] EXCEPT !.limit = x].hourlyLimit = bridges[token].hourlyLimit
             /\ \A x : [bridges[token] EXCEPT !.hourlyLimit = x].hourlyLimit = x
             /\ \A x : [bridges[token] EXCEPT !.fee = x].hourlyLimit = bridges[token].hourlyLimit
             /\ [bridges[token] EXCEPT !.paused = ~@].hourlyLimit = bridges[token].hourlyLimit
  <2>1. bridges[token] \in Details
    BY <1>1
  <2> QED
    BY <2>1 DEF Details
<1>8. ASSUME NEW token \in BridgeTokens,
             \/ \E limit \in Limits : SetLimit(token, limit)
             \/ \E hourlyLimit \in HourlyLimits : SetHourlyLimit(token, hourlyLimit)
             \/ \E fee \in Fees : SetSwapFee(token, fee)
             \/ ToggleBridge(token)
      PROVE  UsageIsVolume'
  BY <1>6, <1>7, <1>8 DEF SetLimit, SetHourlyLimit, SetSwapFee, ToggleBridge
<1>9. ASSUME NEW limit \in ChainLimits, SetChainTotalHourlyLimit(limit)
      PROVE  UsageIsVolume'
  <2>1. /\ chainTotalHourlyLimit' = limit /\ UNCHANGED <<bridges, usageVars>>
    BY <1>9 DEF SetChainTotalHourlyLimit
  <2>2. limit <= Highest(ChainLimits)
    BY LimitsHaveAHighest
  <2> QED
    BY <1>2, <2>1, <2>2, SettingKeepsUsage
<1>10. ASSUME \/ \E a \in Exempted : ToggleFeesForAddress(a)
              \/ \E token \in BridgeTokens, to \in Holders, amount \in Amounts :
                    RecoverERC20(token, to, amount)
       PROVE  UsageIsVolume'
  <2>1. UNCHANGED <<usageVars, bridges, chainTotalHourlyLimit>>
    BY <1>10 DEF ToggleFeesForAddress, RecoverERC20, detailVars
  <2> QED
    BY <2>1, QuietKeepsUsage
<1> QED
  BY <1>4, <1>5, <1>8, <1>9, <1>10 DEF Governance

LEMMA StepsKeepUsage ==
    ASSUME BridgeTypeOK, UsageIsVolume, [MultiBridgeNext]_bridgeVars
    PROVE  UsageIsVolume'
<1>1. ASSUME \/ \E token \in BridgeTokens, a \in Holders, amount \in Amounts :
                   Contribute(token, a, amount) \/ Bridge(token, a, amount)
             \/ \E a \in Holders, amount \in Amounts : MintNative(a, amount)
             \/ Tick
             \/ UNCHANGED bridgeVars
      PROVE  UsageIsVolume'
  <2>1. UNCHANGED <<usageVars, bridges, chainTotalHourlyLimit>>
    BY <1>1 DEF Contribute, Bridge, MintNative, Tick, bridgeVars, detailVars
  <2> QED
    BY <2>1, QuietKeepsUsage
<1>2. OutsideTokens \subseteq BridgeTokens
  BY MultiBridgeAssumption
<1> QED
  BY <1>1, <1>2, SwapsKeepUsage, GovernanceKeepsUsage DEF MultiBridgeNext

\* A window as long as an hour has ticks of two clock hours at most.
LEMMA WindowIsInTwoHours ==
    ASSUME NEW start \in 0..(MaxTime + 1 - HOUR), NEW k \in start..(start + HOUR - 1)
    PROVE  /\ k \in Ticks
           /\ k \div HOUR \in {start \div HOUR, start \div HOUR + 1}
<1> DEFINE h == start \div HOUR
           i == k \div HOUR
<1>1. HOUR \in Nat \ {0} /\ MaxTime \in Nat /\ start \in Nat /\ k \in Nat
  BY MultiBridgeAssumption
<1>2. start <= k /\ k < start + HOUR
  BY <1>1
<1>3. k \in Ticks
  BY <1>1 DEF Ticks
<1>4. h \in Nat /\ i \in Nat
  BY <1>1, DivisionIsNat
<1>5. /\ h * HOUR <= start /\ start < h * HOUR + HOUR
      /\ i * HOUR <= k /\ k < i * HOUR + HOUR
  BY <1>1, DivisionTruncates
<1> HIDE DEF h, i
<1>6. ASSUME NEW a \in Nat, NEW b \in Nat, a * HOUR < b * HOUR
      PROVE  a < b
  <2> SUFFICES ASSUME b <= a PROVE FALSE
    BY <1>6
  <2>1. HOUR * b <= HOUR * a
    BY <1>1, ProductMonotone
  <2> QED
    BY <1>1, <1>6, <2>1
<1>7. h * HOUR < (i + 1) * HOUR
  BY <1>1, <1>2, <1>4, <1>5
<1>8. i * HOUR < (h + 2) * HOUR
  BY <1>1, <1>2, <1>4, <1>5
<1>9. h < i + 1 /\ i < h + 2
  BY <1>4, <1>6, <1>7, <1>8
<1>10. i \in {h, h + 1}
  BY <1>4, <1>9
<1> QED
  BY <1>3, <1>10 DEF h, i

\* A bound on each hour is one on two of them.
LEMMA WindowsAreBounded ==
    ASSUME NEW f \in [Ticks -> Nat], NEW limit \in Nat,
           \A h \in Hours : TotalOf(During(f, h)) <= limit,
           NEW start \in 0..(MaxTime + 1 - HOUR)
    PROVE  TotalOf([k \in start..(start + HOUR - 1) |-> f[k]]) <= 2 * limit
<1> DEFINE window == [k \in start..(start + HOUR - 1) |-> f[k]]
           h == start \div HOUR
<1>1. ASSUME NEW i \in Nat
      PROVE  /\ IsFiniteSet(UnitsOf(During(f, i)))
             /\ TotalOf(During(f, i)) \in Nat /\ TotalOf(During(f, i)) <= limit
  <2>1. During(f, i) \in [Ticks -> Nat] /\ IsFiniteSet(UnitsOf(During(f, i)))
    BY HourTypes
  <2>2. CASE i \in Hours
    BY <2>1, <2>2, SumIsNat
  <2>3. CASE i \notin Hours
    <3>1. ASSUME NEW k \in Ticks PROVE k \div HOUR \in Hours
      <4>1. /\ k \in Nat /\ MaxTime \in Nat /\ k <= MaxTime /\ HOUR \in Nat \ {0}
        BY MultiBridgeAssumption DEF Ticks
      <4>2. k \div HOUR \in Nat /\ MaxTime \div HOUR \in Nat
        BY <4>1, DivisionIsNat, Zenon
      <4>3. HOUR <= HOUR
        BY <4>1
      <4>4. k \div HOUR <= MaxTime \div HOUR
        BY <4>1, <4>3, DivisionMonotone, Zenon
      <4> QED
        BY <4>2, <4>4 DEF Hours
    <3>2. \A k \in Ticks : During(f, i)[k] = 0
      BY <2>3, <3>1 DEF During
    <3>3. TotalOf(During(f, i)) = 0
      BY <2>1, <3>2, TotalOfZero
    <3> QED
      BY <2>1, <3>3
  <2> QED
    BY <2>2, <2>3
<1>2. h \in Nat /\ h + 1 \in Nat
  BY MultiBridgeAssumption, DivisionIsNat
<1>3. UnitsOf(window) \subseteq UnitsOf(During(f, h)) \cup UnitsOf(During(f, h + 1))
  <2> SUFFICES ASSUME NEW u \in UnitsOf(window)
               PROVE  u \in UnitsOf(During(f, h)) \cup UnitsOf(During(f, h + 1))
    OBVIOUS
  <2>1. PICK k \in start..(start + HOUR - 1) : u \in {k} \X (1..f[k])
    BY DEF UnitsOf
  <2>2. k \in Ticks /\ k \div HOUR \in {h, h + 1}
    BY WindowIsInTwoHours
  <2>3. PICK i \in {h, h + 1} : k \div HOUR = i
    BY <2>2
  <2>4. During(f, i)[k] = f[k] /\ k \in DOMAIN During(f, i)
    BY <2>2, <2>3 DEF During
  <2>5. u \in UnitsOf(During(f, i))
    BY <2>1, <2>4, Zenon DEF UnitsOf
  <2> QED
    BY <2>3, <2>5
<1> HIDE DEF window, h
<1>4. /\ IsFiniteSet(UnitsOf(During(f, h)) \cup UnitsOf(During(f, h + 1)))
      /\ Cardinality(UnitsOf(During(f, h)) \cup UnitsOf(During(f, h + 1)))
            <= TotalOf(During(f, h)) + TotalOf(During(f, h + 1))
  <2> DEFINE A == UnitsOf(During(f, h))
             B == UnitsOf(During(f, h + 1))
  <2>1. IsFiniteSet(A) /\ IsFiniteSet(B)
    BY <1>1, <1>2
  <2>2. Cardinality(A) = TotalOf(During(f, h)) /\ Cardinality(B) = TotalOf(During(f, h + 1))
    BY DEF TotalOf
  <2> HIDE DEF A, B
  <2>3. /\ IsFiniteSet(A \cup B) /\ IsFiniteSet(A \cap B)
        /\ Cardinality(A \cup B) = Cardinality(A) + Cardinality(B) - Cardinality(A \cap B)
    BY <2>1, FS_Union, FS_Intersection
  <2>4. Cardinality(A) \in Nat /\ Cardinality(B) \in Nat /\ Cardinality(A \cap B) \in Nat
    BY <2>1, <2>3, FS_CardinalityType
  <2>5. Cardinality(A \cup B) <= Cardinality(A) + Cardinality(B)
    BY <2>3, <2>4
  <2> QED
    BY <2>2, <2>3, <2>5 DEF A, B
<1>5. /\ TotalOf(window) \in Nat
      /\ TotalOf(window) <= TotalOf(During(f, h)) + TotalOf(During(f, h + 1))
  <2>1. /\ IsFiniteSet(UnitsOf(window))
        /\ Cardinality(UnitsOf(window))
              <= Cardinality(UnitsOf(During(f, h)) \cup UnitsOf(During(f, h + 1)))
    BY <1>3, <1>4, FS_Subset
  <2>2. /\ Cardinality(UnitsOf(window)) \in Nat
        /\ Cardinality(UnitsOf(During(f, h)) \cup UnitsOf(During(f, h + 1))) \in Nat
    BY <1>4, <2>1, FS_CardinalityType
  <2>3. TotalOf(window) = Cardinality(UnitsOf(window))
    BY DEF TotalOf
  <2>4. TotalOf(During(f, h)) \in Nat /\ TotalOf(During(f, h + 1)) \in Nat
    BY <1>1, <1>2
  <2> QED
    BY <1>4, <2>1, <2>2, <2>3, <2>4
<1>6. TotalOf(window) <= 2 * limit
  BY <1>1, <1>2, <1>5
<1> QED
  BY <1>6 DEF window

LEMMA RollingFromHours ==
    ASSUME BridgeTypeOK, UsageIsVolume
    PROVE  RollingVolumesAreBounded
<1>1. Highest(HourlyLimits) \in Nat /\ Highest(ChainLimits) \in Nat
  BY LimitsHaveAHighest
<1> SUFFICES ASSUME NEW start \in 0..(MaxTime + 1 - HOUR)
             PROVE  /\ \A t \in BridgeTokens :
                          TotalOf([k \in start..(start + HOUR - 1) |-> volumeIn[t][k]])
                             <= 2 * Highest(HourlyLimits)
                    /\ TotalOf([k \in start..(start + HOUR - 1) |-> volumeOut[k]])
                          <= 2 * Highest(ChainLimits)
  BY Zenon DEF RollingVolumesAreBounded
<1>2. ASSUME NEW t \in BridgeTokens
      PROVE  TotalOf([k \in start..(start + HOUR - 1) |-> volumeIn[t][k]])
                <= 2 * Highest(HourlyLimits)
  <2>1. volumeIn[t] \in [Ticks -> Nat]
    BY DEF BridgeTypeOK
  <2>2. \A h \in Hours : TotalOf(During(volumeIn[t], h)) <= Highest(HourlyLimits)
    BY DEF UsageIsVolume
  <2> QED
    BY <1>1, <2>1, <2>2, WindowsAreBounded
<1>3. TotalOf([k \in start..(start + HOUR - 1) |-> volumeOut[k]]) <= 2 * Highest(ChainLimits)
  <2>1. volumeOut \in [Ticks -> Nat]
    BY DEF BridgeTypeOK
  <2>2. \A h \in Hours : TotalOf(During(volumeOut, h)) <= Highest(ChainLimits)
    BY DEF UsageIsVolume
  <2> QED
    BY <1>1, <2>1, <2>2, WindowsAreBounded
<1> QED
  BY <1>2, <1>3

LEMMA InitUsage ==
    ASSUME MultiBridgeInit
    PROVE  UsageIsVolume
<1>1. BridgeTypeOK
  BY InitTypes
<1>2. ASSUME NEW f \in [Ticks -> Nat], NEW h, \A k \in Ticks : f[k] = 0
      PROVE  TotalOf(During(f, h)) = 0
  <2>1. During(f, h) \in [Ticks -> Nat] /\ \A k \in Ticks : During(f, h)[k] = 0
    BY <1>2, HourTypes DEF During
  <2> QED
    BY <2>1, TotalOfZero
<1>3. Highest(HourlyLimits) \in Nat /\ Highest(ChainLimits) \in Nat
  BY LimitsHaveAHighest
<1>4. ASSUME NEW t \in BridgeTokens
      PROVE  /\ bridges[t].hourlyLimit <= Highest(HourlyLimits)
             /\ \A h \in Hours : /\ usage[t][h] = TotalOf(During(volumeIn[t], h))
                                 /\ usage[t][h] <= Highest(HourlyLimits)
  <2>1. /\ volumeIn[t] \in [Ticks -> Nat] /\ \A k \in Ticks : volumeIn[t][k] = 0
        /\ bridges[t].hourlyLimit = 0 /\ \A h \in Hours : usage[t][h] = 0
    BY <1>1 DEF MultiBridgeInit, BridgeTypeOK, NoDetails
  <2> HIDE DEF Highest
  <2> QED
    BY <1>2, <1>3, <2>1
<1>5. /\ chainTotalHourlyLimit <= Highest(ChainLimits)
      /\ \A h \in Hours : /\ chainTotalUsage[h] = TotalOf(During(volumeOut, h))
                          /\ chainTotalUsage[h] <= Highest(ChainLimits)
  <2>1. /\ volumeOut \in [Ticks -> Nat] /\ \A k \in Ticks : volumeOut[k] = 0
        /\ chainTotalHourlyLimit = 0 /\ \A h \in Hours : chainTotalUsage[h] = 0
    BY <1>1 DEF MultiBridgeInit, BridgeTypeOK
  <2> HIDE DEF Highest
  <2> QED
    BY <1>2, <1>3, <2>1
<1> QED
  BY <1>4, <1>5 DEF UsageIsVolume

\* The limits over a rolling hour: the contract limits clock hours, and says that an hour
\* that starts at any time then sees twice the limit at most.  It does, for the swaps in
\* of each token and for all swaps out, for the highest of the limits that governance
\* sets, whenever it sets them, and when tokens are removed and added again.
THEOREM RollingVolumesStayBounded == MultiBridgeSpec => []RollingVolumesAreBounded
<1> QED
  BY InitTypes, InitUsage, StepsKeepTypes, StepsKeepUsage, RollingFromHours, PTL DEF MultiBridgeSpec

-----------------------------------------------------------------------------
\* Messages between the two chains

EntriesOf(q) == {q[i] : i \in DOMAIN q}
Distinct(q) == \A i, j \in DOMAIN q : q[i] = q[j] => i = j

LEMMA QueueGainsOne ==
    ASSUME NEW S, NEW q \in Seq(S), NEW m \in S, Distinct(q), m \notin EntriesOf(q)
    PROVE  /\ Append(q, m) \in Seq(S) /\ Distinct(Append(q, m))
           /\ EntriesOf(Append(q, m)) = EntriesOf(q) \union {m}
<1>1. /\ Append(q, m) \in Seq(S) /\ DOMAIN q = 1..Len(q) /\ Len(q) \in Nat
      /\ DOMAIN Append(q, m) = 1..(Len(q) + 1)
      /\ \A i \in 1..Len(q) : Append(q, m)[i] = q[i]
      /\ Append(q, m)[Len(q) + 1] = m
  OBVIOUS
<1> QED
  BY <1>1 DEF EntriesOf, Distinct

LEMMA QueueLosesHead ==
    ASSUME NEW S, NEW q \in Seq(S), q # << >>, Distinct(q)
    PROVE  /\ Tail(q) \in Seq(S) /\ Distinct(Tail(q))
           /\ Head(q) \in S /\ Head(q) \in EntriesOf(q)
           /\ EntriesOf(Tail(q)) = EntriesOf(q) \ {Head(q)}
<1>1. /\ Len(q) \in Nat \ {0} /\ DOMAIN q = 1..Len(q) /\ Head(q) = q[1]
      /\ Tail(q) \in Seq(S) /\ DOMAIN Tail(q) = 1..(Len(q) - 1)
      /\ \A i \in 1..(Len(q) - 1) : Tail(q)[i] = q[i + 1]
  OBVIOUS
<1>2. \A i \in 2..Len(q) : i - 1 \in 1..(Len(q) - 1) /\ q[i] = Tail(q)[i - 1]
  BY <1>1
<1>3. Distinct(Tail(q))
  BY <1>1 DEF Distinct
<1>4. ASSUME NEW x \in EntriesOf(Tail(q)) PROVE x \in EntriesOf(q) \ {Head(q)}
  BY <1>1, <1>4 DEF EntriesOf, Distinct
<1>5. ASSUME NEW x \in EntriesOf(q) \ {Head(q)} PROVE x \in EntriesOf(Tail(q))
  <2>1. PICK i \in 1..Len(q) : x = q[i]
    BY <1>1, <1>5 DEF EntriesOf
  <2>2. i \in 2..Len(q)
    BY <1>1, <1>5, <2>1
  <2> QED
    BY <1>1, <1>2, <2>1, <2>2 DEF EntriesOf
<1>6. Head(q) \in S /\ Head(q) \in EntriesOf(q)
  BY <1>1 DEF EntriesOf
<1> QED
  BY <1>1, <1>3, <1>4, <1>5, <1>6

\* A message is in one place, and those that were sent are numbered.
MessagesOK ==
    /\ channel \in [Chains -> Seq(AllMessages)] /\ nonces \in [Chains -> Nat]
    /\ failed \subseteq AllMessages /\ received \subseteq AllMessages
    /\ dropped \subseteq AllMessages
    /\ \A c \in Chains : /\ Distinct(channel[c])
                         /\ \A m \in InFlight(c) : m.dest = c /\ m \notin failed
    /\ \A m \in Pending \union received \union dropped : m.nonce <= nonces[m.dest]

LEMMA InFlightTypes ==
    ASSUME MessagesOK
    PROVE  /\ \A c \in Chains : InFlight(c) = EntriesOf(channel[c])
           /\ \A c \in Chains : InFlight(c) \subseteq AllMessages
           /\ \A m : m \in Pending <=> m \in failed \/ \E c \in Chains : m \in InFlight(c)
           /\ Pending \subseteq AllMessages
<1>1. \A c \in Chains : InFlight(c) = EntriesOf(channel[c])
  BY DEF InFlight, EntriesOf
<1>2. ASSUME NEW c \in Chains PROVE InFlight(c) \subseteq AllMessages
  <2>1. channel[c] \in Seq(AllMessages)
    BY DEF MessagesOK
  <2> QED
    BY <2>1 DEF InFlight
<1>3. \A m : m \in Pending <=> m \in failed \/ \E c \in Chains : m \in InFlight(c)
  BY DEF Pending, Chains
<1>4. Pending \subseteq AllMessages
  BY <1>2, <1>3 DEF MessagesOK
<1> QED
  BY <1>1, <1>2, <1>3, <1>4

\* What a step does to the messages.
Sending(m) ==
    /\ m.nonce = nonces[m.dest] + 1
    /\ channel' = [channel EXCEPT ![m.dest] = Append(@, m)]
    /\ nonces' = [nonces EXCEPT ![m.dest] = @ + 1]
    /\ UNCHANGED <<failed, received, dropped>>

Delivering(c) ==
    /\ channel[c] # << >>
    /\ channel' = [channel EXCEPT ![c] = Tail(@)]
    /\ nonces' = nonces

Retrying(m) ==
    /\ m \in failed
    /\ failed' = failed \ {m} /\ received' = received \union {m}
    /\ UNCHANGED <<channel, nonces, dropped>>

\* One of the two sets gains the message m, the other is left alone.
Moving(m, gains, same) == gains' = gains \union {m} /\ UNCHANGED same

LEMMA SendingKeepsMessages ==
    ASSUME MessagesOK, NEW m \in AllMessages, Sending(m)
    PROVE  /\ MessagesOK'
           /\ Pending' = Pending \union {m} /\ m \notin Pending
           /\ \A x \in Pending \union received \union dropped :
                 x.dest = m.dest => x.nonce # m.nonce
<1> DEFINE c == m.dest
<1>1. /\ c \in Chains /\ nonces[c] \in Nat /\ m.nonce = nonces[c] + 1
      /\ \A x \in AllMessages : x.dest \in Chains /\ x.nonce \in Nat
  BY LayerZeroAssumption DEF AllMessages, MessagesOK, Sending
<1>2. Pending \union received \union dropped \subseteq AllMessages
  BY InFlightTypes DEF MessagesOK
<1>3. \A x \in Pending \union received \union dropped : x.dest = c => x.nonce # m.nonce
  BY <1>1, <1>2 DEF MessagesOK
<1>4. m \notin Pending \union received \union dropped
  BY <1>3
<1>5. m \notin EntriesOf(channel[c]) /\ channel[c] \in Seq(AllMessages) /\ Distinct(channel[c])
  BY <1>1, <1>4, InFlightTypes DEF MessagesOK
<1>6. /\ channel'[c] \in Seq(AllMessages) /\ Distinct(channel'[c])
      /\ EntriesOf(channel'[c]) = EntriesOf(channel[c]) \union {m}
      /\ \A d \in Chains \ {c} : channel'[d] = channel[d]
      /\ channel' \in [Chains -> Seq(AllMessages)]
  <2>1. /\ channel'[c] = Append(channel[c], m) /\ \A d \in Chains \ {c} : channel'[d] = channel[d]
        /\ channel' = [channel EXCEPT ![c] = Append(@, m)]
    BY <1>1 DEF Sending, MessagesOK
  <2>2. /\ Append(channel[c], m) \in Seq(AllMessages) /\ Distinct(Append(channel[c], m))
        /\ EntriesOf(Append(channel[c], m)) = EntriesOf(channel[c]) \union {m}
    BY <1>5, QueueGainsOne
  <2> QED
    BY <2>1, <2>2 DEF MessagesOK
<1>7. /\ InFlight(c)' = InFlight(c) \union {m}
      /\ \A d \in Chains \ {c} : InFlight(d)' = InFlight(d)
  BY <1>1, <1>6 DEF InFlight, EntriesOf
<1>8. Pending' = Pending \union {m}
  BY <1>1, <1>7 DEF Pending, Sending, Chains
<1>9. /\ nonces' \in [Chains -> Nat] /\ nonces'[c] = nonces[c] + 1
      /\ \A d \in Chains \ {c} : nonces'[d] = nonces[d]
      /\ UNCHANGED <<failed, received, dropped>>
  BY <1>1 DEF Sending, MessagesOK
<1>10. ASSUME NEW d \in Chains
       PROVE  /\ Distinct(channel'[d])
              /\ \A x \in InFlight(d)' : x.dest = d /\ x \notin failed'
  <2>1. CASE d = c
    BY <1>4, <1>6, <1>7, <1>9, <2>1 DEF MessagesOK, Pending
  <2>2. CASE d # c
    BY <1>6, <1>7, <1>9, <2>2 DEF MessagesOK
  <2> QED
    BY <2>1, <2>2
<1>11. ASSUME NEW x \in Pending' \union received' \union dropped'
       PROVE  x.nonce <= nonces'[x.dest]
  <2>1. CASE x = m
    BY <1>1, <1>9, <2>1
  <2>2. CASE x \in Pending \union received \union dropped
    <3>1. x.dest \in Chains /\ x.nonce \in Nat /\ x.nonce <= nonces[x.dest]
      BY <1>1, <1>2, <2>2 DEF MessagesOK
    <3>2. \A d \in Chains : nonces[d] \in Nat /\ nonces[d] <= nonces'[d] /\ nonces'[d] \in Nat
      BY <1>1, <1>9 DEF MessagesOK
    <3> QED
      BY <3>1, <3>2
  <2> QED
    BY <1>8, <1>9, <1>11, <2>1, <2>2
<1>12. failed' \subseteq AllMessages /\ received' \subseteq AllMessages /\ dropped' \subseteq AllMessages
  BY <1>9 DEF MessagesOK
<1>13. MessagesOK'
  BY <1>6, <1>9, <1>10, <1>11, <1>12 DEF MessagesOK
<1> QED
  BY <1>3, <1>4, <1>8, <1>13

LEMMA DeliveringMovesHead ==
    ASSUME MessagesOK, NEW c \in Chains, Delivering(c)
    PROVE  LET m == Head(channel[c])
           IN  /\ m \in AllMessages /\ m \in InFlight(c) /\ m.dest = c
               /\ channel' \in [Chains -> Seq(AllMessages)]
               /\ \A d \in Chains : Distinct(channel'[d])
               /\ InFlight(c)' = InFlight(c) \ {m}
               /\ \A d \in Chains \ {c} : InFlight(d)' = InFlight(d) /\ m \notin InFlight(d)
<1> DEFINE m == Head(channel[c])
<1>1. /\ channel[c] \in Seq(AllMessages) /\ Distinct(channel[c]) /\ channel[c] # << >>
      /\ channel'[c] = Tail(channel[c])
      /\ \A d \in Chains \ {c} : channel'[d] = channel[d]
      /\ channel' = [channel EXCEPT ![c] = Tail(@)]
  BY DEF MessagesOK, Delivering
<1>2. /\ Tail(channel[c]) \in Seq(AllMessages) /\ Distinct(Tail(channel[c]))
      /\ m \in AllMessages /\ m \in EntriesOf(channel[c])
      /\ EntriesOf(Tail(channel[c])) = EntriesOf(channel[c]) \ {m}
  BY <1>1, QueueLosesHead
<1> HIDE DEF m
<1>3. channel' \in [Chains -> Seq(AllMessages)] /\ \A d \in Chains : Distinct(channel'[d])
  BY <1>1, <1>2 DEF MessagesOK
<1>4. InFlight(c)' = InFlight(c) \ {m} /\ \A d \in Chains \ {c} : InFlight(d)' = InFlight(d)
  <2>1. \A d \in Chains : InFlight(d) = EntriesOf(channel[d])
    BY DEF InFlight, EntriesOf
  <2>2. \A d \in Chains : InFlight(d)' = EntriesOf(channel'[d])
    BY DEF InFlight, EntriesOf
  <2> QED
    BY <1>1, <1>2, <2>1, <2>2
<1>5. m \in InFlight(c) /\ m.dest = c
  BY <1>2, InFlightTypes DEF MessagesOK
<1>6. \A d \in Chains \ {c} : m \notin InFlight(d)
  BY <1>5 DEF MessagesOK
<1> QED
  BY <1>2, <1>3, <1>4, <1>5, <1>6 DEF m

\* The first message to c is received or given up.
LEMMA DeliveringKeepsMessages ==
    ASSUME MessagesOK, NEW c \in Chains, Delivering(c), UNCHANGED failed,
           NEW m, m = Head(channel[c]),
           \/ received' = received \union {m} /\ dropped' = dropped
           \/ dropped' = dropped \union {m} /\ received' = received
    PROVE  /\ MessagesOK' /\ m \in Pending /\ m \in AllMessages
           /\ Pending' = Pending \ {m}
<1>1. /\ m \in AllMessages /\ m \in InFlight(c) /\ m.dest = c
      /\ channel' \in [Chains -> Seq(AllMessages)]
      /\ \A d \in Chains : Distinct(channel'[d])
      /\ InFlight(c)' = InFlight(c) \ {m}
      /\ \A d \in Chains \ {c} : InFlight(d)' = InFlight(d) /\ m \notin InFlight(d)
  BY DeliveringMovesHead
<1>2. m \notin failed /\ nonces' = nonces /\ m \in Pending
  BY <1>1, InFlightTypes DEF MessagesOK, Delivering
<1>3. \A d \in Chains : InFlight(d)' = InFlight(d) \ {m}
  BY <1>1
<1>4. Pending' = Pending \ {m}
  BY <1>2, <1>3 DEF Pending, Chains
<1>5. \A x \in Pending' \union received' \union dropped' :
         x \in Pending \union received \union dropped
  BY <1>2, <1>4
<1> QED
  BY <1>1, <1>2, <1>3, <1>4, <1>5 DEF MessagesOK

\* The first message to c fails.
LEMMA FailingKeepsMessages ==
    ASSUME MessagesOK, NEW c \in Chains, Delivering(c),
           failed' = failed \union {Head(channel[c])}, UNCHANGED <<received, dropped>>
    PROVE  MessagesOK' /\ Pending' = Pending
<1> DEFINE m == Head(channel[c])
<1>1. /\ m \in AllMessages /\ m \in InFlight(c) /\ m.dest = c
      /\ channel' \in [Chains -> Seq(AllMessages)]
      /\ \A d \in Chains : Distinct(channel'[d])
      /\ InFlight(c)' = InFlight(c) \ {m}
      /\ \A d \in Chains \ {c} : InFlight(d)' = InFlight(d) /\ m \notin InFlight(d)
  BY DeliveringMovesHead
<1> HIDE DEF m
<1>2. failed' = failed \union {m} /\ nonces' = nonces
  BY DEF Delivering, m
<1>3. \A d \in Chains : InFlight(d)' = InFlight(d) \ {m}
  BY <1>1
<1>4. Pending' = Pending
  BY <1>1, <1>2, <1>3 DEF Pending, Chains
<1>5. \A x \in Pending' \union received' \union dropped' :
         x \in Pending \union received \union dropped
  BY <1>4
<1> QED
  BY <1>1, <1>2, <1>3, <1>4, <1>5 DEF MessagesOK

LEMMA RetryingKeepsMessages ==
    ASSUME MessagesOK, NEW m, Retrying(m)
    PROVE  /\ MessagesOK' /\ m \in Pending /\ m \in AllMessages
           /\ Pending' = Pending \ {m}
<1>1. /\ m \in failed /\ failed' = failed \ {m} /\ received' = received \union {m}
      /\ UNCHANGED <<channel, nonces, dropped>>
  BY DEF Retrying
<1>2. \A d \in Chains : InFlight(d)' = InFlight(d)
  BY <1>1 DEF InFlight
<1>3. m \in Pending /\ m \in AllMessages
  BY <1>1 DEF Pending, MessagesOK
<1>4. \A d \in Chains : m \notin InFlight(d)
  BY <1>1 DEF MessagesOK
<1>5. Pending' = Pending \ {m}
  BY <1>1, <1>2, <1>4 DEF Pending, Chains
<1>6. \A x \in Pending' \union received' \union dropped' :
         x \in Pending \union received \union dropped
  BY <1>1, <1>3, <1>5
<1> QED
  BY <1>1, <1>2, <1>3, <1>5, <1>6 DEF MessagesOK

-----------------------------------------------------------------------------
\* Amounts that travel

AmountsOf(S) == [m \in S |-> m.amount]

LEMMA OneMoreMessage ==
    ASSUME NEW S, NEW m, m \notin S, \A x \in S \union {m} : x.amount \in Nat
    PROVE  LET T == S \union {m}
           IN  /\ IsFiniteSet(UnitsOf(AmountsOf(S))) <=> IsFiniteSet(UnitsOf(AmountsOf(T)))
               /\ IsFiniteSet(UnitsOf(AmountsOf(S))) =>
                     /\ TotalOf(AmountsOf(S)) \in Nat
                     /\ TotalOf(AmountsOf(T)) = TotalOf(AmountsOf(S)) + m.amount
<1> DEFINE T == S \union {m}
           new == {m} \X (1..m.amount)
<1>1. UnitsOf(AmountsOf(T)) = UnitsOf(AmountsOf(S)) \union new
  <2>1. ASSUME NEW u
        PROVE  u \in UnitsOf(AmountsOf(T)) <=> u \in UnitsOf(AmountsOf(S)) \union new
    <3>1. u \in UnitsOf(AmountsOf(T)) <=> \E x \in T : u \in {x} \X (1..x.amount)
      BY DEF UnitsOf, AmountsOf
    <3>2. u \in UnitsOf(AmountsOf(S)) <=> \E x \in S : u \in {x} \X (1..x.amount)
      BY DEF UnitsOf, AmountsOf
    <3> QED
      BY <3>1, <3>2
  <2> QED
    BY <2>1
<1>2. UnitsOf(AmountsOf(S)) \cap new = {}
  <2>1. ASSUME NEW u, u \in UnitsOf(AmountsOf(S)), u \in new PROVE FALSE
    <3>1. PICK x \in S : u \in {x} \X (1..x.amount)
      BY <2>1 DEF UnitsOf, AmountsOf
    <3> QED
      BY <2>1, <3>1
  <2> QED
    BY <2>1
<1>3. IsFiniteSet(new) /\ Cardinality(new) = m.amount
  BY UnitsOfOne
<1>4. IsFiniteSet(UnitsOf(AmountsOf(T))) => IsFiniteSet(UnitsOf(AmountsOf(S)))
  BY <1>1, FS_Subset
<1>5. ASSUME IsFiniteSet(UnitsOf(AmountsOf(S)))
      PROVE  /\ IsFiniteSet(UnitsOf(AmountsOf(T))) /\ TotalOf(AmountsOf(S)) \in Nat
             /\ TotalOf(AmountsOf(T)) = TotalOf(AmountsOf(S)) + m.amount
  <2>1. /\ IsFiniteSet(UnitsOf(AmountsOf(S)) \union new)
        /\ Cardinality(UnitsOf(AmountsOf(S)) \union new)
              = Cardinality(UnitsOf(AmountsOf(S))) + Cardinality(new)
    BY <1>2, <1>3, <1>5, DisjointUnion
  <2> QED
    BY <1>1, <1>3, <1>5, <2>1, SumIsNat DEF TotalOf
<1> QED
  BY <1>4, <1>5

\* The amounts pending grow by `change`.
PendingFinite == IsFiniteSet(UnitsOf(AmountsOf(Pending)))
PendingChanges(change) ==
    /\ PendingFinite' /\ change \in Int
    /\ AmountPending \in Nat /\ AmountPending' \in Nat
    /\ AmountPending' = AmountPending + change

LEMMA AmountPendingIs ==
    AmountPending = TotalOf(AmountsOf(Pending)) /\ AmountPending' = TotalOf(AmountsOf(Pending'))
  BY DEF AmountPending, AmountsOf

LEMMA MessageAmounts ==
    ASSUME NEW m \in AllMessages
    PROVE  m.amount \in Nat /\ m.to \in Users /\ m.dest \in Chains
<1>1. /\ m.amount \in 0..Highest(Amounts) /\ m.to \in Users /\ m.dest \in Chains
  BY DEF AllMessages
<1> QED
  BY <1>1

LEMMA PendingGains ==
    ASSUME MessagesOK, PendingFinite, NEW m \in AllMessages, m \notin Pending,
           Pending' = Pending \union {m}
    PROVE  PendingChanges(m.amount)
<1>1. \A x \in Pending \union {m} : x.amount \in Nat
  BY InFlightTypes, MessageAmounts
<1>2. /\ IsFiniteSet(UnitsOf(AmountsOf(Pending \union {m})))
      /\ TotalOf(AmountsOf(Pending)) \in Nat
      /\ TotalOf(AmountsOf(Pending \union {m})) = TotalOf(AmountsOf(Pending)) + m.amount
  BY <1>1, OneMoreMessage DEF PendingFinite
<1>3. PendingFinite'
  BY <1>2 DEF PendingFinite
<1> QED
  BY <1>1, <1>2, <1>3, AmountPendingIs DEF PendingChanges

LEMMA PendingLoses ==
    ASSUME MessagesOK, PendingFinite, NEW m, m \in Pending, Pending' = Pending \ {m}
    PROVE  PendingChanges(0 - m.amount)
<1>1. /\ \A x \in Pending' \union {m} : x.amount \in Nat
      /\ Pending = Pending' \union {m} /\ m \notin Pending'
  BY InFlightTypes, MessageAmounts
<1>2. /\ IsFiniteSet(UnitsOf(AmountsOf(Pending'))) <=> IsFiniteSet(UnitsOf(AmountsOf(Pending)))
      /\ IsFiniteSet(UnitsOf(AmountsOf(Pending'))) =>
           /\ TotalOf(AmountsOf(Pending')) \in Nat
           /\ TotalOf(AmountsOf(Pending)) = TotalOf(AmountsOf(Pending')) + m.amount
  BY <1>1, OneMoreMessage
<1>3. PendingFinite' /\ IsFiniteSet(UnitsOf(AmountsOf(Pending')))
  BY <1>2 DEF PendingFinite
<1>4. m.amount \in Nat
  BY <1>1
<1> QED
  BY <1>2, <1>3, <1>4, AmountPendingIs DEF PendingChanges

LEMMA PendingStays ==
    ASSUME PendingFinite, Pending' = Pending
    PROVE  PendingChanges(0)
<1>1. PendingFinite' /\ TotalOf(AmountsOf(Pending)) \in Nat
  BY SumIsNat DEF PendingFinite
<1> QED
  BY <1>1, AmountPendingIs DEF PendingChanges

-----------------------------------------------------------------------------
\* What the side chain holds of the bridge token

HeldFinite == IsFiniteSet(UnitsOf(tokens[LZ]))
HeldChanges(change) == Changed(Wallets, tokens[LZ], tokens'[LZ], change)

LEMMA Accounts ==
    /\ LZ \in BridgeTokens /\ LZ \in Holders /\ LZ \in Wallets /\ This \in Wallets
    /\ LZ # This /\ Users \subseteq Holders /\ Users \subseteq Wallets
    /\ \A u \in Users : u # LZ /\ u # This
  BY LayerZeroAssumption, MultiBridgeAssumption DEF Wallets, Users

\* The balances of the bridge token become `balances`.
LEMMA HeldBecomes ==
    ASSUME BridgeTypeOK, NEW balances \in [Wallets -> Nat],
           tokens' = [tokens EXCEPT ![LZ] = balances]
    PROVE  tokens' \in [BridgeTokens -> [Wallets -> Nat]] /\ tokens'[LZ] = balances
  BY Accounts DEF BridgeTypeOK, Wallets

\* One of them changes.
LEMMA HeldChangesAt ==
    ASSUME BridgeTypeOK, NEW a \in Wallets, NEW change \in Int,
           tokens[LZ][a] + change \in Nat, tokens' = [tokens EXCEPT ![LZ][a] = @ + change]
    PROVE  /\ tokens' \in [BridgeTokens -> [Wallets -> Nat]]
           /\ HeldFinite => HeldChanges(change)
<1> DEFINE after == [tokens[LZ] EXCEPT ![a] = @ + change]
<1>1. tokens[LZ] \in [Wallets -> Nat]
  BY Accounts DEF BridgeTypeOK, Wallets
<1>2. /\ after \in [Wallets -> Nat] /\ after[a] = tokens[LZ][a] + change
      /\ \A b \in Wallets : b # a => after[b] = tokens[LZ][b]
  BY <1>1
<1>3. tokens' = [tokens EXCEPT ![LZ] = after]
  BY Accounts DEF BridgeTypeOK
<1> HIDE DEF after
<1>4. tokens' \in [BridgeTokens -> [Wallets -> Nat]] /\ tokens'[LZ] = after
  BY <1>2, <1>3, HeldBecomes
<1>5. ASSUME HeldFinite PROVE HeldChanges(change)
  BY <1>1, <1>2, <1>4, <1>5, ChangedAtOne DEF HeldFinite, HeldChanges
<1> QED
  BY <1>4, <1>5

LEMMA SwapInForKeeps ==
    ASSUME BridgeTypeOK, NEW balances \in [Wallets -> Nat], NEW amount \in Nat,
           amount <= balances[LZ], NEW to \in Users, NEW rest \in Users,
           SwapInFor(balances, amount, to, rest)
    PROVE  /\ BridgeTypeOK'
           /\ IsFiniteSet(UnitsOf(balances)) => Changed(Wallets, balances, tokens'[LZ], 0)
<1> DEFINE taken == WithinLimits(LZ, amount)
           out == AfterFee(LZ, LZ, taken)
           swapped == Moved(balances, LZ, This, taken)
           left == Moved(swapped, LZ, rest, swapped[LZ])
<1>1. taken \in 0..amount
  BY Accounts, LimitsCut
<1>2. /\ tokens' = [tokens EXCEPT ![LZ] = left]
      /\ agTokens' = [agTokens EXCEPT ![to] = @ + out] /\ issued' = issued + out
      /\ RecordIn(LZ, taken)
      /\ UNCHANGED <<detailVars, native, contributed, now>>
  BY DEF SwapInFor
<1> HIDE DEF taken
<1>3. taken \in Nat /\ taken <= balances[LZ]
  BY <1>1, Accounts
<1>4. out \in 0..taken
  BY <1>3, Accounts, FeesAreTaken
<1> HIDE DEF out
<1>5. /\ swapped \in [Wallets -> Nat]
      /\ IsFiniteSet(UnitsOf(balances)) => Changed(Wallets, balances, swapped, 0)
  BY <1>3, Accounts, TransferChangesNothing
<1> HIDE DEF swapped
<1>6. swapped[LZ] \in Nat /\ swapped[LZ] <= swapped[LZ]
  BY <1>5, Accounts
<1>7. /\ left \in [Wallets -> Nat]
      /\ IsFiniteSet(UnitsOf(swapped)) => Changed(Wallets, swapped, left, 0)
  BY <1>5, <1>6, Accounts, TransferChangesNothing
<1> HIDE DEF left
<1>8. tokens' \in [BridgeTokens -> [Wallets -> Nat]] /\ tokens'[LZ] = left
  BY <1>2, <1>7, HeldBecomes
<1>9. UsageTypeOK'
  BY <1>2, <1>3, Accounts, VolumesAreKept
<1>10. /\ agTokens' \in [Holders -> Nat] /\ issued' \in Int
       /\ native' \in Nat /\ contributed' \in Int /\ now' \in Ticks
  BY <1>2, <1>3, <1>4, Accounts DEF BridgeTypeOK
<1>11. BridgeTypeOK'
  BY <1>2, <1>8, <1>9, <1>10, MovesKeepDetails
<1>12. ASSUME IsFiniteSet(UnitsOf(balances)) PROVE Changed(Wallets, balances, left, 0)
  <2>1. Changed(Wallets, balances, swapped, 0)
    BY <1>5, <1>12
  <2>2. IsFiniteSet(UnitsOf(swapped))
    BY <2>1 DEF Changed
  <2>3. Changed(Wallets, swapped, left, 0)
    BY <1>7, <2>2
  <2>4. Changed(Wallets, balances, left, 0 + 0)
    BY <2>1, <2>3, ChangedTwice
  <2> QED
    BY <2>4
<1> QED
  BY <1>8, <1>11, <1>12

LEMMA CreditOnSideKeeps ==
    ASSUME BridgeTypeOK, NEW to \in Users, NEW amount \in Nat, CreditOnSide(to, amount)
    PROVE  BridgeTypeOK' /\ (HeldFinite => HeldChanges(amount))
<1> DEFINE more == [tokens[LZ] EXCEPT ![LZ] = @ + amount]
<1>1. tokens[LZ] \in [Wallets -> Nat]
  BY Accounts DEF BridgeTypeOK, Wallets
<1>2. /\ more \in [Wallets -> Nat] /\ more[LZ] = tokens[LZ][LZ] + amount
      /\ \A b \in Wallets : b # LZ => more[b] = tokens[LZ][b]
      /\ amount <= more[LZ]
  BY <1>1, Accounts
<1>3. SwapInFor(more, amount, to, to)
  BY DEF CreditOnSide
<1> HIDE DEF more
<1>4. /\ BridgeTypeOK'
      /\ IsFiniteSet(UnitsOf(more)) => Changed(Wallets, more, tokens'[LZ], 0)
  BY <1>2, <1>3, SwapInForKeeps
<1>5. ASSUME HeldFinite PROVE HeldChanges(amount)
  <2>1. Changed(Wallets, tokens[LZ], more, amount)
    BY <1>1, <1>2, <1>5, Accounts, ChangedAtOne DEF HeldFinite
  <2>2. IsFiniteSet(UnitsOf(more))
    BY <2>1 DEF Changed
  <2>3. Changed(Wallets, more, tokens'[LZ], 0)
    BY <1>4, <2>2
  <2>4. Changed(Wallets, tokens[LZ], tokens'[LZ], amount + 0)
    BY <2>1, <2>3, ChangedTwice
  <2> QED
    BY <2>4 DEF HeldChanges
<1> QED
  BY <1>4, <1>5

LEMMA WithdrawOnSideKeeps ==
    ASSUME BridgeTypeOK, NEW from \in Users, NEW to \in Users, NEW amount \in Nat,
           WithdrawOnSide(from, to, amount)
    PROVE  BridgeTypeOK' /\ (HeldFinite => HeldChanges(0))
<1> DEFINE moved == Moved(tokens[LZ], from, LZ, amount)
<1>1. tokens[LZ] \in [Wallets -> Nat] /\ amount <= tokens[LZ][from]
  BY Accounts DEF BridgeTypeOK, Wallets, WithdrawOnSide
<1>2. SwapInFor(moved, amount, to, from)
  BY DEF WithdrawOnSide
<1>3. /\ moved \in [Wallets -> Nat]
      /\ moved[LZ] = tokens[LZ][LZ] + amount
      /\ HeldFinite => Changed(Wallets, tokens[LZ], moved, 0)
  BY <1>1, Accounts, TransferChangesNothing DEF HeldFinite
<1>4. amount <= moved[LZ]
  BY <1>1, <1>3, Accounts
<1> HIDE DEF moved
<1>5. /\ BridgeTypeOK'
      /\ IsFiniteSet(UnitsOf(moved)) => Changed(Wallets, moved, tokens'[LZ], 0)
  BY <1>2, <1>3, <1>4, SwapInForKeeps
<1>6. ASSUME HeldFinite PROVE HeldChanges(0)
  <2>1. Changed(Wallets, tokens[LZ], moved, 0)
    BY <1>3, <1>6
  <2>2. IsFiniteSet(UnitsOf(moved))
    BY <2>1 DEF Changed
  <2>3. Changed(Wallets, tokens[LZ], tokens'[LZ], 0 + 0)
    BY <1>5, <2>1, <2>2, ChangedTwice
  <2> QED
    BY <2>3 DEF HeldChanges
<1> QED
  BY <1>5, <1>6

LEMMA SendFromSideKeeps ==
    ASSUME BridgeTypeOK, NEW u \in Users, NEW to \in Users, NEW amount \in Nat,
           SendFromSide(u, to, amount)
    PROVE  LET paid == AfterFee(LZ, LZ, amount)
           IN  paid \in 0..amount /\ BridgeTypeOK' /\ (HeldFinite => HeldChanges(0 - paid))
<1> DEFINE paid == AfterFee(LZ, LZ, amount)
<1>1. paid \in 0..amount
  BY Accounts, FeesAreTaken
<1>2. /\ RecordOut(amount) /\ agTokens[u] >= amount /\ tokens[LZ][This] >= paid
      /\ agTokens' = [agTokens EXCEPT ![u] = @ - amount]
      /\ tokens' = [tokens EXCEPT ![LZ][This] = @ - paid]
      /\ issued' = issued - amount
      /\ UNCHANGED <<detailVars, native, contributed, now>>
  BY DEF SendFromSide
<1> HIDE DEF paid
<1>3. tokens[LZ][This] \in Nat /\ u \in Holders /\ agTokens[u] \in Nat
  BY Accounts DEF BridgeTypeOK
<1>4. /\ tokens' = [tokens EXCEPT ![LZ][This] = @ + (0 - paid)]
      /\ 0 - paid \in Int /\ tokens[LZ][This] + (0 - paid) \in Nat
  <2>1. /\ tokens[LZ][This] - paid = tokens[LZ][This] + (0 - paid)
        /\ 0 - paid \in Int /\ tokens[LZ][This] + (0 - paid) \in Nat
    BY <1>1, <1>2, <1>3
  <2> QED
    BY <1>2, <2>1
<1>5. /\ tokens' \in [BridgeTokens -> [Wallets -> Nat]]
      /\ HeldFinite => HeldChanges(0 - paid)
  BY <1>4, Accounts, HeldChangesAt
<1>6. UsageTypeOK'
  BY <1>2, Accounts, VolumesAreKept
<1>7. /\ agTokens' \in [Holders -> Nat] /\ issued' \in Int
      /\ native' \in Nat /\ contributed' \in Int /\ now' \in Ticks
  BY <1>2, <1>3 DEF BridgeTypeOK
<1>8. BridgeTypeOK'
  BY <1>2, <1>5, <1>6, <1>7, MovesKeepDetails
<1> QED
  BY <1>1, <1>5, <1>8 DEF paid

\* sendCredit on the side chain, and governance's mint and burn.
LEMMA HeldAloneChanges ==
    ASSUME BridgeTypeOK, NEW a \in Wallets, NEW change \in Int, tokens[LZ][a] + change \in Nat,
           tokens' = [tokens EXCEPT ![LZ][a] = @ + change],
           UNCHANGED <<detailVars, usageVars, agTokens, issued, native, now>>,
           contributed' \in Int
    PROVE  BridgeTypeOK' /\ (HeldFinite => HeldChanges(change))
<1>1. /\ tokens' \in [BridgeTokens -> [Wallets -> Nat]]
      /\ HeldFinite => HeldChanges(change)
  BY HeldChangesAt
<1>2. UsageTypeOK'
  BY DEF BridgeTypeOK, UsageTypeOK, usageVars
<1>3. /\ agTokens' \in [Holders -> Nat] /\ issued' \in Int
      /\ native' \in Nat /\ now' \in Ticks
  BY DEF BridgeTypeOK
<1> QED
  BY <1>1, <1>2, <1>3, MovesKeepDetails

\* Swaps do not change how much of the bridge token there is.
LEMMA SwapsKeepHeld ==
    ASSUME BridgeTypeOK, HeldFinite, [MultiBridgeNext]_bridgeVars
    PROVE  HeldChanges(0)
<1> USE Accounts
<1>1. tokens[LZ] \in [Wallets -> Nat]
  BY DEF BridgeTypeOK, Wallets
<1>2. ASSUME tokens'[LZ] = tokens[LZ] PROVE HeldChanges(0)
  BY <1>1, <1>2, Unmoved DEF HeldFinite, HeldChanges
<1>3. ASSUME NEW token \in BridgeTokens, NEW from \in Wallets, NEW to \in Wallets,
             NEW amount \in Nat, amount <= tokens[token][from],
             tokens' = [tokens EXCEPT ![token] = Moved(@, from, to, amount)]
      PROVE  HeldChanges(0)
  <2>1. CASE token = LZ
    <3>1. tokens'[LZ] = Moved(tokens[LZ], from, to, amount)
      BY <1>3, <2>1 DEF BridgeTypeOK
    <3> QED
      BY <1>1, <1>3, <2>1, <3>1, TransferChangesNothing DEF HeldFinite, HeldChanges
  <2>2. CASE token # LZ
    BY <1>2, <1>3, <2>2 DEF BridgeTypeOK
  <2> QED
    BY <2>1, <2>2
<1>4. ASSUME NEW token \in BridgeTokens, NEW a \in Holders, NEW to \in Holders, NEW amount \in Nat
      PROVE  /\ a \in Wallets /\ to \in Wallets
             /\ tokens[token][a] \in Nat /\ tokens[token][This] \in Nat
  BY DEF BridgeTypeOK, Wallets
<1>5. Amounts \subseteq Nat
  BY MultiBridgeAssumption
<1>6. ASSUME NEW token \in BridgeTokens, NEW a \in Holders, NEW to \in Holders,
             NEW amount \in Amounts, SwapIn(a, token, amount, to)
      PROVE  HeldChanges(0)
  <2> DEFINE taken == WithinLimits(token, amount)
  <2>1. taken \in 0..amount
    BY <1>5, LimitsCut
  <2>2. /\ tokens[token][a] >= taken
        /\ tokens' = [tokens EXCEPT ![token] = Moved(@, a, This, taken)]
    BY <1>6 DEF SwapIn, Exchange
  <2> HIDE DEF taken
  <2>3. taken \in Nat /\ taken <= tokens[token][a]
    BY <1>4, <1>5, <2>1, <2>2
  <2> QED
    BY <1>3, <1>4, <1>5, <2>2, <2>3
<1>7. ASSUME NEW token \in BridgeTokens, NEW a \in Holders, NEW to \in Holders,
             NEW amount \in Amounts, SwapOut(a, token, amount, to)
      PROVE  HeldChanges(0)
  <2> DEFINE paid == AfterFee(token, a, amount)
  <2>1. paid \in 0..amount
    BY <1>5, FeesAreTaken
  <2>2. /\ tokens[token][This] >= paid
        /\ tokens' = [tokens EXCEPT ![token] = Moved(@, This, to, paid)]
    BY <1>7 DEF SwapOut
  <2> HIDE DEF paid
  <2>3. paid \in Nat /\ paid <= tokens[token][This]
    BY <1>4, <1>5, <2>1, <2>2
  <2> QED
    BY <1>3, <1>4, <1>5, <2>2, <2>3
<1>8. ASSUME NEW token \in BridgeTokens, NEW a \in Holders, NEW amount \in Amounts,
             Contribute(token, a, amount)
      PROVE  HeldChanges(0)
  <2>1. /\ amount <= tokens[token][a]
        /\ tokens' = [tokens EXCEPT ![token] = Moved(@, a, This, amount)]
    BY <1>4, <1>5, <1>8 DEF Contribute
  <2> QED
    BY <1>3, <1>4, <1>5, <2>1
<1>9. ASSUME NEW token \in BridgeTokens, NEW a \in Holders, NEW amount \in Amounts,
             RecoverERC20(token, a, amount)
      PROVE  HeldChanges(0)
  <2>1. /\ amount <= tokens[token][This]
        /\ tokens' = [tokens EXCEPT ![token] = Moved(@, This, a, amount)]
    BY <1>4, <1>5, <1>9 DEF RecoverERC20
  <2> QED
    BY <1>3, <1>4, <1>5, <2>1
<1>10. ASSUME NEW token \in OutsideTokens, NEW a \in Holders, NEW amount \in Amounts,
              Bridge(token, a, amount)
       PROVE  HeldChanges(0)
  <2>1. token \in BridgeTokens /\ token # LZ
    BY MultiBridgeAssumption, LayerZeroAssumption
  <2>2. tokens'[LZ] = tokens[LZ]
    BY <1>10, <2>1 DEF Bridge, BridgeTypeOK
  <2> QED
    BY <1>2, <2>2
<1>11. CASE UNCHANGED tokens
  BY <1>2, <1>11
<1>12. ASSUME NEW a \in Holders, NEW amount \in Amounts, MintNative(a, amount)
       PROVE  UNCHANGED tokens
  BY <1>12 DEF MintNative
<1>13. CASE Tick \/ UNCHANGED bridgeVars
  BY <1>11, <1>13, Zenon DEF Tick, bridgeVars, balanceVars
<1>14. CASE Governance
  <2>1. UNCHANGED balanceVars \/ \E token \in BridgeTokens, a \in Holders, amount \in Amounts :
                                    RecoverERC20(token, a, amount)
    BY <1>14, Zenon DEF Governance, AddBridgeToken, RemoveBridgeToken, SetLimit, SetHourlyLimit,
         SetSwapFee, ToggleBridge, SetDetails, SetChainTotalHourlyLimit, ToggleFeesForAddress
  <2> QED
    BY <1>9, <1>11, <2>1 DEF balanceVars
<1> QED
  BY <1>6, <1>7, <1>8, <1>10, <1>11, <1>12, <1>13, <1>14 DEF MultiBridgeNext

-----------------------------------------------------------------------------
\* Mainnet, and the ledger of both chains

MainTypeOK ==
    /\ mainTokens \in [Users -> Nat] /\ locked \in Nat
    /\ credits \in [Users -> Nat] /\ notReceived \in [Users -> Nat]
    /\ \A u \in Users : credits[u] <= notReceived[u]
    /\ minted \in Nat /\ burnt \in Nat /\ forgotten \in Nat

CreditsFinite == IsFiniteSet(UnitsOf(credits))
CreditsChange(change) == Changed(Users, credits, credits', change)

LedgerFinite == HeldFinite /\ PendingFinite /\ CreditsFinite

\* The changes of a step to the sums of BridgedIsBacked.
Ledger(held, pending, credit) ==
    /\ HeldChanges(held) /\ PendingChanges(pending) /\ CreditsChange(credit)
    /\ held + pending + credit + (forgotten' - forgotten)
          = (locked' - locked) + (minted' - minted) - (burnt' - burnt)

LEMMA LedgerKeeps ==
    ASSUME BridgedIsBacked, LedgerFinite, MainTypeOK, MainTypeOK', NEW held, NEW pending, NEW credit,
           Ledger(held, pending, credit)
    PROVE  BridgedIsBacked' /\ LedgerFinite'
<1>1. /\ held \in Int /\ TotalOf(tokens[LZ]) \in Nat /\ TotalOf(tokens'[LZ]) \in Nat
      /\ TotalOf(tokens'[LZ]) = TotalOf(tokens[LZ]) + held
      /\ HeldFinite'
  BY DEF Ledger, HeldChanges, Changed, HeldFinite
<1>2. /\ pending \in Int /\ AmountPending \in Nat /\ AmountPending' \in Nat
      /\ AmountPending' = AmountPending + pending /\ PendingFinite'
  BY DEF Ledger, PendingChanges
<1>3. /\ credit \in Int /\ TotalOf(credits) \in Nat /\ TotalOf(credits') \in Nat
      /\ TotalOf(credits') = TotalOf(credits) + credit /\ CreditsFinite'
  BY DEF Ledger, CreditsChange, Changed, CreditsFinite
<1>4. /\ locked \in Nat /\ minted \in Nat /\ burnt \in Nat /\ forgotten \in Nat
      /\ locked' \in Nat /\ minted' \in Nat /\ burnt' \in Nat /\ forgotten' \in Nat
  BY DEF MainTypeOK
<1>5. /\ TotalOf(tokens[LZ]) + AmountPending + TotalOf(credits) + forgotten
            = locked + minted - burnt
      /\ held + pending + credit + (forgotten' - forgotten)
            = (locked' - locked) + (minted' - minted) - (burnt' - burnt)
  BY DEF BridgedIsBacked, Ledger
<1>6. PICK h \in Int, p \in Int, c \in Int :
         h = TotalOf(tokens[LZ]) /\ p = AmountPending /\ c = TotalOf(credits)
  BY <1>1, <1>2, <1>3
<1>7. TotalOf(tokens'[LZ]) + AmountPending' + TotalOf(credits') + forgotten'
         = locked' + minted' - burnt'
  <2>1. (h + held) + (p + pending) + (c + credit) + forgotten' = locked' + minted' - burnt'
    <3>1. h + p + c + forgotten = locked + minted - burnt
      BY <1>5, <1>6
    <3> QED
      BY <1>1, <1>2, <1>3, <1>4, <1>5, <3>1
  <2>2. /\ TotalOf(tokens'[LZ]) = h + held /\ AmountPending' = p + pending
        /\ TotalOf(credits') = c + credit
    BY <1>1, <1>2, <1>3, <1>6
  <2> QED
    BY <2>1, <2>2
<1>8. BridgedIsBacked'
  BY <1>7 DEF BridgedIsBacked
<1> QED
  BY <1>1, <1>2, <1>3, <1>8 DEF LedgerFinite

\* What a step does on mainnet.
LEMMA SameCredits ==
    ASSUME MainTypeOK, CreditsFinite, credits' = credits
    PROVE  CreditsChange(0)
  BY Unmoved DEF MainTypeOK, CreditsFinite, CreditsChange

LEMMA SameHeld ==
    ASSUME BridgeTypeOK, HeldFinite, UNCHANGED bridgeVars
    PROVE  HeldChanges(0) /\ BridgeTypeOK'
<1>1. tokens' = tokens /\ BridgeTypeOK'
  BY StepsKeepTypes DEF bridgeVars, balanceVars
<1>2. tokens[LZ] \in [Wallets -> Nat]
  BY Accounts DEF BridgeTypeOK, Wallets
<1> QED
  BY <1>1, <1>2, Unmoved DEF HeldFinite, HeldChanges

\* A user gives up a part of a credit: to send it, to be paid, or swept.
LEMMA CreditIsUsed ==
    ASSUME MainTypeOK, NEW u \in Users, NEW amount \in Nat, amount <= credits[u],
           credits' = [credits EXCEPT ![u] = @ - amount],
           notReceived' = [notReceived EXCEPT ![u] = @ - amount]
    PROVE  /\ credits' \in [Users -> Nat] /\ notReceived' \in [Users -> Nat]
           /\ \A v \in Users : credits'[v] <= notReceived'[v]
           /\ CreditsFinite => CreditsChange(0 - amount)
<1>1. /\ credits[u] \in Nat /\ notReceived[u] \in Nat /\ credits[u] <= notReceived[u]
      /\ credits[u] - amount \in Nat /\ notReceived[u] - amount \in Nat
      /\ credits[u] - amount <= notReceived[u] - amount
  BY DEF MainTypeOK
<1>2. /\ credits' \in [Users -> Nat] /\ notReceived' \in [Users -> Nat]
      /\ credits'[u] = credits[u] - amount /\ notReceived'[u] = notReceived[u] - amount
      /\ \A v \in Users : v # u => credits'[v] = credits[v] /\ notReceived'[v] = notReceived[v]
  BY <1>1 DEF MainTypeOK
<1>3. \A v \in Users : credits'[v] <= notReceived'[v]
  BY <1>1, <1>2 DEF MainTypeOK
<1>4. credits'[u] = credits[u] + (0 - amount)
  BY <1>1, <1>2
<1>5. ASSUME CreditsFinite PROVE CreditsChange(0 - amount)
  <2>1. /\ credits \in [Users -> Nat] /\ IsFiniteSet(UnitsOf(credits)) /\ 0 - amount \in Int
        /\ \A v \in Users : v # u => credits'[v] = credits[v]
    BY <1>2, <1>5 DEF MainTypeOK, CreditsFinite
  <2>2. Changed(Users, credits, credits', 0 - amount)
    BY <1>2, <1>4, <2>1, ChangedAtOne
  <2> QED
    BY <2>2 DEF CreditsChange
<1> QED
  BY <1>2, <1>3, <1>5

\* A message is paid on mainnet.
LEMMA CreditOnMainKeeps ==
    ASSUME MainTypeOK, NEW to \in Users, NEW amount \in Nat, CreditOnMain(to, amount),
           UNCHANGED supplyVars
    PROVE  /\ MainTypeOK'
           /\ CreditsFinite => \E credit \in Int :
                 /\ CreditsChange(credit)
                 /\ credit + (forgotten' - forgotten) - (locked' - locked) = amount
                 /\ credit <= 0 \/ locked' = 0
<1> DEFINE missing == Excess(amount, locked)
           old == IF missing > 0 THEN credits[to] ELSE 0
           credit == IF missing > 0 THEN missing - credits[to] ELSE 0
<1>1. /\ locked \in Nat /\ credits[to] \in Nat /\ notReceived[to] \in Nat /\ mainTokens[to] \in Nat
      /\ forgotten \in Nat /\ credits[to] <= notReceived[to]
  BY DEF MainTypeOK
<1>2. /\ missing \in 0..amount /\ amount - missing <= locked
      /\ missing > 0 => amount - missing = locked
  BY <1>1 DEF Excess
<1>3. /\ locked' = locked - (amount - missing)
      /\ mainTokens' = [mainTokens EXCEPT ![to] = @ + (amount - missing)]
      /\ credits' = IF missing > 0 THEN [credits EXCEPT ![to] = missing] ELSE credits
      /\ forgotten' = forgotten + old
      /\ notReceived' = [notReceived EXCEPT ![to] = @ + missing]
      /\ minted' = minted /\ burnt' = burnt
  BY DEF CreditOnMain, PayOnMain, supplyVars
<1> HIDE DEF missing
<1>4. missing \in Nat /\ old \in Nat /\ credit \in Int /\ amount - missing \in Nat
  BY <1>1, <1>2
<1>5. /\ locked' \in Nat /\ mainTokens' \in [Users -> Nat] /\ forgotten' \in Nat
  BY <1>1, <1>2, <1>3, <1>4 DEF MainTypeOK
<1>6. /\ credits' \in [Users -> Nat] /\ credits'[to] = credits[to] + credit
      /\ \A v \in Users : v # to => credits'[v] = credits[v]
      /\ credits'[to] <= notReceived[to] + missing
  BY <1>1, <1>3, <1>4 DEF MainTypeOK
<1>7. /\ notReceived' \in [Users -> Nat] /\ notReceived'[to] = notReceived[to] + missing
      /\ \A v \in Users : v # to => notReceived'[v] = notReceived[v]
  BY <1>1, <1>3, <1>4 DEF MainTypeOK
<1>8. \A v \in Users : credits'[v] <= notReceived'[v]
  BY <1>6, <1>7 DEF MainTypeOK
<1>9. MainTypeOK'
  BY <1>3, <1>5, <1>6, <1>7, <1>8 DEF MainTypeOK
<1>10. credit + (forgotten' - forgotten) - (locked' - locked) = amount
  BY <1>1, <1>2, <1>3, <1>4
<1>11. ASSUME CreditsFinite PROVE CreditsChange(credit)
  BY <1>4, <1>6, <1>11, ChangedAtOne DEF MainTypeOK, CreditsFinite, CreditsChange
<1>12. credit <= 0 \/ locked' = 0
  BY <1>1, <1>2, <1>3, <1>4
<1> QED
  BY <1>4, <1>9, <1>10, <1>11, <1>12

-----------------------------------------------------------------------------
\* What each action does to the messages, as Delivery.tla sees it

DeliveryStep == [Abstract!DeliveryNext]_<<Pending, received, dropped>>

LEMMA HighestIsABound ==
    ASSUME NEW amount \in Amounts
    PROVE  amount \in Nat /\ Highest(Amounts) \in Nat /\ amount <= Highest(Amounts)
<1>1. /\ Highest(Amounts) \in Amounts \union {0}
      /\ \A y \in Amounts : y <= Highest(Amounts)
  BY LayerZeroAssumption, Zenon DEF Highest
<1>2. Amounts \union {0} \subseteq Nat
  BY MultiBridgeAssumption
<1> HIDE DEF Highest
<1> QED
  BY <1>1, <1>2

LEMMA BothAreChains ==
    Main \in Chains /\ Side \in Chains
  BY DEF Chains

LEMMA SendStep ==
    ASSUME MessagesOK, PendingFinite, NEW c \in Chains, NEW to \in Users,
           NEW amount \in 0..Highest(Amounts), LzSend(c, to, amount)
    PROVE  MessagesOK' /\ PendingChanges(amount) /\ DeliveryStep /\ UNCHANGED heldUp
<1> DEFINE m == Message(c, to, amount)
<1>1. m.dest = c /\ m.amount = amount /\ m.nonce = nonces[c] + 1
  BY DEF Message
<1>2. m \in AllMessages
  <2>1. nonces[c] + 1 \in 1..MaxMessages
    BY LayerZeroAssumption DEF LzSend, MessagesOK
  <2> QED
    BY <2>1 DEF Message, AllMessages
<1>3. /\ channel' = [channel EXCEPT ![c] = Append(@, m)]
      /\ nonces' = [nonces EXCEPT ![c] = @ + 1]
      /\ UNCHANGED <<heldUp, failed, received, dropped>>
  BY DEF LzSend
<1> HIDE DEF m
<1>4. Sending(m)
  BY <1>1, <1>3 DEF Sending
<1>5. /\ MessagesOK' /\ Pending' = Pending \union {m} /\ m \notin Pending
      /\ \A x \in Pending \union received \union dropped :
            x.dest = m.dest => x.nonce # m.nonce
  BY <1>2, <1>4, SendingKeepsMessages
<1>6. PendingChanges(m.amount)
  BY <1>2, <1>5, PendingGains
<1>7. Abstract!Send(m)
  BY <1>3, <1>5 DEF Abstract!Send, Abstract!Known
<1> QED
  BY <1>1, <1>2, <1>3, <1>5, <1>6, <1>7 DEF DeliveryStep, Abstract!DeliveryNext

\* m leaves the messages pending: it is received or given up.
LEMMA LeavingStep ==
    ASSUME MessagesOK, PendingFinite, NEW m \in AllMessages, m \in Pending,
           Pending' = Pending \ {m},
           \/ received' = received \union {m} /\ dropped' = dropped
           \/ dropped' = dropped \union {m} /\ received' = received
    PROVE  PendingChanges(0 - m.amount) /\ DeliveryStep
<1>1. PendingChanges(0 - m.amount)
  BY PendingLoses
<1>2. Abstract!Receive(m) \/ Abstract!Drop(m)
  BY DEF Abstract!Receive, Abstract!Drop
<1> QED
  BY <1>1, <1>2 DEF DeliveryStep, Abstract!DeliveryNext

\* The first message to c is received, or given up.
LEMMA ArrivalStep ==
    ASSUME MessagesOK, PendingFinite, NEW c \in Chains, channel[c] # << >>, Arrived(c),
           UNCHANGED <<failed, nonces>>, NEW m, m = Head(channel[c]),
           \/ received' = received \union {m} /\ dropped' = dropped
           \/ dropped' = dropped \union {m} /\ received' = received
    PROVE  /\ MessagesOK' /\ PendingChanges(0 - m.amount) /\ DeliveryStep
           /\ m \in AllMessages /\ m.dest = c
<1>1. Delivering(c)
  BY DEF Delivering, Arrived
<1>2. MessagesOK' /\ m \in Pending /\ m \in AllMessages /\ Pending' = Pending \ {m}
  BY <1>1, DeliveringKeepsMessages
<1>3. m.dest = c
  BY <1>1, DeliveringMovesHead
<1> QED
  BY <1>2, <1>3, LeavingStep

LEMMA FailureStep ==
    ASSUME MessagesOK, PendingFinite, NEW c \in Chains, DeliverFailing(c)
    PROVE  MessagesOK' /\ PendingChanges(0) /\ DeliveryStep
<1>1. /\ Delivering(c) /\ failed' = failed \union {Head(channel[c])}
      /\ UNCHANGED <<received, dropped>>
  BY DEF DeliverFailing, Delivering, Arrived
<1>2. MessagesOK' /\ Pending' = Pending
  BY <1>1, FailingKeepsMessages
<1> QED
  BY <1>1, <1>2, PendingStays DEF DeliveryStep

LEMMA RetryStep ==
    ASSUME MessagesOK, PendingFinite, NEW m, RetryMessage(m)
    PROVE  /\ MessagesOK' /\ PendingChanges(0 - m.amount) /\ DeliveryStep
           /\ m \in AllMessages /\ UNCHANGED heldUp
<1>1. Retrying(m) /\ UNCHANGED <<heldUp, dropped>> /\ received' = received \union {m}
  BY DEF RetryMessage, Retrying, Execute
<1>2. MessagesOK' /\ m \in Pending /\ m \in AllMessages /\ Pending' = Pending \ {m}
  BY <1>1, RetryingKeepsMessages
<1> QED
  BY <1>1, <1>2, LeavingStep

LEMMA QuietStep ==
    ASSUME MessagesOK, UNCHANGED <<channel, failed, nonces, received, dropped>>
    PROVE  MessagesOK' /\ DeliveryStep /\ (PendingFinite => PendingChanges(0))
<1>1. /\ Pending' = Pending
      /\ \A c \in Chains : InFlight(c)' = InFlight(c)
  BY DEF Pending, InFlight
<1>2. MessagesOK'
  BY <1>1 DEF MessagesOK
<1> QED
  BY <1>1, <1>2, PendingStays DEF DeliveryStep

-----------------------------------------------------------------------------
\* The steps

SwitchesOK == heldUp \subseteq Chains /\ pausedApps \subseteq Chains /\ trusted \subseteq Chains

BridgeInv == BridgeTypeOK /\ MainTypeOK /\ MessagesOK /\ SwitchesOK

\* A step changes the sums of the ledger, and credits grow only when nothing is locked.
Accounted ==
    \E held, pending, credit \in Int :
       /\ Ledger(held, pending, credit)
       /\ (credit <= 0 /\ minted <= minted') \/ locked' = 0

GoodStep == BridgeInv' /\ DeliveryStep /\ Accounted

LEMMA SendFromMainIsGood ==
    ASSUME BridgeInv, LedgerFinite, NEW u \in Users, NEW to \in Users, NEW amount \in Amounts,
           SendFromMain(u, to, amount)
    PROVE  GoodStep
<1>1. amount \in Nat /\ amount \in 0..Highest(Amounts)
  BY HighestIsABound
<1>2. /\ mainTokens[u] >= amount /\ mainTokens' = [mainTokens EXCEPT ![u] = @ - amount]
      /\ locked' = locked + amount /\ LzSend(Side, to, amount)
      /\ UNCHANGED <<bridgeVars, credits, notReceived, switchVars, supplyVars, forgotten>>
  BY DEF SendFromMain
<1>3. MessagesOK' /\ PendingChanges(amount) /\ DeliveryStep /\ UNCHANGED heldUp
  BY <1>1, <1>2, BothAreChains, SendStep DEF BridgeInv, LedgerFinite
<1>4. BridgeTypeOK' /\ HeldChanges(0)
  BY <1>2, SameHeld DEF BridgeInv, LedgerFinite
<1>5. MainTypeOK' /\ SwitchesOK' /\ UNCHANGED <<minted, burnt>>
  BY <1>1, <1>2, <1>3 DEF BridgeInv, MainTypeOK, SwitchesOK, switchVars, supplyVars
<1>6. CreditsChange(0)
  BY <1>2, SameCredits DEF BridgeInv, LedgerFinite
<1>7. Ledger(0, amount, 0)
  BY <1>1, <1>2, <1>3, <1>4, <1>5, <1>6 DEF Ledger, BridgeInv, MainTypeOK
<1> QED
  BY <1>1, <1>3, <1>4, <1>5, <1>7 DEF GoodStep, Accounted, BridgeInv, MainTypeOK

LEMMA SendCreditFromMainIsGood ==
    ASSUME BridgeInv, LedgerFinite, NEW u \in Users, NEW to \in Users, NEW amount \in Amounts,
           SendCreditFromMain(u, to, amount)
    PROVE  GoodStep
<1>1. amount \in Nat /\ amount \in 0..Highest(Amounts) /\ 0 - amount \in Int /\ 0 - amount <= 0
  BY HighestIsABound
<1>2. /\ credits[u] >= amount /\ credits' = [credits EXCEPT ![u] = @ - amount]
      /\ notReceived' = [notReceived EXCEPT ![u] = @ - amount] /\ LzSend(Side, to, amount)
      /\ UNCHANGED <<bridgeVars, mainTokens, locked, switchVars, supplyVars, forgotten>>
  BY DEF SendCreditFromMain
<1>3. MessagesOK' /\ PendingChanges(amount) /\ DeliveryStep /\ UNCHANGED heldUp
  BY <1>1, <1>2, BothAreChains, SendStep DEF BridgeInv, LedgerFinite
<1>4. BridgeTypeOK' /\ HeldChanges(0)
  BY <1>2, SameHeld DEF BridgeInv, LedgerFinite
<1>5. amount <= credits[u]
  BY <1>1, <1>2 DEF BridgeInv, MainTypeOK
<1>6. /\ credits' \in [Users -> Nat] /\ notReceived' \in [Users -> Nat]
      /\ \A v \in Users : credits'[v] <= notReceived'[v]
      /\ CreditsChange(0 - amount)
  BY <1>1, <1>2, <1>5, CreditIsUsed DEF BridgeInv, LedgerFinite
<1>7. MainTypeOK' /\ SwitchesOK' /\ UNCHANGED <<minted, burnt, locked, forgotten>>
  BY <1>2, <1>3, <1>6 DEF BridgeInv, MainTypeOK, SwitchesOK, switchVars, supplyVars
<1>8. Ledger(0, amount, 0 - amount)
  BY <1>1, <1>3, <1>4, <1>6, <1>7 DEF Ledger, BridgeInv, MainTypeOK
<1> QED
  BY <1>1, <1>3, <1>4, <1>7, <1>8 DEF GoodStep, Accounted, BridgeInv, MainTypeOK

\* What leaves mainnet alone.
MainAlone == UNCHANGED <<mainVars, supplyVars, forgotten>>

LEMMA MainStays ==
    ASSUME MainTypeOK, MainAlone
    PROVE  /\ MainTypeOK' /\ (CreditsFinite => CreditsChange(0))
           /\ UNCHANGED <<locked, forgotten, minted, burnt>>
<1>1. UNCHANGED <<mainTokens, locked, credits, notReceived, minted, burnt, forgotten>>
  BY DEF MainAlone, mainVars, supplyVars
<1> QED
  BY <1>1, SameCredits DEF MainTypeOK

LEMMA SendFromSideIsGood ==
    ASSUME BridgeInv, LedgerFinite, NEW u \in Users, NEW to \in Users, NEW amount \in Amounts,
           SendFromSide(u, to, amount)
    PROVE  GoodStep
<1> DEFINE paid == AfterFee(LZ, LZ, amount)
<1>1. amount \in Nat /\ amount \in 0..Highest(Amounts) /\ Highest(Amounts) \in Nat
  BY HighestIsABound
<1>2. paid \in 0..amount /\ BridgeTypeOK' /\ HeldChanges(0 - paid)
  BY <1>1, SendFromSideKeeps DEF BridgeInv, LedgerFinite
<1>3. LzSend(Main, to, paid) /\ MainAlone /\ UNCHANGED switchVars
  BY DEF SendFromSide, MainAlone
<1> HIDE DEF paid
<1>4. paid \in 0..Highest(Amounts) /\ paid \in Nat /\ 0 - paid \in Int
  BY <1>1, <1>2
<1>5. MessagesOK' /\ PendingChanges(paid) /\ DeliveryStep /\ UNCHANGED heldUp
  BY <1>3, <1>4, BothAreChains, SendStep DEF BridgeInv, LedgerFinite
<1>6. MainTypeOK' /\ CreditsChange(0) /\ UNCHANGED <<locked, forgotten, minted, burnt>>
  BY <1>3, MainStays DEF BridgeInv, LedgerFinite
<1>7. SwitchesOK'
  BY <1>3, <1>5 DEF BridgeInv, SwitchesOK, switchVars
<1>8. Ledger(0 - paid, paid, 0)
  BY <1>2, <1>4, <1>5, <1>6 DEF Ledger, BridgeInv, MainTypeOK
<1> QED
  BY <1>2, <1>4, <1>5, <1>6, <1>7, <1>8 DEF GoodStep, Accounted, BridgeInv, MainTypeOK

LEMMA SendCreditFromSideIsGood ==
    ASSUME BridgeInv, LedgerFinite, NEW u \in Users, NEW to \in Users, NEW amount \in Amounts,
           SendCreditFromSide(u, to, amount)
    PROVE  GoodStep
<1>1. amount \in Nat /\ amount \in 0..Highest(Amounts) /\ 0 - amount \in Int
  BY HighestIsABound
<1>2. /\ tokens[LZ][u] >= amount /\ tokens' = [tokens EXCEPT ![LZ][u] = @ - amount]
      /\ LzSend(Main, to, amount) /\ MainAlone /\ UNCHANGED switchVars
      /\ UNCHANGED <<detailVars, usageVars, agTokens, issued, native, contributed, now>>
  BY DEF SendCreditFromSide, MainAlone
<1>3. tokens[LZ][u] \in Nat /\ u \in Wallets
  BY Accounts DEF BridgeInv, BridgeTypeOK
<1>4. /\ tokens[LZ][u] - amount = tokens[LZ][u] + (0 - amount)
      /\ tokens[LZ][u] + (0 - amount) \in Nat
  BY <1>1, <1>2, <1>3
<1>5. tokens' = [tokens EXCEPT ![LZ][u] = @ + (0 - amount)] /\ contributed' \in Int
  BY <1>2, <1>4 DEF BridgeInv, BridgeTypeOK
<1>6. BridgeTypeOK' /\ HeldChanges(0 - amount)
  BY <1>1, <1>2, <1>3, <1>4, <1>5, HeldAloneChanges DEF BridgeInv, LedgerFinite
<1>7. MessagesOK' /\ PendingChanges(amount) /\ DeliveryStep /\ UNCHANGED heldUp
  BY <1>1, <1>2, BothAreChains, SendStep DEF BridgeInv, LedgerFinite
<1>8. MainTypeOK' /\ CreditsChange(0) /\ UNCHANGED <<locked, forgotten, minted, burnt>>
  BY <1>2, MainStays DEF BridgeInv, LedgerFinite
<1>9. SwitchesOK'
  BY <1>2, <1>7 DEF BridgeInv, SwitchesOK, switchVars
<1>10. Ledger(0 - amount, amount, 0)
  BY <1>1, <1>6, <1>7, <1>8 DEF Ledger, BridgeInv, MainTypeOK
<1> QED
  BY <1>1, <1>6, <1>7, <1>8, <1>9, <1>10 DEF GoodStep, Accounted, BridgeInv, MainTypeOK

\* A message executed: what it says leaves the messages and reaches an account, or a
\* credit, or pays for a credit that is forgotten.
LEMMA ExecuteIsGood ==
    ASSUME BridgeInv, LedgerFinite, NEW m \in AllMessages, Execute(m),
           MessagesOK', PendingChanges(0 - m.amount), DeliveryStep, heldUp' \subseteq Chains
    PROVE  GoodStep
<1>1. m.amount \in Nat /\ m.to \in Users /\ 0 - m.amount \in Int
  BY MessageAmounts
<1>2. UNCHANGED <<switchVars, supplyVars>>
  BY DEF Execute
<1>3. SwitchesOK'
  BY <1>2 DEF BridgeInv, SwitchesOK, switchVars
<1>4. CASE CreditOnSide(m.to, m.amount)
  <2>1. BridgeTypeOK' /\ HeldChanges(m.amount)
    BY <1>1, <1>4, CreditOnSideKeeps DEF BridgeInv, LedgerFinite
  <2>2. MainAlone
    BY <1>2, <1>4 DEF CreditOnSide, MainAlone
  <2>3. MainTypeOK' /\ CreditsChange(0) /\ UNCHANGED <<locked, forgotten, minted, burnt>>
    BY <2>2, MainStays DEF BridgeInv, LedgerFinite
  <2>4. Ledger(m.amount, 0 - m.amount, 0)
    BY <1>1, <2>1, <2>3 DEF Ledger, BridgeInv, MainTypeOK
  <2> QED
    BY <1>1, <1>3, <2>1, <2>3, <2>4 DEF GoodStep, Accounted, BridgeInv, MainTypeOK
<1>5. CASE CreditOnMain(m.to, m.amount)
  <2>1. BridgeTypeOK' /\ HeldChanges(0)
    BY <1>5, SameHeld DEF BridgeInv, LedgerFinite, CreditOnMain, PayOnMain
  <2>2. /\ MainTypeOK' /\ UNCHANGED <<minted, burnt>>
        /\ \E credit \in Int :
              /\ CreditsChange(credit)
              /\ credit + (forgotten' - forgotten) - (locked' - locked) = m.amount
              /\ credit <= 0 \/ locked' = 0
    BY <1>1, <1>2, <1>5, CreditOnMainKeeps DEF BridgeInv, LedgerFinite, supplyVars
  <2>3. PICK credit \in Int :
              /\ CreditsChange(credit)
              /\ credit + (forgotten' - forgotten) - (locked' - locked) = m.amount
              /\ credit <= 0 \/ locked' = 0
    BY <2>2
  <2>4. /\ locked \in Nat /\ locked' \in Nat /\ forgotten \in Nat /\ forgotten' \in Nat
        /\ minted \in Nat /\ burnt \in Nat
    BY <2>2 DEF BridgeInv, MainTypeOK
  <2>5. 0 + (0 - m.amount) + credit + (forgotten' - forgotten)
           = (locked' - locked) + (minted' - minted) - (burnt' - burnt)
    BY <1>1, <2>2, <2>3, <2>4
  <2>6. Ledger(0, 0 - m.amount, credit)
    BY <2>1, <2>3, <2>5 DEF Ledger
  <2>7. (credit <= 0 /\ minted <= minted') \/ locked' = 0
    BY <2>2, <2>3, <2>4
  <2>8. Accounted
    BY <1>1, <2>6, <2>7 DEF Accounted
  <2> QED
    BY <1>3, <2>1, <2>2, <2>8 DEF GoodStep, BridgeInv
<1> QED
  BY <1>4, <1>5 DEF Execute

LEMMA DeliverIsGood ==
    ASSUME BridgeInv, LedgerFinite, NEW c \in Chains, Deliver(c)
    PROVE  GoodStep
<1> DEFINE m == Head(channel[c])
<1>1. /\ channel[c] # << >> /\ Execute(m) /\ Arrived(c)
      /\ UNCHANGED <<failed, nonces, dropped>>
  BY DEF Deliver
<1>2. received' = received \union {m} /\ heldUp' = heldUp \ {c}
  BY <1>1 DEF Execute, Arrived
<1> HIDE DEF m
<1>3. MessagesOK' /\ PendingChanges(0 - m.amount) /\ DeliveryStep /\ m \in AllMessages
  BY <1>1, <1>2, ArrivalStep DEF BridgeInv, LedgerFinite, m
<1>4. heldUp' \subseteq Chains
  BY <1>2 DEF BridgeInv, SwitchesOK
<1> QED
  BY <1>1, <1>3, <1>4, ExecuteIsGood

LEMMA RetryMessageIsGood ==
    ASSUME BridgeInv, LedgerFinite, NEW m, RetryMessage(m)
    PROVE  GoodStep
<1>1. /\ MessagesOK' /\ PendingChanges(0 - m.amount) /\ DeliveryStep
      /\ m \in AllMessages /\ UNCHANGED heldUp
  BY RetryStep DEF BridgeInv, LedgerFinite
<1>2. heldUp' \subseteq Chains /\ Execute(m)
  BY <1>1 DEF BridgeInv, SwitchesOK, RetryMessage
<1> QED
  BY <1>1, <1>2, ExecuteIsGood

\* What leaves the tokens and the credits where they are.
LEMMA IdleIsGood ==
    ASSUME BridgeInv, LedgerFinite, MainAlone, BridgeTypeOK', HeldChanges(0),
           MessagesOK', PendingChanges(0), DeliveryStep, SwitchesOK'
    PROVE  GoodStep
<1>1. MainTypeOK' /\ CreditsChange(0) /\ UNCHANGED <<locked, forgotten, minted, burnt>>
  BY MainStays DEF BridgeInv, LedgerFinite
<1>2. Ledger(0, 0, 0)
  BY <1>1 DEF Ledger, BridgeInv, MainTypeOK
<1> QED
  BY <1>1, <1>2 DEF GoodStep, Accounted, BridgeInv, MainTypeOK

LEMMA DeliverFailingIsGood ==
    ASSUME BridgeInv, LedgerFinite, NEW c \in Chains, DeliverFailing(c)
    PROVE  GoodStep
<1>1. MessagesOK' /\ PendingChanges(0) /\ DeliveryStep
  BY FailureStep DEF BridgeInv, LedgerFinite
<1>2. MainAlone /\ UNCHANGED bridgeVars /\ UNCHANGED switchVars /\ heldUp' = heldUp \ {c}
  BY DEF DeliverFailing, MainAlone, Arrived
<1>3. BridgeTypeOK' /\ HeldChanges(0)
  BY <1>2, SameHeld DEF BridgeInv, LedgerFinite
<1>4. SwitchesOK'
  BY <1>2 DEF BridgeInv, SwitchesOK, switchVars
<1> QED
  BY <1>1, <1>2, <1>3, <1>4, IdleIsGood

\* A message refused, and the switches of governance.
LEMMA SwitchingIsGood ==
    ASSUME BridgeInv, LedgerFinite, UNCHANGED bridgeVars, MainAlone,
           UNCHANGED <<channel, failed, nonces, received, dropped>>, SwitchesOK'
    PROVE  GoodStep
<1>1. MessagesOK' /\ PendingChanges(0) /\ DeliveryStep
  BY QuietStep DEF BridgeInv, LedgerFinite
<1>2. BridgeTypeOK' /\ HeldChanges(0)
  BY SameHeld DEF BridgeInv, LedgerFinite
<1> QED
  BY <1>1, <1>2, IdleIsGood

LEMMA SwitchesAreGood ==
    ASSUME BridgeInv, LedgerFinite, NEW c \in Chains,
           Refuse(c) \/ PauseSendTokens(c) \/ SetTrustedRemote(c)
    PROVE  GoodStep
<1>1. UNCHANGED bridgeVars /\ MainAlone /\ UNCHANGED <<channel, failed, nonces, received, dropped>>
  BY Zenon DEF Refuse, PauseSendTokens, SetTrustedRemote, MainAlone, messageVars
<1>2. SwitchesOK'
  BY DEF Refuse, PauseSendTokens, SetTrustedRemote, BridgeInv, SwitchesOK, switchVars, messageVars
<1> QED
  BY <1>1, <1>2, SwitchingIsGood

LEMMA SwapsAreGood ==
    ASSUME BridgeInv, LedgerFinite, [MultiBridgeNext]_bridgeVars, UNCHANGED lzVars
    PROVE  GoodStep
<1>1. /\ MainAlone /\ UNCHANGED <<channel, failed, nonces, received, dropped>>
      /\ UNCHANGED <<heldUp, pausedApps, trusted>>
  BY DEF lzVars, MainAlone, messageVars, switchVars
<1>2. MessagesOK' /\ PendingChanges(0) /\ DeliveryStep
  BY <1>1, QuietStep DEF BridgeInv, LedgerFinite
<1>3. BridgeTypeOK' /\ HeldChanges(0)
  BY StepsKeepTypes, SwapsKeepHeld DEF BridgeInv, LedgerFinite
<1>4. SwitchesOK'
  BY <1>1 DEF BridgeInv, SwitchesOK
<1> QED
  BY <1>1, <1>2, <1>3, <1>4, IdleIsGood

LEMMA WithdrawOnSideIsGood ==
    ASSUME BridgeInv, LedgerFinite, NEW u \in Users, NEW to \in Users, NEW amount \in Amounts,
           WithdrawOnSide(u, to, amount)
    PROVE  GoodStep
<1>1. /\ MainAlone /\ UNCHANGED <<channel, failed, nonces, received, dropped>>
      /\ UNCHANGED <<heldUp, pausedApps, trusted>>
  BY DEF WithdrawOnSide, lzVars, MainAlone, messageVars, switchVars
<1>2. MessagesOK' /\ PendingChanges(0) /\ DeliveryStep
  BY <1>1, QuietStep DEF BridgeInv, LedgerFinite
<1>3. BridgeTypeOK' /\ HeldChanges(0)
  BY HighestIsABound, WithdrawOnSideKeeps DEF BridgeInv, LedgerFinite
<1>4. SwitchesOK'
  BY <1>1 DEF BridgeInv, SwitchesOK
<1> QED
  BY <1>1, <1>2, <1>3, <1>4, IdleIsGood

LEMMA WithdrawOnMainIsGood ==
    ASSUME BridgeInv, LedgerFinite, NEW from \in Users, NEW to \in Users, NEW amount \in Amounts,
           WithdrawOnMain(from, to, amount)
    PROVE  GoodStep
<1>1. amount \in Nat /\ 0 - amount \in Int /\ 0 - amount <= 0
  BY HighestIsABound
<1>2. /\ credits[from] >= amount /\ locked >= amount
      /\ credits' = [credits EXCEPT ![from] = @ - amount]
      /\ notReceived' = [notReceived EXCEPT ![from] = @ - amount]
      /\ locked' = locked - amount /\ mainTokens' = [mainTokens EXCEPT ![to] = @ + amount]
      /\ UNCHANGED <<bridgeVars, messageVars, switchVars, supplyVars, forgotten>>
  BY DEF WithdrawOnMain
<1>3. amount <= credits[from] /\ locked - amount \in Nat
  BY <1>1, <1>2 DEF BridgeInv, MainTypeOK
<1>4. /\ credits' \in [Users -> Nat] /\ notReceived' \in [Users -> Nat]
      /\ \A v \in Users : credits'[v] <= notReceived'[v]
      /\ CreditsChange(0 - amount)
  BY <1>1, <1>2, <1>3, CreditIsUsed DEF BridgeInv, LedgerFinite
<1>5. /\ UNCHANGED <<minted, burnt, forgotten>>
      /\ UNCHANGED <<channel, failed, nonces, received, dropped>>
  BY <1>2 DEF messageVars, supplyVars
<1>6. MainTypeOK'
  BY <1>1, <1>2, <1>3, <1>4, <1>5 DEF BridgeInv, MainTypeOK
<1>7. MessagesOK' /\ PendingChanges(0) /\ DeliveryStep
  BY <1>5, QuietStep DEF BridgeInv, LedgerFinite
<1>8. BridgeTypeOK' /\ HeldChanges(0)
  BY <1>2, SameHeld DEF BridgeInv, LedgerFinite
<1>9. SwitchesOK'
  BY <1>2 DEF BridgeInv, SwitchesOK, switchVars, messageVars
<1>10. Ledger(0, 0, 0 - amount)
  BY <1>1, <1>2, <1>4, <1>5, <1>6, <1>7, <1>8 DEF Ledger, BridgeInv, MainTypeOK
<1> QED
  BY <1>1, <1>5, <1>6, <1>7, <1>8, <1>9, <1>10 DEF GoodStep, Accounted, BridgeInv, MainTypeOK

LEMMA SweepIsGood ==
    ASSUME BridgeInv, LedgerFinite, NEW u \in Users, NEW amount \in Amounts, Sweep(u, amount)
    PROVE  GoodStep
<1>1. amount \in Nat /\ 0 - amount \in Int /\ 0 - amount <= 0
  BY HighestIsABound
<1>2. /\ credits[u] >= amount /\ credits' = [credits EXCEPT ![u] = @ - amount]
      /\ notReceived' = [notReceived EXCEPT ![u] = @ - amount]
      /\ forgotten' = forgotten + amount
      /\ UNCHANGED <<bridgeVars, mainTokens, locked, messageVars, switchVars, supplyVars>>
  BY DEF Sweep
<1>3. amount <= credits[u] /\ forgotten + amount \in Nat
  BY <1>1, <1>2 DEF BridgeInv, MainTypeOK
<1>4. /\ credits' \in [Users -> Nat] /\ notReceived' \in [Users -> Nat]
      /\ \A v \in Users : credits'[v] <= notReceived'[v]
      /\ CreditsChange(0 - amount)
  BY <1>1, <1>2, <1>3, CreditIsUsed DEF BridgeInv, LedgerFinite
<1>5. /\ UNCHANGED <<minted, burnt, locked>>
      /\ UNCHANGED <<channel, failed, nonces, received, dropped>>
  BY <1>2 DEF messageVars, supplyVars
<1>6. MainTypeOK'
  BY <1>1, <1>2, <1>3, <1>4, <1>5 DEF BridgeInv, MainTypeOK
<1>7. MessagesOK' /\ PendingChanges(0) /\ DeliveryStep
  BY <1>5, QuietStep DEF BridgeInv, LedgerFinite
<1>8. BridgeTypeOK' /\ HeldChanges(0)
  BY <1>2, SameHeld DEF BridgeInv, LedgerFinite
<1>9. SwitchesOK'
  BY <1>2 DEF BridgeInv, SwitchesOK, switchVars, messageVars
<1>10. Ledger(0, 0, 0 - amount)
  BY <1>1, <1>2, <1>4, <1>5, <1>6, <1>7, <1>8 DEF Ledger, BridgeInv, MainTypeOK
<1> QED
  BY <1>1, <1>5, <1>6, <1>7, <1>8, <1>9, <1>10 DEF GoodStep, Accounted, BridgeInv, MainTypeOK

LEMMA ForceResumeReceiveIsGood ==
    ASSUME BridgeInv, LedgerFinite, NEW c \in Chains, ForceResumeReceive(c)
    PROVE  GoodStep
<1> DEFINE m == Head(channel[c])
<1>1. /\ channel[c] # << >> /\ Arrived(c)
      /\ dropped' = dropped \union {m} /\ forgotten' = forgotten + m.amount
      /\ UNCHANGED <<bridgeVars, mainVars, failed, nonces, received, switchVars, supplyVars>>
  BY DEF ForceResumeReceive
<1> HIDE DEF m
<1>2. MessagesOK' /\ PendingChanges(0 - m.amount) /\ DeliveryStep /\ m \in AllMessages
  BY <1>1, ArrivalStep DEF BridgeInv, LedgerFinite, m
<1>3. m.amount \in Nat /\ 0 - m.amount \in Int
  BY <1>2, MessageAmounts
<1>4. BridgeTypeOK' /\ HeldChanges(0)
  BY <1>1, SameHeld DEF BridgeInv, LedgerFinite
<1>5. UNCHANGED <<mainTokens, locked, credits, notReceived, minted, burnt>>
  BY <1>1 DEF mainVars, supplyVars
<1>6. MainTypeOK' /\ forgotten' - forgotten = m.amount
  <2>1. ASSUME NEW n \in Nat, forgotten' = forgotten + n
        PROVE  forgotten' \in Nat /\ forgotten' - forgotten = n
    BY <2>1 DEF BridgeInv, MainTypeOK
  <2>2. forgotten' \in Nat /\ forgotten' - forgotten = m.amount
    BY <1>1, <1>3, <2>1
  <2> QED
    BY <1>5, <2>2 DEF BridgeInv, MainTypeOK
<1>7. CreditsChange(0)
  BY <1>5, SameCredits DEF BridgeInv, LedgerFinite
<1>8. SwitchesOK'
  BY <1>1 DEF BridgeInv, SwitchesOK, switchVars, Arrived
<1>9. 0 + (0 - m.amount) + 0 + (forgotten' - forgotten)
         = (locked' - locked) + (minted' - minted) - (burnt' - burnt)
  BY <1>3, <1>5, <1>6 DEF BridgeInv, MainTypeOK
<1>10. Ledger(0, 0 - m.amount, 0)
  BY <1>2, <1>4, <1>7, <1>9 DEF Ledger
<1> QED
  BY <1>2, <1>3, <1>4, <1>5, <1>6, <1>8, <1>10 DEF GoodStep, Accounted, BridgeInv, MainTypeOK

LEMMA CapacityIsGood ==
    ASSUME BridgeInv, LedgerFinite, NEW amount \in Amounts,
           MintCapacity(amount) \/ BurnCapacity(amount)
    PROVE  GoodStep
<1>1. amount \in Nat /\ 0 - amount \in Int
  BY HighestIsABound
<1>2. tokens[LZ][This] \in Nat /\ contributed \in Int
  BY Accounts DEF BridgeInv, BridgeTypeOK
<1>3. PICK change \in Int :
         /\ tokens[LZ][This] + change \in Nat
         /\ tokens' = [tokens EXCEPT ![LZ][This] = @ + change]
         /\ contributed' = contributed + change
         /\ \/ change = amount /\ minted' = minted + amount /\ burnt' = burnt
            \/ change = 0 - amount /\ burnt' = burnt + amount /\ minted' = minted
  <2>1. CASE MintCapacity(amount)
    <3>1. amount \in Int /\ tokens[LZ][This] + amount \in Nat
      BY <1>1, <1>2
    <3> QED
      BY <2>1, <3>1 DEF MintCapacity
  <2>2. CASE BurnCapacity(amount)
    <3>1. /\ tokens[LZ][This] - amount = tokens[LZ][This] + (0 - amount)
          /\ tokens[LZ][This] + (0 - amount) \in Nat
          /\ contributed - amount = contributed + (0 - amount)
      BY <1>1, <1>2, <2>2 DEF BurnCapacity
    <3> QED
      BY <1>1, <2>2, <3>1 DEF BurnCapacity
  <2> QED
    BY <2>1, <2>2
<1>4. /\ UNCHANGED <<detailVars, usageVars, agTokens, issued, native, now>>
      /\ UNCHANGED <<mainVars, messageVars, switchVars, forgotten>>
  BY Zenon DEF MintCapacity, BurnCapacity
<1>5. BridgeTypeOK' /\ HeldChanges(change)
  <2>1. contributed' \in Int /\ This \in Wallets
    BY <1>2, <1>3, Accounts
  <2>2. UNCHANGED <<detailVars, usageVars, agTokens, issued, native, now>>
    BY <1>4
  <2> QED
    BY <1>3, <2>1, <2>2, HeldAloneChanges DEF BridgeInv, LedgerFinite
<1>6. /\ UNCHANGED <<mainTokens, locked, credits, notReceived, forgotten>>
      /\ UNCHANGED <<channel, failed, nonces, received, dropped>>
  BY <1>4 DEF mainVars, messageVars
<1>7. MainTypeOK' /\ CreditsChange(0)
  <2>1. MainTypeOK'
    BY <1>1, <1>3, <1>6 DEF BridgeInv, MainTypeOK
  <2> QED
    BY <1>6, <2>1, SameCredits DEF BridgeInv, LedgerFinite
<1>8. MessagesOK' /\ PendingChanges(0) /\ DeliveryStep
  BY <1>6, QuietStep DEF BridgeInv, LedgerFinite
<1>9. SwitchesOK'
  BY <1>4 DEF BridgeInv, SwitchesOK, switchVars, messageVars
<1>10. Ledger(change, 0, 0)
  <2>1. change + 0 + 0 + (forgotten' - forgotten)
           = (locked' - locked) + (minted' - minted) - (burnt' - burnt)
    BY <1>1, <1>3, <1>6 DEF BridgeInv, MainTypeOK
  <2> QED
    BY <1>5, <1>7, <1>8, <2>1 DEF Ledger
<1>11. minted <= minted'
  BY <1>1, <1>3 DEF BridgeInv, MainTypeOK
<1> QED
  BY <1>3, <1>5, <1>7, <1>8, <1>9, <1>10, <1>11 DEF GoodStep, Accounted, BridgeInv

LEMMA StepsAreGood ==
    ASSUME BridgeInv, LedgerFinite, [Next]_vars
    PROVE  GoodStep
<1>1. CASE UserAction
  BY <1>1, SendFromMainIsGood, SendCreditFromMainIsGood, SendFromSideIsGood,
     SendCreditFromSideIsGood, WithdrawOnMainIsGood, WithdrawOnSideIsGood DEF UserAction
<1>2. CASE EndpointAction
  BY <1>2, DeliverIsGood, DeliverFailingIsGood, SwitchesAreGood DEF EndpointAction
<1>3. CASE \E m \in failed : RetryMessage(m)
  BY <1>3, RetryMessageIsGood
<1>4. CASE GovernanceAction
  BY <1>4, SwitchesAreGood, ForceResumeReceiveIsGood, SweepIsGood, CapacityIsGood
  DEF GovernanceAction
<1>5. CASE MultiBridgeNext /\ UNCHANGED lzVars
  BY <1>5, SwapsAreGood
<1>6. CASE UNCHANGED vars
  BY <1>6, SwapsAreGood DEF vars
<1> QED
  BY <1>1, <1>2, <1>3, <1>4, <1>5, <1>6 DEF Next

\* The inductive invariant of the ledger.
LedgerInv == BridgeInv /\ LedgerFinite /\ BridgedIsBacked /\ CreditsComeFromMints

LEMMA InitIsGood ==
    ASSUME Init
    PROVE  LedgerInv /\ Abstract!DeliveryInit
<1>1. BridgeTypeOK
  BY InitTypes DEF Init
<1>2. MainTypeOK /\ SwitchesOK
  BY LayerZeroAssumption DEF Init, MainTypeOK, SwitchesOK
<1>3. Pending = {}
  BY DEF Init, Pending, InFlight, Chains
<1>4. MessagesOK
  <2>1. \A c \in Chains : channel[c] = << >> /\ InFlight(c) = {}
    BY DEF Init, InFlight
  <2>2. << >> \in Seq(AllMessages) /\ Distinct(<< >>)
    BY DEF Distinct
  <2> QED
    BY <1>3, <2>1, <2>2 DEF Init, MessagesOK
<1>5. IsFiniteSet(UnitsOf(tokens[LZ])) /\ TotalOf(tokens[LZ]) = 0
  <2>1. tokens[LZ] \in [Wallets -> Nat] /\ \A a \in Wallets : tokens[LZ][a] = 0
    BY Accounts DEF Init, MultiBridgeInit, Wallets
  <2> QED
    BY <2>1, TotalOfZero
<1>6. IsFiniteSet(UnitsOf(credits)) /\ TotalOf(credits) = 0
  <2>1. credits \in [Users -> Nat] /\ \A u \in Users : credits[u] = 0
    BY DEF Init
  <2> QED
    BY <2>1, TotalOfZero
<1>7. IsFiniteSet(UnitsOf(AmountsOf(Pending))) /\ AmountPending = 0
  <2>1. AmountsOf(Pending) \in [{} -> Nat] /\ \A m \in {} : AmountsOf(Pending)[m] = 0
    BY <1>3 DEF AmountsOf
  <2>2. IsFiniteSet(UnitsOf(AmountsOf(Pending))) /\ TotalOf(AmountsOf(Pending)) = 0
    BY <2>1, TotalOfZero
  <2> QED
    BY <2>2, AmountPendingIs
<1>8. LedgerFinite
  BY <1>5, <1>6, <1>7 DEF LedgerFinite, HeldFinite, CreditsFinite, PendingFinite
<1>9. locked = 0 /\ minted = 0 /\ burnt = 0 /\ forgotten = 0
  BY DEF Init
<1>10. BridgedIsBacked /\ CreditsComeFromMints
  BY <1>5, <1>6, <1>7, <1>9 DEF BridgedIsBacked, CreditsComeFromMints
<1>11. Abstract!DeliveryInit
  BY <1>3 DEF Init, Abstract!DeliveryInit
<1> QED
  BY <1>1, <1>2, <1>4, <1>8, <1>10, <1>11 DEF LedgerInv, BridgeInv

LEMMA StepsKeepLedger ==
    ASSUME LedgerInv, [Next]_vars
    PROVE  LedgerInv'
<1>1. GoodStep
  BY StepsAreGood DEF LedgerInv
<1>2. PICK held \in Int, pending \in Int, credit \in Int :
         /\ Ledger(held, pending, credit)
         /\ (credit <= 0 /\ minted <= minted') \/ locked' = 0
  BY <1>1 DEF GoodStep, Accounted
<1>3. BridgedIsBacked' /\ LedgerFinite'
  BY <1>1, <1>2, LedgerKeeps DEF LedgerInv, BridgeInv, GoodStep
<1>4. /\ TotalOf(credits) \in Nat /\ TotalOf(credits') \in Nat
      /\ TotalOf(credits') = TotalOf(credits) + credit
      /\ TotalOf(tokens'[LZ]) \in Nat /\ AmountPending' \in Nat
  BY <1>2 DEF Ledger, CreditsChange, HeldChanges, PendingChanges, Changed
<1>5. /\ minted \in Nat /\ minted' \in Nat /\ burnt' \in Nat /\ forgotten' \in Nat
      /\ locked' \in Nat
  BY <1>1 DEF GoodStep, LedgerInv, BridgeInv, MainTypeOK
<1>6. TotalOf(credits) <= minted
  BY DEF LedgerInv, CreditsComeFromMints
<1>7. TotalOf(credits') <= minted'
  <2>1. CASE credit <= 0 /\ minted <= minted'
    BY <1>4, <1>5, <1>6, <2>1
  <2>2. CASE locked' = 0
    <3>1. TotalOf(tokens'[LZ]) + AmountPending' + TotalOf(credits') + forgotten'
             = locked' + minted' - burnt'
      BY <1>3 DEF BridgedIsBacked
    <3> QED
      BY <1>4, <1>5, <2>2, <3>1
  <2> QED
    BY <1>2, <2>1, <2>2
<1>8. CreditsComeFromMints'
  BY <1>7 DEF CreditsComeFromMints
<1> QED
  BY <1>1, <1>3, <1>8 DEF LedgerInv, GoodStep

-----------------------------------------------------------------------------
\* The theorems

\* Delivery implements what a bridge promises: a message is sent once, with a nonce of
\* its own, and stays pending until it is executed once or given up, when messages are
\* refused and held up, fail and are stored (lzReceive) and are retried (retryMessage)
\* in any order.
THEOREM BridgeDelivers == Spec => ImplementsDelivery
<1>1. Init => LedgerInv /\ Abstract!DeliveryInit
  BY InitIsGood
<1>2. LedgerInv /\ [Next]_vars => LedgerInv'
  BY StepsKeepLedger
<1>3. LedgerInv /\ [Next]_vars => [Abstract!DeliveryNext]_(Abstract!deliveryVars)
  BY StepsAreGood DEF LedgerInv, GoodStep, DeliveryStep, Abstract!deliveryVars
<1> QED
  BY <1>1, <1>2, <1>3, PTL DEF Spec, ImplementsDelivery, Abstract!DeliverySpec

\* The two chains add up: the bridge tokens of the side chain, the messages on their way
\* and the credits are worth what LayerZeroBridge holds and governance minted, less what
\* it burnt and what was given up.
THEOREM BridgedIsAlwaysBacked == Spec => []BridgedIsBacked
<1>1. Init => LedgerInv
  BY InitIsGood
<1>2. LedgerInv /\ [Next]_vars => LedgerInv'
  BY StepsKeepLedger
<1>3. LedgerInv => BridgedIsBacked
  BY DEF LedgerInv
<1> QED
  BY <1>1, <1>2, <1>3, PTL DEF Spec

\* _creditTo on mainnet can only lack the tokens that governance minted on the side
\* chain: credits never exceed them.
THEOREM CreditsAlwaysComeFromMints == Spec => []CreditsComeFromMints
<1>1. Init => LedgerInv
  BY InitIsGood
<1>2. LedgerInv /\ [Next]_vars => LedgerInv'
  BY StepsKeepLedger
<1>3. LedgerInv => CreditsComeFromMints
  BY DEF LedgerInv
<1> QED
  BY <1>1, <1>2, <1>3, PTL DEF Spec

\* Types of the bridge: no balance, credit or lock wraps around on either chain.
THEOREM BridgeTypesOnBothChains == Spec => []TypeOK
<1>1. Init => LedgerInv
  BY InitIsGood
<1>2. LedgerInv /\ [Next]_vars => LedgerInv'
  BY StepsKeepLedger
<1>3. LedgerInv => TypeOK
  <2>1. AllMessages \subseteq MessageSet
    <3>1. 0..Highest(Amounts) \subseteq Nat /\ 1..MaxMessages \subseteq Nat
      OBVIOUS
    <3> QED
      BY <3>1 DEF AllMessages, MessageSet
  <2>2. ASSUME NEW q \in Seq(AllMessages) PROVE q \in Seq(MessageSet)
    BY <2>1
  <2>3. ASSUME MessagesOK
        PROVE  /\ channel \in [Chains -> Seq(MessageSet)] /\ nonces \in [Chains -> Nat]
               /\ failed \subseteq MessageSet /\ received \subseteq MessageSet
               /\ dropped \subseteq MessageSet
    BY <2>1, <2>2, <2>3 DEF MessagesOK
  <2> QED
    BY <2>3 DEF LedgerInv, BridgeInv, MainTypeOK, SwitchesOK, TypeOK
<1> QED
  BY <1>1, <1>2, <1>3, PTL DEF Spec

-----------------------------------------------------------------------------
\* The swaps under the bridge

\* LayerZeroBridgeToken swaps in what it holds for somebody, after a message or a
\* withdrawal: what it holds comes from elsewhere than the stablecoin contract.
BridgeSwapsIn ==
    \E balances \in [Wallets -> Nat], amount \in Nat, to \in Users, rest \in Users :
       /\ amount <= balances[LZ] /\ balances[This] = tokens[LZ][This]
       /\ SwapInFor(balances, amount, to, rest)

\* A user sends a credit, or governance changes what the stablecoin contract holds.
TokenAlone ==
    /\ \E change \in Int :
          /\ tokens'[LZ][This] = tokens[LZ][This] + change
          /\ contributed' = contributed + change
    /\ \A t \in BridgeTokens \ {LZ} : tokens'[t] = tokens[t]
    /\ UNCHANGED <<issued, detailVars, usageVars>>

\* What a step on either chain is for the swaps.
SwapStep ==
    \/ [MultiBridgeNext]_bridgeVars
    \/ BridgeSwapsIn
    \/ \E u \in Users, to \in Users, amount \in Amounts : SendFromSide(u, to, amount)
    \/ TokenAlone

LEMMA ExecuteIsSwapStep ==
    ASSUME BridgeTypeOK, NEW m \in AllMessages, Execute(m)
    PROVE  SwapStep
<1>1. m.amount \in Nat /\ m.to \in Users
  BY MessageAmounts
<1>2. CASE CreditOnSide(m.to, m.amount)
  <2> DEFINE more == [tokens[LZ] EXCEPT ![LZ] = @ + m.amount]
  <2>1. tokens[LZ] \in [Wallets -> Nat]
    BY Accounts DEF BridgeTypeOK, Wallets
  <2>2. /\ more \in [Wallets -> Nat] /\ m.amount <= more[LZ]
        /\ more[This] = tokens[LZ][This]
    BY <1>1, <2>1, Accounts
  <2>3. SwapInFor(more, m.amount, m.to, m.to)
    BY <1>2 DEF CreditOnSide
  <2> HIDE DEF more
  <2> QED
    BY <1>1, <2>2, <2>3, Zenon DEF SwapStep, BridgeSwapsIn
<1>3. CASE CreditOnMain(m.to, m.amount)
  BY <1>3, Zenon DEF CreditOnMain, PayOnMain, SwapStep
<1> QED
  BY <1>2, <1>3 DEF Execute

LEMMA WithdrawOnSideIsSwapStep ==
    ASSUME BridgeTypeOK, NEW from \in Users, NEW to \in Users, NEW amount \in Amounts,
           WithdrawOnSide(from, to, amount)
    PROVE  SwapStep
<1> DEFINE moved == Moved(tokens[LZ], from, LZ, amount)
<1>1. amount \in Nat
  BY HighestIsABound
<1>2. tokens[LZ] \in [Wallets -> Nat]
  BY Accounts DEF BridgeTypeOK, Wallets
<1>3. amount <= tokens[LZ][from]
  BY <1>1, <1>2, Accounts DEF WithdrawOnSide
<1>4. /\ moved \in [Wallets -> Nat] /\ moved[LZ] = tokens[LZ][LZ] + amount
      /\ moved[This] = tokens[LZ][This]
  <2>1. /\ from \in Wallets /\ LZ \in Wallets /\ This \in Wallets \ {from, LZ}
        /\ from # LZ
    BY Accounts
  <2>2. /\ moved \in [Wallets -> Nat]
        /\ from # LZ => moved[LZ] = tokens[LZ][LZ] + amount
        /\ \A a \in Wallets \ {from, LZ} : moved[a] = tokens[LZ][a]
    BY <1>1, <1>2, <1>3, <2>1, TransferChangesNothing
  <2> QED
    BY <2>1, <2>2
<1>5. SwapInFor(moved, amount, to, from)
  BY DEF WithdrawOnSide
<1> HIDE DEF moved
<1>6. amount <= moved[LZ]
  BY <1>1, <1>2, <1>4, Accounts
<1> QED
  BY <1>1, <1>4, <1>5, <1>6, Zenon DEF SwapStep, BridgeSwapsIn

LEMMA TokenAloneSteps ==
    ASSUME BridgeTypeOK, NEW amount \in Amounts,
           \/ \E u \in Users, to \in Users : SendCreditFromSide(u, to, amount)
           \/ MintCapacity(amount) \/ BurnCapacity(amount)
    PROVE  SwapStep
<1>1. amount \in Nat /\ 0 \in Int /\ 0 - amount \in Int
  BY HighestIsABound
<1>2. /\ tokens[LZ] \in [Wallets -> Nat] /\ tokens[LZ][This] \in Nat
      /\ contributed \in Int /\ tokens \in [BridgeTokens -> [Wallets -> Nat]]
  BY Accounts DEF BridgeTypeOK, Wallets
<1>3. CASE \E u \in Users, to \in Users : SendCreditFromSide(u, to, amount)
  <2>1. PICK u \in Users : tokens' = [tokens EXCEPT ![LZ][u] = @ - amount]
                           /\ UNCHANGED <<contributed, issued, detailVars, usageVars>>
    BY <1>3 DEF SendCreditFromSide
  <2>2. /\ tokens'[LZ][This] = tokens[LZ][This] + 0 /\ contributed' = contributed + 0
        /\ \A t \in BridgeTokens \ {LZ} : tokens'[t] = tokens[t]
    BY <1>2, <2>1, Accounts
  <2> QED
    BY <1>1, <2>1, <2>2 DEF SwapStep, TokenAlone
<1>4. CASE MintCapacity(amount)
  <2>1. /\ tokens'[LZ][This] = tokens[LZ][This] + amount
        /\ contributed' = contributed + amount
        /\ \A t \in BridgeTokens \ {LZ} : tokens'[t] = tokens[t]
        /\ UNCHANGED <<issued, detailVars, usageVars>>
    BY <1>2, <1>4, Accounts DEF MintCapacity
  <2> QED
    BY <1>1, <2>1 DEF SwapStep, TokenAlone
<1>5. CASE BurnCapacity(amount)
  <2>1. /\ tokens'[LZ][This] = tokens[LZ][This] - amount
        /\ contributed' = contributed - amount
        /\ \A t \in BridgeTokens \ {LZ} : tokens'[t] = tokens[t]
        /\ UNCHANGED <<issued, detailVars, usageVars>>
    BY <1>2, <1>5, Accounts DEF BurnCapacity
  <2>2. /\ tokens'[LZ][This] = tokens[LZ][This] + (0 - amount)
        /\ contributed' = contributed + (0 - amount)
    BY <1>1, <1>2, <2>1
  <2> QED
    BY <1>1, <2>1, <2>2 DEF SwapStep, TokenAlone
<1> QED
  BY <1>3, <1>4, <1>5

LEMMA StepsAreSwapSteps ==
    ASSUME LedgerInv, [Next]_vars
    PROVE  SwapStep
<1> USE DEF SwapStep
<1>1. BridgeTypeOK /\ MessagesOK /\ PendingFinite
  BY DEF LedgerInv, BridgeInv, LedgerFinite
<1>2. ASSUME NEW m \in AllMessages, Execute(m) PROVE SwapStep
  BY <1>1, <1>2, ExecuteIsSwapStep
<1>3. CASE UserAction
  <2>1. PICK u \in Users, to \in Users, amount \in Amounts :
           \/ SendFromMain(u, to, amount)
           \/ SendCreditFromMain(u, to, amount)
           \/ SendFromSide(u, to, amount)
           \/ SendCreditFromSide(u, to, amount)
           \/ WithdrawOnMain(u, to, amount)
           \/ WithdrawOnSide(u, to, amount)
    BY <1>3, Zenon DEF UserAction
  <2>2. CASE SendFromMain(u, to, amount) \/ SendCreditFromMain(u, to, amount)
             \/ WithdrawOnMain(u, to, amount)
    BY <2>2, Zenon DEF SendFromMain, SendCreditFromMain, WithdrawOnMain
  <2>3. CASE SendCreditFromSide(u, to, amount)
    BY <1>1, <2>3, TokenAloneSteps
  <2>4. CASE WithdrawOnSide(u, to, amount)
    BY <1>1, <2>4, WithdrawOnSideIsSwapStep
  <2> QED
    BY <2>1, <2>2, <2>3, <2>4, Zenon
<1>4. CASE EndpointAction
  <2>1. PICK c \in Chains : Deliver(c) \/ DeliverFailing(c) \/ Refuse(c)
    BY <1>4 DEF EndpointAction
  <2>2. CASE Deliver(c)
    <3>1. channel[c] \in Seq(AllMessages) /\ channel[c] # << >>
          /\ Execute(Head(channel[c]))
      BY <1>1, <2>2 DEF Deliver, MessagesOK
    <3>2. Head(channel[c]) \in AllMessages
      BY <3>1
    <3> QED
      BY <1>2, <3>1, <3>2
  <2>3. CASE DeliverFailing(c) \/ Refuse(c)
    BY <2>3, Zenon DEF DeliverFailing, Refuse
  <2> QED
    BY <2>1, <2>2, <2>3
<1>5. ASSUME NEW m \in failed, RetryMessage(m) PROVE SwapStep
  BY <1>1, <1>2, <1>5 DEF RetryMessage, MessagesOK
<1>6. CASE GovernanceAction
  <2>1. CASE \E amount \in Amounts : MintCapacity(amount) \/ BurnCapacity(amount)
    BY <1>1, <2>1, TokenAloneSteps
  <2>2. CASE ~ \E amount \in Amounts : MintCapacity(amount) \/ BurnCapacity(amount)
    BY <1>6, <2>2, Zenon DEF GovernanceAction, PauseSendTokens, SetTrustedRemote,
       ForceResumeReceive, Sweep
  <2> QED
    BY <2>1, <2>2
<1>7. CASE (MultiBridgeNext /\ UNCHANGED lzVars) \/ UNCHANGED vars
  BY <1>7, Zenon DEF vars
<1> QED
  BY <1>3, <1>4, <1>5, <1>6, <1>7 DEF Next

\* What the stablecoin contract holds and mints when LayerZeroBridgeToken swaps in.
LEMMA BridgeSwapsInWithinLimits ==
    ASSUME BridgeTypeOK, BridgeSwapsIn
    PROVE  \E amount \in Nat :
              LET taken == WithinLimits(LZ, amount)
                  out == AfterFee(LZ, LZ, taken)
              IN  /\ taken \in Nat /\ out \in 0..taken
                  /\ tokens'[LZ][This] = tokens[LZ][This] + taken
                  /\ \A t \in BridgeTokens \ {LZ} : tokens'[t] = tokens[t]
                  /\ issued' = issued + out /\ RecordIn(LZ, taken)
                  /\ UNCHANGED <<detailVars, contributed>>
<1>1. PICK balances \in [Wallets -> Nat], amount \in Nat, to \in Users, rest \in Users :
         /\ amount <= balances[LZ] /\ balances[This] = tokens[LZ][This]
         /\ SwapInFor(balances, amount, to, rest)
  BY Zenon DEF BridgeSwapsIn
<1> DEFINE taken == WithinLimits(LZ, amount)
           out == AfterFee(LZ, LZ, taken)
           swapped == Moved(balances, LZ, This, taken)
           left == Moved(swapped, LZ, rest, swapped[LZ])
<1>2. taken \in 0..amount
  BY Accounts, LimitsCut
<1>3. /\ tokens' = [tokens EXCEPT ![LZ] = left]
      /\ issued' = issued + out /\ RecordIn(LZ, taken)
      /\ UNCHANGED <<detailVars, contributed>>
  BY <1>1 DEF SwapInFor
<1> HIDE DEF taken
<1>4. taken \in Nat /\ taken <= balances[LZ]
  BY <1>1, <1>2, Accounts
<1>5. out \in 0..taken
  BY <1>4, Accounts, FeesAreTaken
<1>6. swapped \in [Wallets -> Nat] /\ swapped[This] = balances[This] + taken
  BY <1>4, Accounts, TransferChangesNothing
<1> HIDE DEF swapped, out
<1>7. swapped[LZ] \in Nat /\ swapped[LZ] <= swapped[LZ]
  BY <1>6, Accounts
<1>8. left \in [Wallets -> Nat] /\ left[This] = swapped[This]
  BY <1>6, <1>7, Accounts, TransferChangesNothing
<1> HIDE DEF left
<1>9. tokens'[LZ] = left /\ \A t \in BridgeTokens \ {LZ} : tokens'[t] = tokens[t]
  BY <1>3, <1>8, Accounts DEF BridgeTypeOK
<1>10. /\ taken \in Nat /\ out \in 0..taken
       /\ tokens'[LZ][This] = tokens[LZ][This] + taken
       /\ \A t \in BridgeTokens \ {LZ} : tokens'[t] = tokens[t]
       /\ issued' = issued + out /\ RecordIn(LZ, taken)
       /\ UNCHANGED <<detailVars, contributed>>
  BY <1>1, <1>3, <1>4, <1>5, <1>6, <1>8, <1>9
<1> QED
  BY <1>10, Zenon DEF taken, out

LEMMA BridgeKeepsBacking ==
    ASSUME BridgeTypeOK, BridgeTypeOK', ReserveBacks, SwapStep
    PROVE  ReserveBacks'
<1>1. issued \in Int /\ contributed \in Int /\ tokens[LZ][This] \in Nat
  BY Accounts DEF BridgeTypeOK
<1>2. CASE BridgeSwapsIn
  <2>1. PICK taken \in Nat : \E out \in 0..taken :
           /\ tokens'[LZ][This] = tokens[LZ][This] + taken
           /\ \A t \in BridgeTokens \ {LZ} : tokens'[t] = tokens[t]
           /\ issued' = issued + out /\ contributed' = contributed
    BY <1>2, BridgeSwapsInWithinLimits, Zenon
  <2>2. taken \in Int /\ issued' + contributed' <= issued + contributed + taken
    BY <1>1, <2>1
  <2> QED
    BY <2>1, <2>2, Accounts, BackedStep
<1>3. ASSUME NEW u \in Users, NEW to \in Users, NEW amount \in Amounts,
             SendFromSide(u, to, amount)
      PROVE  ReserveBacks'
  <2> DEFINE paid == AfterFee(LZ, LZ, amount)
  <2>1. amount \in Nat
    BY HighestIsABound
  <2>2. paid \in 0..amount
    BY <2>1, Accounts, FeesAreTaken
  <2>3. /\ tokens' = [tokens EXCEPT ![LZ][This] = @ - paid]
        /\ issued' = issued - amount /\ contributed' = contributed
    BY <1>3 DEF SendFromSide
  <2> HIDE DEF paid
  <2>4. /\ tokens'[LZ][This] = tokens[LZ][This] - paid
        /\ \A t \in BridgeTokens \ {LZ} : tokens'[t] = tokens[t]
    BY <2>3, Accounts DEF BridgeTypeOK, Wallets
  <2>5. /\ 0 - paid \in Int /\ tokens'[LZ][This] = tokens[LZ][This] + (0 - paid)
        /\ issued' + contributed' <= issued + contributed + (0 - paid)
    BY <1>1, <2>1, <2>2, <2>3, <2>4
  <2> QED
    BY <2>4, <2>5, Accounts, BackedStep
<1>4. CASE TokenAlone
  <2>1. PICK change \in Int : /\ tokens'[LZ][This] = tokens[LZ][This] + change
                              /\ contributed' = contributed + change
    BY <1>4 DEF TokenAlone
  <2>2. /\ issued' = issued /\ \A t \in BridgeTokens \ {LZ} : tokens'[t] = tokens[t]
        /\ issued' + contributed' <= issued + contributed + change
    BY <1>1, <1>4, <2>1 DEF TokenAlone
  <2> QED
    BY <2>1, <2>2, Accounts, BackedStep
<1> QED
  BY <1>2, <1>3, <1>4, StepsAreBacked DEF SwapStep

LEMMA BridgeKeepsUsage ==
    ASSUME BridgeTypeOK, UsageIsVolume, SwapStep
    PROVE  UsageIsVolume'
<1>1. CASE BridgeSwapsIn
  <2>1. PICK amount \in Nat : /\ WithinLimits(LZ, amount) \in Nat
                              /\ RecordIn(LZ, WithinLimits(LZ, amount))
                              /\ UNCHANGED detailVars
    BY <1>1, BridgeSwapsInWithinLimits, Zenon
  <2>2. usage[LZ][Hour] + WithinLimits(LZ, amount) <= Highest(HourlyLimits)
    BY Accounts, UsageStaysWithinLimits
  <2>3. UNCHANGED <<bridges, chainTotalHourlyLimit>>
    BY <2>1 DEF detailVars
  <2> QED
    BY <2>1, <2>2, <2>3, Accounts, RecordInKeepsUsage
<1>2. ASSUME NEW u \in Users, NEW to \in Users, NEW amount \in Amounts,
             SendFromSide(u, to, amount)
      PROVE  UsageIsVolume'
  <2>1. /\ amount \in Nat /\ RecordOut(amount)
        /\ UNCHANGED <<bridges, chainTotalHourlyLimit>>
    BY <1>2, HighestIsABound DEF SendFromSide, detailVars
  <2> QED
    BY <2>1, RecordOutKeepsUsage
<1>3. CASE TokenAlone
  <2>1. UNCHANGED <<usageVars, bridges, chainTotalHourlyLimit>>
    BY <1>3 DEF TokenAlone, detailVars
  <2> QED
    BY <2>1, QuietKeepsUsage
<1> QED
  BY <1>1, <1>2, <1>3, StepsKeepUsage DEF SwapStep

LEMMA BridgeKeepsTheList ==
    ASSUME BridgeTypeOK, ListedAreSupported, SwapStep
    PROVE  ListedAreSupported'
<1>1. CASE UNCHANGED detailVars
  BY <1>1 DEF detailVars, ListedAreSupported
<1>2. CASE BridgeSwapsIn
  BY <1>1, <1>2, BridgeSwapsInWithinLimits, Zenon
<1>3. ASSUME NEW u \in Users, NEW to \in Users, NEW amount \in Amounts,
             SendFromSide(u, to, amount)
      PROVE  UNCHANGED detailVars
  BY <1>3 DEF SendFromSide
<1>4. CASE TokenAlone
  BY <1>1, <1>4 DEF TokenAlone
<1> QED
  BY <1>1, <1>2, <1>3, <1>4, StepsKeepTheList DEF SwapStep

\* The stablecoin of the side chain keeps its promises under the bridge: what its swaps
\* issue is backed when LayerZeroBridgeToken is one of its tokens too, swaps in what
\* messages bring as far as the limits let it, burns what it swaps out, and governance
\* mints and burns the tokens that the contract holds of it.
THEOREM BridgedSwapsAreBacked == Spec => []SwapsAreBacked
<1>1. Init => LedgerInv /\ ReserveBacks
  BY InitIsGood, InitIsBacked DEF Init
<1>2. LedgerInv /\ ReserveBacks /\ [Next]_vars => (LedgerInv /\ ReserveBacks)'
  BY StepsKeepLedger, StepsAreSwapSteps, BridgeKeepsBacking DEF LedgerInv, BridgeInv
<1>3. ReserveBacks => SwapsAreBacked
  BY DEF ReserveBacks
<1> QED
  BY <1>1, <1>2, <1>3, PTL DEF Spec

\* Messages executed late or in numbers, retries and withdrawals count in the limits
\* like any swap: over a rolling hour the volumes are twice the limits at most.
THEOREM BridgedVolumesAreBounded == Spec => []RollingVolumesAreBounded
<1>1. Init => LedgerInv /\ UsageIsVolume
  BY InitIsGood, InitUsage DEF Init
<1>2. LedgerInv /\ UsageIsVolume /\ [Next]_vars => (LedgerInv /\ UsageIsVolume)'
  BY StepsKeepLedger, StepsAreSwapSteps, BridgeKeepsUsage DEF LedgerInv, BridgeInv
<1>3. LedgerInv /\ UsageIsVolume => RollingVolumesAreBounded
  BY RollingFromHours DEF LedgerInv, BridgeInv
<1> QED
  BY <1>1, <1>2, <1>3, PTL DEF Spec

\* The list of bridge tokens stays what it is for the swaps alone.
THEOREM BridgedTokensAreSupported == Spec => []ListedAreSupported
<1>1. Init => LedgerInv /\ ListedAreSupported
  BY InitIsGood DEF Init, MultiBridgeInit, ListedAreSupported
<1>2. LedgerInv /\ ListedAreSupported /\ [Next]_vars => (LedgerInv /\ ListedAreSupported)'
  BY StepsKeepLedger, StepsAreSwapSteps, BridgeKeepsTheList DEF LedgerInv, BridgeInv
<1> QED
  BY <1>1, <1>2, PTL DEF Spec

=============================================================================
