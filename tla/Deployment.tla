----------------------------- MODULE Deployment ------------------------------
(***************************************************************************)
(* The deployment scripts (deploy/, run by hardhat-deploy): an operator    *)
(* runs tags, a tag runs its dependencies and then its script, a script is *)
(* a sequence of lookups of recorded contracts, deployments and            *)
(* transactions, and what it has done stays done when it throws or its     *)
(* process dies: the next run starts from the first step again.            *)
(*                                                                         *)
(* hardhat-deploy is outside: it records each contract it deploys by name, *)
(* deploy() leaves alone a contract recorded with the same arguments, and  *)
(* looking up a name that is not recorded throws.                          *)
(***************************************************************************)
EXTENDS Integers, Sequences, Functions

CONSTANTS
    Networks,        \* [live, main]: a fork of mainnet when not live
    Configs,         \* what constants.ts is edited to say
    Starts,          \* [records, facts]: what may have been deployed before
    OpenTags,        \* the tags that the operator runs
    Remotes,         \* the other chains of the OFTs table
    MaxRuns          \* bound on the runs

Config == [stable : STRING, treasury : STRING, bridge : STRING, vault : STRING,
           oracle : STRING, fees : BOOLEAN, dusts : BOOLEAN]

ASSUME DeploymentAssumption ==
    /\ Networks \subseteq [live : BOOLEAN, main : BOOLEAN]
    /\ \A c \in Configs : c \in Config
    /\ Remotes \in Seq(Range(Remotes))
    /\ MaxRuns \in Nat

VARIABLES
    network, config,
    records,         \* contracts recorded: <<name, arguments>>, one for each name
    facts,           \* what is true of the contracts: <<what, contract>>
    queue, pos,      \* scripts left to run and steps done of the first
    runs, crashes,   \* runs started, runs whose process died
    fresh            \* the facts that the present run has established

deployVars == <<network, config, records, facts, queue, pos, runs, crashes, fresh>>

-----------------------------------------------------------------------------
\* Steps.  A step looks up `reads`, deploys `deploys` unless that is recorded (under
\* any arguments if `reuses`), and needs `needs` and none of `bars` or it reverts.

Nothing == [reads |-> {}, deploys |-> {}, reuses |-> FALSE, unless |-> {},
            needs |-> {}, bars |-> {}, gives |-> {}, flips |-> {}]

Get(names) == <<[Nothing EXCEPT !.reads = names]>>

Deploy(name, args, needs, gives) ==
    <<[Nothing EXCEPT !.deploys = {<<name, args>>}, !.needs = needs, !.gives = gives]>>

Implementation(name) == Deploy(name, "", {}, {})

\* deployImplem and deployProxy, or the same by hand: whatever is recorded is reused.
Ensure(name, args, needs, gives) ==
    <<[Deploy(name, args, needs, gives)[1] EXCEPT !.reuses = TRUE]>>

EnsureImplementation(name) == Ensure(name, "", {}, {})
EnsureContract(name) == Ensure(name, "", {}, {})

\* A step left out if one of `names` is recorded.
Unless(names, step) == <<[step[1] EXCEPT !.unless = names]>>

Call(needs, bars, gives) ==
    <<[Nothing EXCEPT !.needs = needs, !.bars = bars, !.gives = gives]>>

Flip(needs, fact) == <<[Nothing EXCEPT !.needs = needs, !.flips = {fact}]>>

When(condition, steps) == IF condition THEN steps ELSE << >>

\* A file that is not there, or an argument that is no address.
Throws == Get({"missing"})

-----------------------------------------------------------------------------
\* What the scripts establish.  Nobody but the deployer governs what they look at; the
\* contracts of the SDK's registry are governed by it or not.

Governed(treasury) == <<"governed by the deployer", treasury>>
Ready(treasury) == <<"its stablecoin is initialized", treasury>>
Registered(vault, treasury) == <<"registered", vault, treasury>>
Open(vault, treasury) == <<"not paused", vault, treasury>>
FeesSet(vault, treasury) == <<"fees set", vault, treasury>>
DustsSet(vault, treasury) == <<"dusts set", vault, treasury>>
Created == <<"created", "stablecoin">>
Upgraded == <<"upgraded", "stablecoin">>
Given(contract) == <<"given to governance", contract>>
Supported(bridge) == <<"supported", bridge>>
AdapterParams(bridge) == <<"custom adapter params", bridge>>
Trusts(bridge, remote) == <<"trusts", bridge, remote>>

\* No contract is named like one of these.
Sentences == {"its stablecoin is initialized", "upgraded", "given to governance"}

\* The scripts build the names of constants.ts as Treasury_<stablecoin>,
\* VaultManager_<collateral>_<stablecoin> and LayerZeroBridge_<stablecoin>: no two are
\* the same, and none but those of the euro is the name of another script's contract.
ASSUME NamesAssumption ==
    \A c \in Configs :
        /\ {c.treasury, c.bridge, c.vault} \intersect Sentences = {}
        /\ c.treasury \notin {"", "mined", "registry", "AgToken_EUR", "Mock_MockTreasury"}
        /\ c.vault \notin {c.bridge, "LayerZeroBridge_EUR", "Oracle_STEUR_ETH"}
        /\ c.bridge # "Oracle_WSTETH_USD"

IsRecord(r) == r = <<r[1], r[2]>>
IsFact(f) == f = <<f[1], f[2]>> \/ f = <<f[1], f[2], f[3]>>

\* What the scripts find is of their own making or as they would have left it: a name is
\* recorded once, what is open is registered, what is registered may mint, the proxy was
\* handed over with its implementation and the treasury initialized after that.
Consistent(rs, fs) ==
    /\ \A r \in rs : IsRecord(r) /\ r[1] \notin Sentences
    /\ \A x, y \in rs : x[1] = y[1] => x = y
    /\ \A f \in fs : IsFact(f) /\ f[1] # "Treasury_EUR"
    /\ \A f \in fs : f[1] = "not paused" => Registered(f[2], f[3]) \in fs
    /\ \A f \in fs : f[1] = "registered" => Ready(f[3]) \in fs
    /\ Given("stablecoin") \in fs => Upgraded \in fs
    /\ \A f \in fs : f[1] = "its stablecoin is initialized" =>
          \/ f[2] = "registry"
          \/ Given("stablecoin") \in fs
          \/ (\E r \in rs : r[1] = f[2]) /\ <<f[2], "mined">> \notin rs

ASSUME StartsAssumption == \A s \in Starts : Consistent(s.records, s.facts)

OnMainnet(n) == ~n.live \/ n.main

-----------------------------------------------------------------------------
\* deploy/newStable.

CoreNewStable ==
    EnsureImplementation("CoreBorrow_Implementation")
        \o Deploy("CoreBorrowTest", "", {}, {Governed("CoreBorrowTest")})

\* safeCreate2 reverts if the address is taken.
Create2 == Call({}, {Created}, {Created})

\* upgradeTo and changeAdmin of the proxy, for its admin only.
UpgradeTo == Call({Created}, {Given("stablecoin")}, {Upgraded})
ChangeAdmin == Call({Created}, {Given("stablecoin")}, {Given("stablecoin")})

\* Mutant: the deployer stays the admin of the proxy.
AgTokenKept(n) == Create2 \o UpgradeTo

AgTokenNewStable(n) ==
    Implementation(IF OnMainnet(n) THEN "AgToken_Implementation"
                   ELSE "AgTokenSideChainMultiBridge_Implementation")
        \o Create2 \o UpgradeTo \o ChangeAdmin

\* The deployer cannot reach the stablecoin through its proxy as long as it is the admin
\* of it, and the treasury must have it for stablecoin.
TreasuryNewStable(c) ==
    Get({"CoreBorrowTest"})
        \o EnsureImplementation("Treasury_Implementation")
        \o Ensure(c.treasury, "mined", {}, {Governed(c.treasury)})
        \o Call({Upgraded, Given("stablecoin"), <<c.treasury, "mined">>}, {Ready(c.treasury)},
                {Ready(c.treasury)})

OracleNewStable(n, c) ==
    When(OnMainnet(n),
         Get({c.treasury}) \o Deploy("Oracle_WSTETH_USD", c.treasury, {}, {}))

\* addVaultManager.
\* Mutant: it does nothing when the contract is registered.
RegisterAgain(vault, treasury) ==
    Call({Governed(treasury), Ready(treasury)}, {}, {Registered(vault, treasury)})

Register(vault, treasury) ==
    Call({Governed(treasury), Ready(treasury)}, {Registered(vault, treasury)},
         {Registered(vault, treasury)})

\* Mutant: the VaultManager is unpaused before it is registered.
VaultManagerOpenedFirst(c, treasury) ==
    Get({c.oracle})
        \o Deploy(c.vault, treasury, {<<c.oracle, treasury>>}, {})
        \o Flip({Governed(treasury)}, Open(c.vault, treasury))
        \o Register(c.vault, treasury)

\* The body of the loops over vaultsList: initialize wants an oracle of the same
\* treasury; the VaultManager is opened before its fees and dusts are set.
VaultManagerSteps(c, treasury) ==
    Get({c.oracle})
        \o Deploy(c.vault, treasury, {<<c.oracle, treasury>>}, {})
        \o Register(c.vault, treasury)
        \o Flip({Governed(treasury)}, Open(c.vault, treasury))
        \o When(c.fees, Call({Governed(treasury)}, {}, {FeesSet(c.vault, treasury)}))
        \o When(c.dusts, Call({Governed(treasury)}, {}, {DustsSet(c.vault, treasury)}))

VaultNewStable(n, c) ==
    When(OnMainnet(n),
         EnsureImplementation("VaultManager_NoDust")
             \o Get({c.treasury}) \o VaultManagerSteps(c, c.treasury))

LzBridgeNewStable(n, c) ==
    When(OnMainnet(n),
         Get({c.treasury})
             \o Unless({"LayerZeroBridge"}, EnsureImplementation("LayerZeroBridge_Implementation"))
             \o Ensure(c.bridge, c.treasury, {}, {}))

\* The limit on what leaves the chain is left at zero.
LzBridgeTokenNewStable(n, c) ==
    When(~OnMainnet(n),
         Get({c.treasury})
             \o EnsureImplementation("LayerZeroBridgeToken_V1_0_Implementation")
             \o Ensure(c.bridge, c.treasury, {}, {})
             \o Call({Governed(c.treasury)}, {}, {AdapterParams(c.bridge)})
             \o Call({Governed(c.treasury), Ready(c.treasury)}, {Supported(c.bridge)},
                     {Supported(c.bridge)}))

\* The table of addresses is taken to be up to date.
LzSetupNewStable(c) ==
    [i \in DOMAIN Remotes |->
        Call({Governed(c.treasury), <<c.bridge, c.treasury>>}, {}, {Trusts(c.bridge, Remotes[i])})[1]]

-----------------------------------------------------------------------------
\* deploy/newBorrowCollat, for the EUR stablecoin of the registry.

OracleScript ==
    Deploy("Oracle_HIGH_EUR", "registry", {}, {}) \o Deploy("Oracle_IB01_EUR", "registry", {}, {})

VaultManagerImplementation ==
    EnsureImplementation("VaultManager_PermissionedLiquidations_Implementation")

VaultManagerProxy(n, c) ==
    When(n.live, Get({"ProxyAdmin"})) \o VaultManagerSteps(c, "registry")

\* ./networks is not a directory of deploy/newBorrowCollat.
SwapperScript == Throws \o Deploy("Swapper", "", {}, {})

-----------------------------------------------------------------------------
\* deploy/newChain and deploy/newChainMerkl.

\* The names are swapped: the contract is recorded under the governor's address, and it
\* is to be owned by "ProxyAdmin".
ProxyAdminScript == Implementation("governor") \o Throws

CoreBorrowScript ==
    Get({"ProxyAdmin"}) \o Implementation("CoreBorrow_Implementation")
        \o Deploy("CoreBorrow", "", {}, {})

AgTokenImplementation ==
    Get({"ProxyAdmin"}) \o Implementation("AgTokenSideChainMultiBridge_Implementation")
        \o Deploy("AgToken_EUR", "", {}, {})

TreasuryScript(n) ==
    Get({"AgToken_EUR"})
        \o When(~OnMainnet(n), Get({"ProxyAdmin", "CoreBorrow"}))
        \o EnsureImplementation("Treasury_Implementation")
        \o Ensure("Treasury_EUR", "AgToken_EUR", {}, {})
        \o Call({<<"Treasury_EUR", "AgToken_EUR">>}, {Ready("Treasury_EUR")},
                {Ready("Treasury_EUR")})

ProxyAdminAngleLabs ==
    Implementation("ProxyAdminAngleLabs")
        \o Call({}, {Given("ProxyAdminAngleLabs")}, {Given("ProxyAdminAngleLabs")})

CoreMerkl ==
    Get({"ProxyAdminAngleLabs"}) \o Implementation("CoreBorrow_Implementation")
        \o Deploy("CoreMerkl", "", {}, {})

-----------------------------------------------------------------------------
\* deploy/flashloan, deploy/keeper, deploy/newOracle, deploy/mock.

FlashAngleScript(n) ==
    When(n.live, Get({"ProxyAdmin"}))
        \o EnsureImplementation("FlashAngle_Implementation")
        \o Get({"CoreBorrow"}) \o Deploy("FlashAngle", "", {}, {})

\* Here too ./networks is missing.
FlashAngleGovernance(n) ==
    Throws
        \o When(n.live, Get({"AgToken_EUR"}))
        \o Get({"Treasury", "CoreBorrow", "FlashAngle"})
        \o Call({}, {}, {<<"flash loan module", "FlashAngle">>})
        \o Call({}, {}, {<<"flash loaner", "Treasury">>})
        \o Call({<<"flash loaner", "Treasury">>}, {}, {<<"parameters set", "FlashAngle">>})

KeeperMulticall ==
    Implementation("KeeperMulticall_Implementation") \o Deploy("KeeperMulticall", "", {}, {})

KeeperRegistry ==
    Implementation("KeeperRegistry_Implementation") \o Deploy("KeeperRegistry", "", {}, {})

MulticallWithFailure == Deploy("MultiCallWithFailure", "", {}, {})

AngleHelpers ==
    Implementation("AngleHelpers_Avalanche_Implementation")
        \o Deploy("AngleBorrowHelpersAvalanche", "", {}, {})

NewOracle == Deploy("Oracle_STEUR_ETH", "Treasury_EUR of Arbitrum", {}, {})

\* It looks up another contract than the one it deploys.
MockTokenScript == Deploy("MockEUR", "", {}, {}) \o Get({"aglaMerkl"})

-----------------------------------------------------------------------------
\* deploy/bridges.

LayerZeroBridgeScript(n) ==
    When(~OnMainnet(n), Throws)
        \o Get({"Treasury", "ProxyAdmin"})
        \o EnsureImplementation("LayerZeroBridge_Implementation")
        \o Ensure("LayerZeroBridge_EUR", "Treasury", {}, {})

LayerZeroBridgeTokenScript ==
    Implementation("LayerZeroBridgeToken_V1_0_Implementation")
        \o Get({"Treasury_EUR", "ProxyAdmin"})
        \o Ensure("LayerZeroBridge_EUR", "Treasury_EUR", {}, {})

\* The mock treasury is given the address that the stablecoin will have: the next one
\* of the deployer.  Its initialize checks it.
MockLayerZeroBridgeToken ==
    LET treasury == "Mock_MockTreasury"
        agToken == "Mock_AgTokenSideChainMultiBridge"
        bridge == "Mock_LayerZeroBridgeToken"
    IN  EnsureContract(treasury)
            \o EnsureImplementation("Mock_AgTokenSideChainMultiBridge_Implementation")
            \o Unless({agToken}, Call({}, {}, {<<"expects", treasury>>}))
            \o Ensure(agToken, treasury, {<<"expects", treasury>>}, {})
            \o EnsureImplementation("Mock_LayerZeroBridgeToken_Implementation")
            \o Ensure(bridge, treasury, {}, {})
            \o Call({}, {Supported(bridge)}, {Supported(bridge)})
            \o Call({}, {}, {<<"minter", agToken>>})
            \o Call({<<"minter", agToken>>}, {}, {<<"minted", agToken>>})

\* LayerZeroSetSources and LayerZeroAddresses only print.
Prints == << >>

-----------------------------------------------------------------------------
\* scripts/addGovernor.

AddGovernor ==
    Get({"CoreBorrowTest"})
        \o Call({Governed("CoreBorrowTest")}, {}, {<<"governed by governance", "CoreBorrowTest">>})

-----------------------------------------------------------------------------
\* The script of each tag.
ScriptsFor(n, c) ==
    [coreNewStable |-> CoreNewStable,
     agTokenNewStable |-> AgTokenNewStable(n),
     treasuryNewStable |-> TreasuryNewStable(c),
     oracleNewStable |-> OracleNewStable(n, c),
     vaultNewStable |-> VaultNewStable(n, c),
     lzBridgeNewStable |-> LzBridgeNewStable(n, c),
     lzBridgeTokenNewStable |-> LzBridgeTokenNewStable(n, c),
     lzSetupNewStable |-> LzSetupNewStable(c),
     oracle |-> OracleScript,
     vaultManagerImplementation |-> VaultManagerImplementation,
     vaultManagerProxy |-> VaultManagerProxy(n, c),
     swapper |-> SwapperScript,
     proxyAdmin |-> ProxyAdminScript,
     coreBorrow |-> CoreBorrowScript,
     agTokenImplementation |-> AgTokenImplementation,
     treasury |-> TreasuryScript(n),
     proxyAdminAngleLabs |-> ProxyAdminAngleLabs,
     coreMerkl |-> CoreMerkl,
     flashAngle |-> FlashAngleScript(n),
     flashAngleGovernance |-> FlashAngleGovernance(n),
     keeper_multicall |-> KeeperMulticall,
     keeperRegistry |-> KeeperRegistry,
     multicall_with_failure |-> MulticallWithFailure,
     angleHelpers |-> AngleHelpers,
     newOracle |-> NewOracle,
     mockToken |-> MockTokenScript,
     LayerZeroBridge |-> LayerZeroBridgeScript(n),
     LayerZeroBridgeToken |-> LayerZeroBridgeTokenScript,
     mockLayerZeroBridgeToken |-> MockLayerZeroBridgeToken,
     LayerZeroSources |-> Prints,
     addGovernor |-> AddGovernor]

Scripts == [n \in Networks |-> [c \in Configs |-> ScriptsFor(n, c)]]

ASSUME TagsAssumption ==
    \A n \in Networks, c \in Configs : OpenTags \subseteq DOMAIN Scripts[n][c]

NewStable == <<"coreNewStable", "agTokenNewStable", "treasuryNewStable", "oracleNewStable",
               "vaultNewStable", "lzBridgeNewStable">>

Pairs == {<<"oracle", "vaultManagerProxy">>, <<"proxyAdmin", "coreBorrow">>,
          <<"proxyAdminAngleLabs", "coreMerkl">>, <<"flashAngle", "flashAngleGovernance">>}

\* A tag and what it depends on, in the order they run.
WithDependencies(tag) ==
    IF tag \in Range(NewStable)
    THEN SubSeq(NewStable, 1, CHOOSE i \in DOMAIN NewStable : NewStable[i] = tag)
    ELSE IF \E p \in Pairs : p[2] = tag THEN CHOOSE p \in Pairs : p[2] = tag
    ELSE <<tag>>

-----------------------------------------------------------------------------
NameRecorded(name) == \E r \in records : r[1] = name

Skipped(s) == \/ \E name \in s.unless : NameRecorded(name)
              \/ s.reuses /\ \E d \in s.deploys : NameRecorded(d[1])
              \/ s.deploys # {} /\ s.deploys \subseteq records

Possible(s) ==
    /\ \A name \in s.reads : NameRecorded(name)
    /\ Skipped(s) \/ (s.needs \subseteq records \union facts /\ s.bars \intersect facts = {})

Steps == Scripts[network][config][Head(queue)]

StartRun(tag) ==
    /\ queue = << >> /\ runs < MaxRuns
    /\ queue' = WithDependencies(tag)
    /\ pos' = 0
    /\ runs' = runs + 1
    /\ UNCHANGED <<network, config, records, facts, crashes, fresh>>

NewRecords(s) == {r \in records : \A d \in s.deploys : r[1] # d[1]} \union s.deploys

NewFacts(s) == (facts \union s.gives \union s.flips) \ (s.flips \intersect facts)

DoStep ==
    /\ queue # << >> /\ pos < Len(Steps)
    /\ LET s == Steps[pos + 1]
       IN  /\ Possible(s)
           /\ IF Skipped(s)
              THEN UNCHANGED <<records, facts, fresh>>
              ELSE /\ records' = NewRecords(s)
                   /\ facts' = NewFacts(s)
                   /\ fresh' = fresh \union (facts' \ facts)
    /\ pos' = pos + 1
    /\ UNCHANGED <<network, config, queue, runs, crashes>>

NextScript ==
    /\ queue # << >> /\ pos = Len(Steps)
    /\ queue' = Tail(queue)
    /\ pos' = 0
    /\ fresh' = IF Len(queue) = 1 THEN {} ELSE fresh
    /\ UNCHANGED <<network, config, records, facts, runs, crashes>>

Stop ==
    /\ queue' = << >> /\ pos' = 0 /\ fresh' = {}
    /\ UNCHANGED <<network, config, records, facts, runs>>

Throw ==
    /\ queue # << >> /\ pos < Len(Steps)
    /\ ~Possible(Steps[pos + 1])
    /\ Stop
    /\ UNCHANGED crashes

Crash ==
    /\ queue # << >>
    /\ crashes' = crashes + 1
    /\ Stop

DeploymentInit ==
    /\ network \in Networks /\ config \in Configs
    /\ \E start \in Starts : records = start.records /\ facts = start.facts
    /\ queue = << >> /\ pos = 0 /\ runs = 0 /\ crashes = 0 /\ fresh = {}

DeploymentNext ==
    \/ \E tag \in OpenTags : StartRun(tag)
    \/ DoStep
    \/ NextScript
    \/ Throw
    \/ Crash

\* A process that does not die goes on.
DeploymentSpec ==
    DeploymentInit /\ [][DeploymentNext]_deployVars /\ WF_deployVars(DoStep \/ NextScript \/ Throw)

-----------------------------------------------------------------------------
\* Properties.

\* Every variable has its type, a name is recorded once, and what a run has done holds.
DeploymentTypeOK ==
    /\ network \in Networks /\ config \in Configs
    /\ \A r \in records : IsRecord(r)
    /\ \A x, y \in records : x[1] = y[1] => x = y
    /\ \A f \in facts : IsFact(f)
    /\ fresh \subseteq facts
    /\ queue \in Seq(DOMAIN Scripts[network][config]) /\ pos \in Nat
    /\ runs \in 0..MaxRuns /\ crashes \in 0..MaxRuns

\* A VaultManager is never open before the treasury has registered it and it may mint,
\* wherever the scripts stop.
OpenIsRegistered ==
    \A t \in {config.treasury, "registry"} :
       Open(config.vault, t) \in facts =>
          Registered(config.vault, t) \in facts /\ Ready(t) \in facts

\* The proxy of the stablecoin is handed over with its implementation, and initialized
\* for its treasury only then: no stop leaves it to governance with the factory's code.
HandedOverInOrder ==
    /\ Given("stablecoin") \in facts => Upgraded \in facts
    /\ Ready(config.treasury) \in facts /\ NameRecorded(config.treasury)
          /\ <<config.treasury, "mined">> \in records => Given("stablecoin") \in facts

\* Wherever the scripts stop: each name is recorded once, and what is open or handed
\* over has had before what it needs.
DeploymentInv == DeploymentTypeOK /\ OpenIsRegistered /\ HandedOverInOrder

\* togglePause opens the VaultManager once: no rerun pauses it again.
StaysOpen ==
    [][\A t \in {config.treasury, "registry"} :
          Open(config.vault, t) \in facts => Open(config.vault, t) \in facts']_deployVars

\* The scripts cannot be resumed: what follows the creation of the stablecoin is only
\* deployed by the run that created it, and CoreMerkl by the run that hands its
\* ProxyAdmin over, because a run starts by the dependencies and these revert then.
Follows(contract, fact) ==
    contract \in records' \ records => fact \in fresh

NeverResumed ==
    [][/\ \A contract \in {<<config.treasury, "mined">>, <<"Oracle_WSTETH_USD", config.treasury>>,
                            <<config.vault, config.treasury>>} : Follows(contract, Created)
       /\ Follows(<<"CoreMerkl", "">>, Given("ProxyAdminAngleLabs"))]_deployVars

\* A tag run again, after a crash or a failure further on, neither undoes what was done
\* (togglePause) nor goes on from where it stopped (safeCreate2, transferOwnership).
RerunsStopEarly == StaysOpen /\ NeverResumed

\* From nothing, one run that is not interrupted deploys the stablecoin: each step finds
\* what it looks up and has the rights it needs.
Fresh == runs = 1 /\ queue = NewStable /\ pos = 0 /\ records = {} /\ config.oracle = "Oracle_WSTETH_USD"

Complete ==
    /\ Ready(config.treasury) \in facts
    /\ OnMainnet(network) =>
          /\ Open(config.vault, config.treasury) \in facts
          /\ config.dusts => DustsSet(config.vault, config.treasury) \in facts
          /\ <<config.bridge, config.treasury>> \in records

FreshRunCompletes == Fresh ~> (Complete \/ crashes > 0)
=============================================================================
