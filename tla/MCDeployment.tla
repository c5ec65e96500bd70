---------------------------- MODULE MCDeployment -----------------------------
(***************************************************************************)
(* Instances of Deployment: constants.ts as it is, for the dollar, and as  *)
(* newBorrowCollat needs it, for the euro; a chain without records and one *)
(* where the protocol is deployed (deployments/).                          *)
(***************************************************************************)
EXTENDS Deployment

MCNetworks == {[live |-> FALSE, main |-> FALSE], [live |-> TRUE, main |-> TRUE],
               [live |-> TRUE, main |-> FALSE]}

Dollar == [stable |-> "USD", treasury |-> "Treasury_USD", bridge |-> "LayerZeroBridge_USD",
           vault |-> "VaultManager_wstETH_USD", oracle |-> "Oracle_WSTETH_USD",
           fees |-> FALSE, dusts |-> TRUE]
Euro == [stable |-> "EUR", treasury |-> "Treasury_EUR", bridge |-> "LayerZeroBridge_EUR",
         vault |-> "VaultManager_bHIGH_EUR", oracle |-> "Oracle_HIGH_EUR",
         fees |-> TRUE, dusts |-> FALSE]
MCConfigs == {Dollar, Euro}

\* The stablecoin of the registry works, and the deployer governs it or not.
Registry == {{Ready("registry")}, {Ready("registry"), Governed("registry")}}

Established == {<<name, "before">> : name \in {"ProxyAdmin", "CoreBorrow", "Treasury",
                                              "Treasury_Implementation", "KeeperRegistry"}}

\* What coreNewStable, agTokenNewStable and treasuryNewStable leave on a side chain.
NewStableRecords ==
    {<<"CoreBorrow_Implementation", "">>, <<"CoreBorrowTest", "">>,
     <<"AgTokenSideChainMultiBridge_Implementation", "">>, <<"Treasury_Implementation", "">>,
     <<"Treasury_USD", "mined">>}
NewStableFacts ==
    {Ready("registry"), Governed("CoreBorrowTest"), Created, Upgraded, Given("stablecoin"),
     Governed("Treasury_USD"), Ready("Treasury_USD")}

MCStarts ==
    {[records |-> r, facts |-> f] : r \in {{}, Established}, f \in Registry}
        \union {[records |-> NewStableRecords, facts |-> NewStableFacts]}

MCTags == DOMAIN (CHOOSE s \in {Scripts[n][c] : n \in Networks, c \in Configs} : TRUE)

MCRemotes == <<"arbitrum", "polygon">>
=============================================================================
