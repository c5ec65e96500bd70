------------------------------ MODULE MCBridge -------------------------------
(***************************************************************************)
(* Instances of LayerZero.  The bridge starts set up as deployment leaves  *)
(* it (deploy/newStable/6_layerZeroBridgeToken.ts and 7_layerZeroSetup.ts  *)
(* on both chains, then a total hourly limit).                             *)
(***************************************************************************)
EXTENDS LayerZero

CONSTANTS FirstDetails, FirstChainLimit

BridgeReady ==
    /\ bridges = [t \in BridgeTokens |-> IF t = LZ THEN FirstDetails ELSE NoDetails]
    /\ bridgeTokensList = <<LZ>>
    /\ chainTotalHourlyLimit = FirstChainLimit
    /\ usage = [t \in BridgeTokens |-> [h \in Hours |-> 0]]
    /\ isFeeExempt = {}
    /\ chainTotalUsage = [h \in Hours |-> 0]
    /\ tokens = [t \in BridgeTokens |-> [a \in Holders \union {This} |-> 0]]
    /\ agTokens = [a \in Holders |-> 0]
    /\ now = 0
    /\ issued = 0 /\ native = 0 /\ contributed = 0
    /\ volumeIn = [t \in BridgeTokens |-> [k \in Ticks |-> 0]]
    /\ volumeOut = [k \in Ticks |-> 0]
    /\ mainTokens \in {f \in [Users -> 0..MainSupply] : TotalOf(f) = MainSupply}
    /\ locked = 0
    /\ credits = [u \in Users |-> 0]
    /\ notReceived = [u \in Users |-> 0]
    /\ channel = [c \in Chains |-> << >>]
    /\ nonces = [c \in Chains |-> 0]
    /\ heldUp = {} /\ failed = {} /\ received = {} /\ dropped = {}
    /\ pausedApps = {} /\ trusted = Chains
    /\ minted = 0 /\ burnt = 0 /\ forgotten = 0

ReadySpec == BridgeReady /\ [][Next]_vars
ReadyFairSpec == ReadySpec /\ Fairness

MCDetails == [limit |-> 4, hourlyLimit |-> 3, fee |-> 1, allowed |-> TRUE, paused |-> FALSE]
=============================================================================
