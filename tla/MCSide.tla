------------------------------- MODULE MCSide -------------------------------
(* Five components side by side, of which each behaviour moves one: one run of *)
(* TLC instead of five.                                                        *)
EXTENDS XRate, PageStore, GenericOps, CloudRun, Rekey, TLC

VARIABLE part  \* the component that moves

Init ==
  /\ part \in {"rate", "pages", "ops", "cloud", "rekey"}
  /\ RateInit /\ StoreInit /\ OpInit /\ CloudInit /\ RekeyInit

\* Requests, jobs and machines are numbers here, used in their order: which of those
\* that are alike comes first makes no difference.
InTurn ==
  /\ \A r \in Requests : turn'[r] \in {0, r}
  /\ \A i, j \in Jobs : i < j /\ state'[i] = "none" => state'[j] = "none"
  /\ \A b, c \in Boxes : b < c /\ c \in taken' => b \in taken'

\* Its properties say nothing more once an old copy was saved, nor once all machines
\* have been rented and none costs money: nothing is lost with the steps after that.
CloudAlive == ~stale /\ (taken = Boxes => billing # {})

Next ==
  /\ UNCHANGED part
  /\ \/ part = "rate"  /\ RateNext
        /\ UNCHANGED <<storeVars, opVars, cloudVars, rekeyVars>>
     \/ part = "pages" /\ StoreNext
        /\ UNCHANGED <<rateVars, opVars, cloudVars, rekeyVars>>
     \/ part = "ops"   /\ OpNext
        /\ UNCHANGED <<rateVars, storeVars, cloudVars, rekeyVars>>
     \/ part = "cloud" /\ CloudAlive /\ CloudNext
        /\ UNCHANGED <<rateVars, storeVars, opVars, rekeyVars>>
     \/ part = "rekey" /\ RekeyNext
        /\ UNCHANGED <<rateVars, storeVars, opVars, cloudVars>>
  /\ InTurn

Alike == Permutations(Shells) \cup Permutations(Cases)

=============================================================================
