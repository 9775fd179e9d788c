----------------------------- MODULE MCOffline -----------------------------
(***************************************************************************)
(* The offline tools: the generations of MCGeneration; or, on a board of   *)
(* three by four, the miner of probes given one of the dumps of            *)
(* MCProbeMine. The two share nothing, and no game of the rules is played  *)
(* beside them.                                                            *)
(***************************************************************************)
EXTENDS MCGeneration, MCProbeMine

\* Of two best actions the net prefers the last where seat 1 has an even number of cells.
MCPreferred(s, legal) == IF Cardinality({c \in DOMAIN s.cells : s.cells[c].owner = 1}) % 2 = 0 THEN Len(legal) ELSE 1

\* The dumps are such as the miner's theorems are about.
ASSUME DumpsAreRecorded == \A d \in MCDumps : IsDump(d)

OfflineInit ==
  /\ GenInit /\ mined = NotMined /\ state = Rejected
  /\ \/ dump = NoDump
     \/ /\ artifact = CHOOSE net \in Champions : TRUE
        /\ left = CHOOSE b \in Budgets : TRUE
        /\ dump \in MCDumps

Generations == dump = NoDump /\ GenNext /\ UNCHANGED <<dump, mined>>
Mining == MiningNext /\ UNCHANGED genVars

OfflineNext == (Generations \/ Mining) /\ UNCHANGED state
OfflineSpec == OfflineInit /\ [][OfflineNext]_<<genVars, dump, mined, state>>
=============================================================================
