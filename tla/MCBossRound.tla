---------------------------- MODULE MCBossRound ----------------------------
(* Instances of BossRound for TLC: one instruct task, one GRPO task (which  *)
(* cannot draw) and one lineage.                                            *)
EXTENDS BossRound

CONSTANTS instruct, grpo, qwen

OneOfEach == [k \in {instruct, grpo, qwen} |-> 1]

=============================================================================
