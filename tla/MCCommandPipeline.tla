------------------------- MODULE MCCommandPipeline -------------------------
(* Messages for TLC: the same id twice (a retried command), a message without *)
(* an id, and one message for each way validate or parse refuses it.          *)
EXTENDS CommandPipelineRefinement

CONSTANTS i1, i2

Cmd(sig, id, issuer) == [form |-> "command", sig |-> sig, id |-> id, issuer |-> issuer]

Treat == Cmd(85, i1, "server")
Lid == Cmd(64, i2, Absent)
Anonymous == Cmd(65536 + 84, Absent, "server")   \* narrowed to signal 84
NoIssuer == Cmd(126, i2, Empty)
Garbage == [form |-> "garbage", sig |-> 0, id |-> Absent, issuer |-> Absent]
Mistyped == [form |-> "mistyped", sig |-> 84, id |-> i1, issuer |-> Absent]

MCMessages == {Treat, Lid, Anonymous, NoIssuer, Garbage, Mistyped}
=============================================================================
