---------------------------- MODULE MCCircActive ----------------------------
(***************************************************************************)
(* The tasks that move items on for others: the pipeline between two       *)
(* devices, a half whose other end is a device, and the join of two        *)
(* buffers.  A behaviour is of one of them.                                *)
(***************************************************************************)
EXTENDS CircPipeline, CircMixed, PipeJoin

VARIABLE suite

MCInit == /\ Init /\ MixInit /\ JoinInit
          /\ \/ suite = "pipeline" /\ mixMode = "in" /\ flaky /\ itemSize = 0
             \/ suite = "mixed" /\ ~blocking /\ itemSize = 0
             \/ suite = "join" /\ ~blocking /\ mixMode = "in" /\ flaky
MCNext == /\ \/ suite = "pipeline" /\ Next /\ UNCHANGED <<mixVars, joinVars>>
             \/ suite = "mixed" /\ MixNext /\ UNCHANGED <<vars, joinVars>>
             \/ suite = "join" /\ JoinNext /\ UNCHANGED <<vars, mixVars>>
          /\ UNCHANGED suite
MCSpec == /\ MCInit /\ [][MCNext]_<<vars, mixVars, joinVars, suite>>
          /\ WF_vars(suite = "pipeline" /\ Task)
          /\ WF_vars(suite = "pipeline" /\ OutputAnswers)
          /\ WF_vars(suite = "pipeline" /\ InputAnswers)
          /\ WF_mixVars(suite = "mixed" /\ Half)
          /\ WF_mixVars(suite = "mixed" /\ (Device \/ DevicePends))
          /\ WF_joinVars(suite = "join" /\ JoinLocal)
          /\ WF_joinVars(suite = "join" /\ JoinAnswers)

=============================================================================
