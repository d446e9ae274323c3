-------------------------- MODULE DownloadProgress --------------------------
(***************************************************************************)
(* DownloadService with one history variable, for what the resume soak     *)
(* test (src/scripts/test/download_resume_soak.sh) compares: the progress  *)
(* saved when the process was killed, and the progress saved after the     *)
(* restart.                                                                *)
(***************************************************************************)
EXTENDS DownloadService

VARIABLE before  \* downloaded_bytes on disk when the actor last stopped

ProgressInit == Init /\ before = [p \in Parts |-> 0]

ProgressNext ==
    /\ Next
    /\ before' = [p \in Parts |-> IF met'[p] = None THEN 0
                                  ELSE IF running /\ ~ running' THEN met'[p].downloaded
                                  ELSE before[p]]

ProgressSpec == ProgressInit /\ [][ProgressNext]_<<vars, before>>

\* After a restart the saved downloaded_bytes of a download never falls below what
\* was saved when the process was killed.
ProgressSurvivesRestart ==
    \A p \in Parts : met[p].downloaded >= before[p]
=============================================================================
