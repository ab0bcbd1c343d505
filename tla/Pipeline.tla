------------------------------- MODULE Pipeline -------------------------------
(***************************************************************************)
(* The command line of Fuzit, from reading a repository to the pack, with  *)
(* the commands around it.  What a part takes from the part before it is   *)
(* an input in its module, over all that the other can produce, so one of  *)
(* them runs in each behaviour.                                            *)
(***************************************************************************)
EXTENDS Acquisition, Selection, GraphStore, GraphSearch, Snapshots, Invalidation, Pack,
        Commands

VARIABLE part  \* which of them runs

Some(S) == CHOOSE x \in S : TRUE

\* A part that does not run starts anywhere.
PipelineInit ==
  /\ part \in {"acquisition", "selection", "store", "search", "snapshots", "invalidation",
               "pack", "commands"}
  /\ AcquisitionInit /\ (part = "acquisition" \/ tree = Some(Trees))
  /\ GraphInit /\ (part = "store" \/ analysis = Some(Analyses))
  /\ InvalidationInit /\ (part = "invalidation" \/
       <<dependencies, changed, maxAffected>> =
         <<Some(DependencyRecords), Some(ChangeSets), Some(AffectedLimits)>>)
  /\ PackInit /\ (part = "pack" \/ <<repository, baseline>> = <<Some(PackTrees), <<>> >>)
  /\ CommandsInit /\ (part = "commands" \/ <<machine, files>> = <<Some(Machines), Some(Start)>>)
  /\ SelectionInit /\ GraphSearchInit /\ SnapshotInit

PipelineNext ==
  /\ UNCHANGED part
  /\ \/ /\ part = "acquisition" /\ \E full \in BOOLEAN : AcquisitionNext(full)
        /\ UNCHANGED <<selectionVars, graphVars, searchVars, snapshotVars, invalidationVars,
                       packVars, commandVars>>
     \/ /\ part = "selection" /\ SelectionNext
        /\ UNCHANGED <<acquisitionVars, graphVars, searchVars, snapshotVars, invalidationVars,
                       packVars, commandVars>>
     \/ /\ part = "store" /\ GraphNext
        /\ UNCHANGED <<acquisitionVars, selectionVars, searchVars, snapshotVars,
                       invalidationVars, packVars, commandVars>>
     \/ /\ part = "search" /\ GraphSearchNext
        /\ UNCHANGED <<acquisitionVars, selectionVars, graphVars, snapshotVars,
                       invalidationVars, packVars, commandVars>>
     \/ /\ part = "snapshots" /\ SnapshotNext
        /\ UNCHANGED <<acquisitionVars, selectionVars, graphVars, searchVars, invalidationVars,
                       packVars, commandVars>>
     \/ /\ part = "invalidation" /\ InvalidationNext
        /\ UNCHANGED <<acquisitionVars, selectionVars, graphVars, searchVars, snapshotVars,
                       packVars, commandVars>>
     \/ /\ part = "pack" /\ PackNext
        /\ UNCHANGED <<acquisitionVars, selectionVars, graphVars, searchVars, snapshotVars,
                       invalidationVars, commandVars>>
     \/ /\ part = "commands" /\ CommandsNext
        /\ UNCHANGED <<acquisitionVars, selectionVars, graphVars, searchVars, snapshotVars,
                       invalidationVars, packVars>>

pipelineVars ==
  <<part, acquisitionVars, selectionVars, graphVars, searchVars, snapshotVars,
    invalidationVars, packVars, commandVars>>

PipelineSpec == PipelineInit /\ [][PipelineNext]_pipelineVars

PipelineTypeOK ==
  AcquisitionTypeOK /\ SelectionTypeOK /\ GraphSearchTypeOK /\ SnapshotTypeOK
    /\ PackTypeOK /\ CommandsTypeOK

=============================================================================
