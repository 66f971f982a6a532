------------------------------- MODULE MCCompanions -------------------------------
(***************************************************************************)
(* One instance of the components that share no state: focus says which of *)
(* them moves, and the others stay in one of their initial states.         *)
(***************************************************************************)
EXTENDS Enrollment, PushSubscriptions, OperatorEpisodes, BlindWindow, SourceFetch,
        RobotsMatcher, AlertLedger, IncidentSurface

VARIABLE focus

Init ==
    /\ focus \in {"enrollment", "push", "episodes", "blind", "fetch", "surface", "ledger",
                 "matcher"}
    /\ PushInit /\ EpisodeInit /\ BlindInit /\ SurfaceInit /\ LedgerInit
    /\ MatcherInit    /\ (focus = "matcher" \/ glob.pattern \o glob.path = <<>>)
    /\ FetchInit      /\ (focus = "fetch" \/ origin.txt.deny = {})
    /\ EnrollmentInit /\ (focus = "enrollment" \/ admission = "closed")

Next ==
    /\ UNCHANGED focus
    /\ \/ /\ focus = "enrollment" /\ EnrollmentNext
          /\ UNCHANGED <<pushVars, episodeVars, blindVars, fetchVars, surfaceVars, ledgerVars, glob>>
       \/ /\ focus = "push" /\ PushNext
          /\ UNCHANGED <<enrollmentVars, episodeVars, blindVars, fetchVars, surfaceVars, ledgerVars, glob>>
       \/ /\ focus = "episodes" /\ EpisodeNext
          /\ UNCHANGED <<enrollmentVars, pushVars, blindVars, fetchVars, surfaceVars, ledgerVars, glob>>
       \/ /\ focus = "blind" /\ BlindNext
          /\ UNCHANGED <<enrollmentVars, pushVars, episodeVars, fetchVars, surfaceVars, ledgerVars, glob>>
       \/ /\ focus = "fetch" /\ FetchNext
          /\ UNCHANGED <<enrollmentVars, pushVars, episodeVars, blindVars, surfaceVars, ledgerVars, glob>>
       \/ /\ focus = "ledger" /\ LedgerNext
          /\ UNCHANGED <<enrollmentVars, pushVars, episodeVars, blindVars, fetchVars, surfaceVars, glob>>
       \/ /\ focus = "surface" /\ SurfaceNext
          /\ UNCHANGED <<enrollmentVars, pushVars, episodeVars, blindVars, fetchVars, ledgerVars, glob>>
       \/ /\ focus = "matcher" /\ MatcherNext
          /\ UNCHANGED <<enrollmentVars, pushVars, episodeVars, blindVars, fetchVars, surfaceVars, ledgerVars>>
-------------------------------------------------------------------------------
\* Every component stays within the values its module declares.
CompanionTypes ==
    CASE focus = "enrollment" -> EnrollmentTypeOK
      [] focus = "push"       -> PushTypeOK
      [] focus = "episodes"   -> EpisodeTypeOK
      [] focus = "blind"      -> BlindTypeOK
      [] focus = "fetch"      -> FetchTypeOK
      [] focus = "surface"    -> SurfaceTypeOK
      [] focus = "ledger"     -> LedgerTypeOK
      [] focus = "matcher"    -> MatcherTypeOK
===============================================================================
