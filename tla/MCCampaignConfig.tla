-------------------------- MODULE MCCampaignConfig --------------------------
(* CampaignConfig for TLC: requests are interchangeable, and slugs. *)
EXTENDS CampaignConfig, TLC

Symmetry == Permutations(Editor) \cup Permutations(ThemeSlug)
                                     \cup Permutations(CampaignSlug)
=============================================================================
